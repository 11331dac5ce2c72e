------------------------------- MODULE Estate -------------------------------
(***************************************************************************)
(* The parts of an installation whose state is apart from each other's:    *)
(* they share no state in the code but the database and the disk they lie  *)
(* in, each its own tables and files.  A behaviour is about one of them,   *)
(* and the others rest in what they were started with.                     *)
(***************************************************************************)
EXTENDS Maildir, Directory, Provisioning, ConfigApply, Migrations, Retention,
        LiveRestore, Groupware, Filters, ProtocolAccess, MailView, HostNames

VARIABLE part  \* the part this behaviour is about

PartNames == {"maildir", "directory", "dns", "config", "schema", "retention",
              "restore", "groupware", "filters", "protocols", "view", "names"}

EstateInit ==
    /\ part \in PartNames
    /\ Init
    /\ DirectoryInit
    /\ ProvisioningInit
    /\ ConfigInit
    /\ MigrationsInit
    /\ RetentionInit
    /\ LiveRestoreInit
    /\ GroupwareInit
    /\ FiltersInit
    /\ ProtocolInit
    /\ MailViewInit
    /\ HostNamesInit

\* A part that the behaviour is not about stays as it is.
Rests(name, v) == part = name \/ (part # name /\ UNCHANGED v)

EstateNext ==
    /\ part' = part
    /\ Rests("maildir", vars)
    /\ Rests("directory", directoryVars)
    /\ Rests("dns", provisioningVars)
    /\ Rests("config", configVars)
    /\ Rests("schema", migrationsVars)
    /\ Rests("retention", retentionVars)
    /\ Rests("restore", liveRestoreVars)
    /\ Rests("groupware", groupwareVars)
    /\ Rests("filters", filtersVars)
    /\ Rests("protocols", protocolVars)
    /\ Rests("view", mailViewVars)
    /\ Rests("names", hostNamesVars)
    /\ \/ part = "maildir" /\ Next
       \/ part = "directory" /\ DirectoryNext
       \/ part = "dns" /\ ProvisioningNext
       \/ part = "config" /\ ConfigNext
       \/ part = "schema" /\ MigrationsNext
       \/ part = "retention" /\ RetentionNext
       \/ part = "restore" /\ LiveRestoreNext
       \/ part = "groupware" /\ GroupwareNext
       \/ part = "filters" /\ FiltersNext
       \/ part = "protocols" /\ ProtocolNext
       \/ part = "view" /\ MailViewNext
       \/ part = "names" /\ HostNamesNext

EstateVars == <<part, vars, directoryVars, provisioningVars, configVars, migrationsVars,
                retentionVars, liveRestoreVars, groupwareVars, filtersVars,
                protocolVars, mailViewVars, hostNamesVars>>

EstateSpec == EstateInit /\ [][EstateNext]_EstateVars

-----------------------------------------------------------------------------
(* Properties                                                              *)

\* Whatever part is at work keeps its variables within their types.
EstateTypeOK ==
    /\ part = "maildir" => TypeOK
    /\ part = "directory" => DirectoryTypeOK
    /\ part = "dns" => ProvisioningTypeOK
    /\ part = "config" => ConfigTypeOK
    /\ part = "schema" => MigrationsTypeOK
    /\ part = "retention" => RetentionTypeOK
    /\ part = "restore" => LiveRestoreTypeOK
    /\ part = "groupware" => GroupwareTypeOK
    /\ part = "filters" => FiltersTypeOK
    /\ part = "protocols" => ProtocolTypeOK
    /\ part = "view" => MailViewTypeOK
    /\ part = "names" => HostNamesTypeOK

=============================================================================
