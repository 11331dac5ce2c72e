---------------------------- MODULE EstateProofs ----------------------------
(***************************************************************************)
(* Proofs about Estate: a behaviour of the installation is one of each of  *)
(* its parts, so what is proved of a part holds of the installation.       *)
(***************************************************************************)
EXTENDS Estate, ServicesProofs, OperationsProofs

-----------------------------------------------------------------------------

\* A behaviour of the installation is, for each part, one of the part's own
\* specification: a step of it, or one at which it rests.
THEOREM PartsRunApart ==
  EstateSpec => /\ Spec
                /\ DirectorySpec
                /\ ProvisioningSpec
                /\ ConfigSpec
                /\ MigrationsSpec
                /\ RetentionSpec
                /\ LiveRestoreSpec
                /\ GroupwareSpec
                /\ FiltersSpec
                /\ ProtocolSpec
                /\ MailViewSpec
                /\ HostNamesSpec
<1>1. EstateInit => /\ Init /\ DirectoryInit /\ ProvisioningInit
                    /\ ConfigInit /\ MigrationsInit /\ RetentionInit
                    /\ LiveRestoreInit /\ GroupwareInit /\ FiltersInit
                    /\ ProtocolInit /\ MailViewInit /\ HostNamesInit
  BY DEF EstateInit
<1>2. [EstateNext]_EstateVars => [Next]_vars
  BY DEF EstateNext, EstateVars, Rests
<1>3. [EstateNext]_EstateVars => [DirectoryNext]_directoryVars
  BY DEF EstateNext, EstateVars, Rests
<1>4. [EstateNext]_EstateVars => [ProvisioningNext]_provisioningVars
  BY DEF EstateNext, EstateVars, Rests
<1>5. [EstateNext]_EstateVars => [ConfigNext]_configVars
  BY DEF EstateNext, EstateVars, Rests
<1>6. [EstateNext]_EstateVars => [MigrationsNext]_migrationsVars
  BY DEF EstateNext, EstateVars, Rests
<1>7. [EstateNext]_EstateVars => [RetentionNext]_retentionVars
  BY DEF EstateNext, EstateVars, Rests
<1>8. [EstateNext]_EstateVars => [LiveRestoreNext]_liveRestoreVars
  BY DEF EstateNext, EstateVars, Rests
<1>9. [EstateNext]_EstateVars => [GroupwareNext]_groupwareVars
  BY DEF EstateNext, EstateVars, Rests
<1>10. [EstateNext]_EstateVars => [FiltersNext]_filtersVars
  BY DEF EstateNext, EstateVars, Rests
<1>11. [EstateNext]_EstateVars => [ProtocolNext]_protocolVars
  BY DEF EstateNext, EstateVars, Rests
<1>12. [EstateNext]_EstateVars => [MailViewNext]_mailViewVars
  BY DEF EstateNext, EstateVars, Rests
<1>13. [EstateNext]_EstateVars => [HostNamesNext]_hostNamesVars
  BY DEF EstateNext, EstateVars, Rests
<1> QED
  BY <1>1, <1>2, <1>3, <1>4, <1>5, <1>6, <1>7, <1>8, <1>9, <1>10, <1>11, <1>12, <1>13, PTL
     DEF EstateSpec, Spec, DirectorySpec, ProvisioningSpec, ConfigSpec,
         MigrationsSpec, RetentionSpec, LiveRestoreSpec, GroupwareSpec,
         FiltersSpec, ProtocolSpec, MailViewSpec, HostNamesSpec

\* Every part of the installation keeps its types.
THEOREM EstateTypes == EstateSpec => []EstateTypeOK
<1>1. EstateSpec => /\ []TypeOK
                    /\ []DirectoryTypeOK
                    /\ []ProvisioningTypeOK
                    /\ []ConfigTypeOK
                    /\ []MigrationsTypeOK
                    /\ []RetentionTypeOK
                    /\ []LiveRestoreTypeOK
                    /\ []GroupwareTypeOK
                    /\ []FiltersTypeOK
                    /\ []ProtocolTypeOK
                    /\ []MailViewTypeOK
                    /\ []HostNamesTypeOK
  BY PartsRunApart, MaildirTypes, DirectoryTypes, ProvisioningTypes,
     ConfigurationTypes, MigrationTypes, RetentionTypes, LiveRestoreTypes,
     GroupwareTypes, FilterTypes, SignInTypes, MailViewTypes, HostNamesTypes,
     PTL
<1>2. /\ TypeOK /\ DirectoryTypeOK /\ ProvisioningTypeOK
      /\ ConfigTypeOK /\ MigrationsTypeOK /\ RetentionTypeOK
      /\ LiveRestoreTypeOK /\ GroupwareTypeOK /\ FiltersTypeOK
      /\ ProtocolTypeOK /\ MailViewTypeOK /\ HostNamesTypeOK
      => EstateTypeOK
  BY DEF EstateTypeOK
<1> QED BY <1>1, <1>2, PTL

\* What each part promises is kept in the installation: the two of them that are
\* about messages and archives at every step, the others at every moment.
THEOREM PromisesKept ==
  ASSUME SentNotReported
  PROVE  EstateSpec =>
           /\ []SentStaysApart /\ MovesKeepMessages
           /\ [](OneOwnerPerMailbox /\ QueriesAgree)
           /\ []AppliedAsAnswered
           /\ []QuietRunIsCurrent
           /\ []RecordedIsApplied
           /\ RetentionHeld
           /\ []RestoreIsWhole
           /\ []PutIsReadable
           /\ []ScriptFollowsRows
           /\ []OpensByPolicy
           /\ []ScreenIsTrue
           /\ [](NamesResolve /\ CertificatesFit)
<1>1. Spec => []SentStaysApart
  BY SentIsApart
<1> QED
  BY <1>1, PartsRunApart, MovesKeep, OneOwner, QueriesAreConsistent,
     AppliesAreAsAnswered, QuietRunWorks, RecordsAreTrue, ArchivesAreHeld,
     RestoresAreWhole, ObjectsAgree, ScriptIsCurrent, SignInsAreProper,
     ScreensAreTrue, NamesAreServed, CertificatesAreFit, PTL

=============================================================================
