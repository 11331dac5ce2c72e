------------------------------ MODULE HostNames ------------------------------
(***************************************************************************)
(* The names of a mail domain: the host its mail goes to, the DNS records  *)
(* it should have, what mail clients are told, the names its certificates  *)
(* are for and the certificates that are found for it.                     *)
(*                                                                         *)
(*   internal/admin/sql_store.go   settings, records, certificate search   *)
(*   internal/admin/handlers.go    requests, automatic client setup        *)
(*   cmd/mailctl/main.go           certbot, inventory, SNI map             *)
(*                                                                         *)
(* All are computed from the same few settings in places that do not know  *)
(* of each other; the certificates also depend on what earlier jobs left   *)
(* on disk.  A host is a label and a zone; no zone lies in another, names  *)
(* in the zone Local are of no use to anybody else.  Records whose name no *)
(* other record can have (SRV, DMARC, DKIM and the like) are left out, and *)
(* so are the other settings, the queue of the jobs and what a worker does *)
(* besides (module TlsJobs).                                               *)
(***************************************************************************)
EXTENDS Naturals, Sequences, SequencesExt

CONSTANTS
    Zones,        \* the domains of the server
    Outside,      \* a domain of somebody else
    Local,        \* the domain .local
    NoHost,       \* an empty host name
    CustomFile,   \* a certificate outside of certbot's directories
    Deployments,  \* the configurations the programs may be started with
    MailForms,    \* what the page of the mail server may be saved with
    TlsForms,     \* what the TLS page of a domain may be saved with
    JobForms,     \* the host names a certificate job may be asked for
    MaxPosts      \* bound: pages saved and certificate jobs asked for

Services == {"mail", "webmail", "madmin"}
AutomaticNames == {"autoconfig", "autodiscover"}
Hosts == (Services \cup AutomaticNames \cup {"", "mx"}) \X (Zones \cup {Outside, Local})
Families == {"A", "AAAA"}

MailForm == [mode : {"shared", "head-domain", "per-domain"}, host : Hosts \cup {NoHost},
             head : Zones \cup {NoHost}, addresses : SUBSET Families, sni : BOOLEAN]
TlsForm == [aliases : SUBSET {"webmail", "madmin"}, include : SUBSET Services,
            name : Hosts \cup {NoHost}, custom : {"none", "good", "bad"}]
TlsJob == [zone : Zones, type : {"issue", "check"}, given : BOOLEAN, hostnames : SUBSET Hosts,
           first : Hosts \cup {NoHost}, at : 0..MaxPosts,
           status : {"queued", "issued", "succeeded", "failed"}]

ASSUME HostNamesAssumptions ==
    /\ Zones \cap {Outside, Local} = {} /\ Outside # Local
    /\ NoHost \notin Hosts \cup Zones /\ CustomFile \notin Hosts \cup {NoHost}
    /\ Deployments \subseteq [mail : Hosts \cup {NoHost}, webmail : Hosts \cup {NoHost},
                              madmin : Hosts \cup {NoHost}, addresses : SUBSET Families]
    /\ MailForms \subseteq MailForm
    /\ TlsForms \subseteq TlsForm
    /\ JobForms \subseteq Seq(Hosts)
    /\ MaxPosts \in Nat

VARIABLES
    deployment,    \* what the programs were started with
    mailServer,    \* mail_server_settings
    outOfUse,      \* zones whose status is neither pending nor active
    tlsSettings,   \* zone -> domain_tls_settings
    certificates,  \* certbot's directories: name -> hosts in the certificate
    inventory,     \* zone -> certificates of tls_certificates, by path
    tlsJobs,       \* tls_certificate_jobs, oldest first
    latest,        \* history: the job that called certbot last, or 0
    saves          \* history: pages saved, the domains' own among them

hostNamesVars ==
    <<deployment, mailServer, outOfUse, tlsSettings, certificates, inventory, tlsJobs, latest,
      saves>>

-----------------------------------------------------------------------------
(***************************************************************************)
(* The mail host and the records of a domain.                              *)
(***************************************************************************)
Usable(h) == h # NoHost /\ h[2] # Local

EffectiveMailHost(h, otherwise) == IF Usable(h) THEN h ELSE otherwise

FirstGiven(h1, h2) == IF h1 # NoHost THEN h1 ELSE h2

\* An address that was not saved is the one of the configuration.
PublicAddresses == mailServer.addresses \cup deployment.addresses

\* With per-domain hosts there is none.
EffectiveHostname ==
    CASE mailServer.mode = "head-domain" /\ mailServer.head # NoHost ->
           <<"mail", mailServer.head>>
      [] mailServer.mode = "per-domain" -> NoHost
      [] OTHER -> EffectiveMailHost(FirstGiven(mailServer.host, deployment.mail),
                                    <<"mail", Local>>)

DNSSettings ==
    [mode |-> mailServer.mode, mail |-> EffectiveHostname, webmail |-> deployment.webmail,
     madmin |-> deployment.madmin, addresses |-> PublicAddresses]

MailHostForDomain(d, settings) ==
    IF settings.mode = "per-domain" THEN <<"mail", d>>
    ELSE EffectiveMailHost(settings.mail, <<"mail", d>>)

HostBelongsToDomain(h, d) == h[2] = d

RecordOf(type, h, target) == [type |-> type, host |-> h, target |-> target]

AddressRecords(h, settings) == {RecordOf(f, h, NoHost) : f \in settings.addresses}

WebServiceAlias(h, target, settings) ==
    IF ~Usable(target) THEN {}
    ELSE IF h = target THEN AddressRecords(h, settings)
    ELSE {RecordOf("CNAME", h, target)}

\* The records every domain has: where its mail goes, who may send for it,
\* where mail programs are set up.
CommonRecords(d, mailHost) ==
    {RecordOf("MX", <<"", d>>, mailHost), RecordOf("TXT", <<"", d>>, NoHost)}
    \cup {RecordOf("CNAME", <<l, d>>, mailHost) : l \in AutomaticNames}

\* Variant: only a host called mail is seen as the domain's own.
BuildDomainDNSOfMail(d, aliases, settings) ==
    LET mailHost == MailHostForDomain(d, settings)
        own == mailHost = <<"mail", d>>
    IN  (IF own THEN AddressRecords(mailHost, settings)
         ELSE {RecordOf("CNAME", <<"mail", d>>, mailHost)})
        \cup (UNION {WebServiceAlias(<<l, d>>, settings[l], settings) : l \in aliases})
        \cup CommonRecords(d, mailHost)

BuildDomainDNS(d, aliases, settings) ==
    LET mailHost == MailHostForDomain(d, settings)
    IN  (IF HostBelongsToDomain(mailHost, d) THEN AddressRecords(mailHost, settings)
         ELSE {RecordOf("CNAME", <<"mail", d>>, mailHost)})
        \cup (UNION {WebServiceAlias(<<l, d>>, settings[l], settings) : l \in aliases})
        \cup CommonRecords(d, mailHost)

GetDomainDNS(d) == BuildDomainDNS(d, tlsSettings[d].aliases, DNSSettings)

\* The hosts in the instructions for mail programs on the DNS page.
ClientSetup(d, mailHost) == {mailHost} \cup {<<l, d>> : l \in AutomaticNames}

\* The hosts in the answers of the automatic setup.
MailAutoconfig(d) == <<"mail", d>>
ServiceDiscovery(d) == <<"mail", d>>
OutlookAutodiscover(d) == <<"mail", d>>

-----------------------------------------------------------------------------
(***************************************************************************)
(* Certificates.                                                           *)
(***************************************************************************)
Where(admitted, h) == IF admitted THEN h ELSE NoHost

\* The first name in the list that is one of hosts.
FirstOf(names, hosts) ==
    LET present == {i \in DOMAIN names : names[i] \in hosts}
    IN  IF present = {} THEN NoHost ELSE names[Min(present)]

DesiredTLSHostnames(d) ==
    LET form == tlsSettings[d]
    IN  {<<s, d>> : s \in form.include \cap ({"mail"} \cup form.aliases)}

\* The order in which they are listed.
ServiceOrder(d) == << <<"mail", d>>, <<"webmail", d>>, <<"madmin", d>> >>

\* A list whose useless names are dropped.
Given(names) == [i \in DOMAIN names |-> Where(Usable(names[i]), names[i])]

\* As the TLS page looks for them.
CertificateCandidateNames(d, desired) ==
    LET Name(s) == Where(<<s, d>> \in desired, <<s, d>>)
    IN  Given(<< tlsSettings[d].name, Name("mail"), Name("webmail"), Name("madmin"),
                 <<"madmin", d>>, <<"webmail", d>>, <<"mail", d>> >>)

\* Variant: mailctl does not look at the switches of the DNS aliases.
TlsInventoryCandidateNamesAll(d) ==
    LET form == tlsSettings[d]
        Name(s) == Where(s \in form.include, <<s, d>>)
    IN  << form.name, Name("mail"), Name("webmail"), Name("madmin"),
           <<"madmin", d>>, <<"webmail", d>>, <<"mail", d>> >>

\* As mailctl looks for them; it does not drop names in Local.
TlsInventoryCandidateNames(d) ==
    LET form == tlsSettings[d]
        Name(s) == Where(s \in form.include /\ s \in {"mail"} \cup form.aliases, <<s, d>>)
    IN  << form.name, Name("mail"), Name("webmail"), Name("madmin"),
           <<"madmin", d>>, <<"webmail", d>>, <<"mail", d>> >>

\* A custom path is looked at once and nothing else is.
FirstCertificate(d, candidates) ==
    CASE tlsSettings[d].custom = "good" -> {CustomFile}
      [] tlsSettings[d].custom = "bad" -> {}
      [] tlsSettings[d].custom = "none" ->
           {FirstOf(candidates, DOMAIN certificates)} \ {NoHost}

DiscoverFilesystemCertificate(d, desired) ==
    FirstCertificate(d, CertificateCandidateNames(d, desired))

\* What the TLS page shows of a domain.
GetDomainTLS(d) == DiscoverFilesystemCertificate(d, DesiredTLSHostnames(d))

FindTLSInventoryCertificate(d) == FirstCertificate(d, TlsInventoryCandidateNames(d))

\* The certificates rendered into the mail servers' tables, by host: of domains
\* in use.  They do not look at use_for_mail_sni.
SNIHosts ==
    IF ~mailServer.sni THEN {}
    ELSE {h \in {<<"mail", d>> : d \in Zones \ outOfUse} :
             /\ ~(mailServer.mode = "shared" /\ h = EffectiveHostname)
             /\ h \in DOMAIN certificates}

-----------------------------------------------------------------------------
DefaultMailServerSettings ==
    [mode |-> "shared", host |-> NoHost, head |-> NoHost, addresses |-> {}, sni |-> FALSE]

DefaultDomainTLSSettings ==
    [aliases |-> {"webmail", "madmin"}, include |-> Services, name |-> NoHost, custom |-> "none"]

HostNamesInit ==
    /\ deployment \in Deployments
    /\ mailServer = DefaultMailServerSettings
    /\ outOfUse = {}
    /\ tlsSettings = [d \in Zones |-> DefaultDomainTLSSettings]
    /\ certificates = << >>
    /\ inventory = [d \in Zones |-> {}]
    /\ tlsJobs = << >>
    /\ latest = 0
    /\ saves = 0

\* updateMailServerSettings.
SaveMailServer(form) ==
    /\ saves + Len(tlsJobs) < MaxPosts
    /\ mailServer' = [form EXCEPT !.host =
                        IF form.mode = "shared" /\ form.host = NoHost
                        THEN EffectiveMailHost(deployment.mail, <<"mail", Local>>) ELSE @]
    /\ saves' = saves + 1
    /\ UNCHANGED <<deployment, outOfUse, tlsSettings, certificates, inventory, tlsJobs, latest>>

UpsertDomainTLSSettings(d, form) == tlsSettings' = [tlsSettings EXCEPT ![d] = form]

UpdateDomainTLSSettings(d, form) ==
    /\ saves + Len(tlsJobs) < MaxPosts
    /\ UpsertDomainTLSSettings(d, form)
    /\ saves' = saves + 1
    /\ UNCHANGED <<deployment, mailServer, outOfUse, certificates, inventory, tlsJobs, latest>>

\* UpdateDomain and DeleteDomain, of the status: the settings of the domain stay,
\* and so do its jobs.
ChangeStatus(d) ==
    /\ saves + Len(tlsJobs) < MaxPosts
    /\ outOfUse' = IF d \in outOfUse THEN outOfUse \ {d} ELSE outOfUse \cup {d}
    /\ saves' = saves + 1
    /\ UNCHANGED <<deployment, mailServer, tlsSettings, certificates, inventory, tlsJobs, latest>>

\* What is asked for, or else what the settings of this moment want.  Of the
\* list it is told apart which name is the first.
InsertTLSCertificateJob(d, type, list) ==
    LET given == ToSet(list) \ {NoHost}
        names == IF given = {} THEN DesiredTLSHostnames(d) ELSE given
    IN  tlsJobs' = Append(tlsJobs,
          [zone |-> d, type |-> type, given |-> given # {}, hostnames |-> names,
           first |-> FirstOf(IF given = {} THEN ServiceOrder(d) ELSE list, names),
           at |-> saves, status |-> "queued"])

CreateTLSCertificateJob(d, type, hostnames) ==
    /\ saves + Len(tlsJobs) < MaxPosts
    /\ InsertTLSCertificateJob(d, type, Given(hostnames))
    /\ UNCHANGED <<deployment, mailServer, outOfUse, tlsSettings, certificates, inventory, latest, saves>>

Becomes(i, status) == tlsJobs' = [tlsJobs EXCEPT ![i].status = status]

\* runCertbotForTLSJob: the certificate is called after the first name.  Jobs
\* are claimed in order, but several workers may be at work, so that certbot
\* ends in any order.
RunCertbot(i) ==
    LET job == tlsJobs[i]
    IN  /\ job.status = "queued" /\ job.type = "issue" /\ job.hostnames # {}
        /\ certificates' = [h \in DOMAIN certificates \cup {job.first} |->
                               IF h = job.first THEN job.hostnames ELSE certificates[h]]
        /\ Becomes(i, "issued")
        /\ latest' = i
        /\ UNCHANGED <<deployment, mailServer, outOfUse, tlsSettings, inventory, saves>>

\* No names, or certbot fails.
JobFails(i) ==
    /\ tlsJobs[i].status = "queued"
    /\ tlsJobs[i].type = "issue" \/ tlsJobs[i].hostnames = {}
    /\ Becomes(i, "failed")
    /\ UNCHANGED <<deployment, mailServer, outOfUse, tlsSettings, certificates, inventory, latest, saves>>

\* syncTLSInventory passes over domains out of use.
SyncInventory ==
    inventory' = [d \in Zones |-> inventory[d] \cup
                    IF d \in outOfUse THEN {} ELSE FindTLSInventoryCertificate(d)]

\* The rest of processTLSJob.
JobSucceeds(i) ==
    /\ \/ tlsJobs[i].status = "issued"
       \/ tlsJobs[i].status = "queued" /\ tlsJobs[i].type = "check" /\ tlsJobs[i].hostnames # {}
    /\ SyncInventory
    /\ Becomes(i, "succeeded")
    /\ UNCHANGED <<deployment, mailServer, outOfUse, tlsSettings, certificates, latest, saves>>

\* mailctl sync-tls-inventory.
RunSyncTLSInventory ==
    /\ SyncInventory
    /\ UNCHANGED <<deployment, mailServer, outOfUse, tlsSettings, certificates, tlsJobs, latest, saves>>

HostNamesNext ==
    \/ \E form \in MailForms : SaveMailServer(form)
    \/ \E d \in Zones, form \in TlsForms : UpdateDomainTLSSettings(d, form)
    \/ \E d \in Zones : ChangeStatus(d)
    \/ \E d \in Zones, type \in {"issue", "check"}, names \in JobForms :
           CreateTLSCertificateJob(d, type, names)
    \/ \E i \in DOMAIN tlsJobs : RunCertbot(i) \/ JobFails(i) \/ JobSucceeds(i)
    \/ RunSyncTLSInventory

HostNamesSpec == HostNamesInit /\ [][HostNamesNext]_hostNamesVars

-----------------------------------------------------------------------------
\* Every variable holds what its table, file or configuration can hold.
HostNamesTypeOK ==
    /\ deployment \in Deployments
    /\ mailServer \in MailForm /\ outOfUse \subseteq Zones
    /\ tlsSettings \in [Zones -> TlsForm]
    /\ DOMAIN certificates \subseteq Hosts
    /\ \A h \in DOMAIN certificates : certificates[h] \subseteq Hosts
    /\ inventory \in [Zones -> SUBSET (Hosts \cup {CustomFile})]
    /\ tlsJobs \in Seq(TlsJob) /\ latest \in 0..Len(tlsJobs)
    /\ saves \in Nat /\ saves + Len(tlsJobs) <= MaxPosts

\* Two records that a zone can hold beside each other.
FitTogether(r1, r2) == r1.host = r2.host => "CNAME" \notin {r1.type, r2.type} /\ r1.type # r2.type

\* Given the records of each zone: a name of somebody else or one with an
\* address; and such a name or an alias of one.
Found(h, dns) == h[2] \notin Zones \/ \E r \in dns[h[2]] : r.host = h /\ r.type \in Families
Resolves(h, dns) == Found(h, dns) \/ \E r \in dns[h[2]] :
                        r.host = h /\ r.type = "CNAME" /\ Found(r.target, dns)

\* The records wanted for a domain can stand in its zone together, its mail
\* goes to a name with an address, and every name that mail programs are given
\* resolves, however the mail server and the aliases are set.  Not so when
\* the mail host is called like an alias, when no address is configured, and,
\* for the automatic setup, when the mail host lies in the domain itself under
\* another name than mail.
NamesResolve ==
    LET settings == DNSSettings
        dns == [d \in Zones |-> GetDomainDNS(d)]
    IN  \A d \in Zones :
            LET mailHost == MailHostForDomain(d, settings)
            IN  mailHost[1] \notin AutomaticNames \cup {"webmail", "madmin"} =>
                  /\ \A r \in dns[d] : r.type = "CNAME" => r.target # r.host
                  /\ \A r1, r2 \in dns[d] : r1 # r2 => FitTogether(r1, r2)
                  /\ settings.addresses # {} =>
                       /\ Found(mailHost, dns)
                       /\ \A h \in ClientSetup(d, mailHost) : Resolves(h, dns)
                       /\ ~(mailHost[2] = d /\ mailHost[1] # "mail") =>
                            \A h \in {MailAutoconfig(d), ServiceDiscovery(d),
                                      OutlookAutodiscover(d)} : Resolves(h, dns)

\* The page and mailctl find the same certificate of a domain.  And a job that
\* left the choice of names to the settings, and was followed by no change of
\* them or of a domain's status and by no other call of certbot, gives the domain
\* what it asked for: the inventory has the certificate the page shows, it is for
\* all names wanted, and for the mail host it is in the tables of the mail servers
\* or is the main host's.  Not so if the domain is not in use: its job succeeds all
\* the same.
CertificatesFit ==
    /\ \A d \in Zones : GetDomainTLS(d) = FindTLSInventoryCertificate(d)
    /\ latest # 0 =>
         LET job == tlsJobs[latest]
             d == job.zone
             form == tlsSettings[d]
         IN  job.status = "succeeded" /\ ~job.given /\ job.at = saves
               /\ form.name = NoHost /\ form.custom = "none" /\ d \notin outOfUse
             => /\ \E h \in GetDomainTLS(d) :
                      h \in inventory[d] /\ DesiredTLSHostnames(d) \subseteq certificates[h]
                /\ "mail" \in form.include /\ mailServer.sni =>
                      <<"mail", d>> \in SNIHosts \cup {EffectiveHostname}
=============================================================================
