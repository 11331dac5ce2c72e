------------------------------ MODULE MCEstate ------------------------------
(***************************************************************************)
(* An instance of Estate for TLC: every part whose state space is small,   *)
(* each run by itself.                                                     *)
(***************************************************************************)
EXTENDS Estate, TLC

CONSTANTS
    m1, r1, r2,
    north, south, post, ann,
    ours, theirs, host, alias, a1, a2,
    rspamd, nginx, unit, worker,
    users, sieve, setup, admin,
    timer, operator1,
    mail, conf, pem,
    card1, card2, uid1, uid2, web1, hello, bye,
    f1, fine, refused, box1, box2, s1, s2,
    phone, laptop, oldWord, newWord, spare,
    home, guest

\* One sent message, moved by two requests and renamed by a mail client.
Moves ==
    LET ids == {<<[base |-> m, flags |-> "none"]>> : m \in Messages}
    IN  {[op |-> "move", folder |-> folder, ids |-> i] : folder \in {"inbox", "sent", "trash"}, i \in ids}

OneSystemMailbox == <<post>>

\* A name with two addresses and an SPF record, and an alias; others put
\* records of the same types, of excluded types and unrelated ones there.
DnsRecord(n, k, v) == [name |-> n, kind |-> k, value |-> v]
MailRecords == << DnsRecord(host, "A", ours), DnsRecord(host, "AAAA", ours),
                  DnsRecord(host, "SPF", ours), DnsRecord(alias, "CNAME", ours) >>
OtherRecords == { DnsRecord(host, "A", theirs), DnsRecord(host, "A", ours),
                  DnsRecord(host, "CNAME", theirs), DnsRecord(host, "SPF", theirs),
                  DnsRecord(host, "TXT", theirs), DnsRecord(alias, "A", theirs) }

RenderedFiles == <<rspamd>>
NginxFiles == <<nginx>>

\* A table that is created and altered; a second release inserts a script
\* between two of the first.
On(table, kind) == [table |-> table, kind |-> kind]
ThreeScripts == << << On(users, "create"), On(users, "alter") >>,
                   << On(sieve, "ensure"), On(users, "change") >>,
                   << On(sieve, "alter") >> >>
TwoReleases == << {1, 3}, {1, 2, 3} >>

\* January to April: the end of a month, a short one, and a later end.
FourMonths == <<0, 31, 59, 90>>

RestoredSources == <<mail, conf, pem>>

UidOfCard == card1 :> uid1 @@ card2 :> uid2

\* A server in one of its domains, one that is not finished, and one whose mail
\* host is called like an alias, of which NamesResolve says nothing.
Started(mailName, webName, adminName, families) ==
    [mail |-> mailName, webmail |-> webName, madmin |-> adminName, addresses |-> families]
ThreeDeployments ==
    { Started(<<"mail", home>>, <<"webmail", home>>, <<"mx", Outside>>, {"A", "AAAA"}),
      Started(<<"mail", Local>>, <<"mx", Outside>>, NoHost, {}),
      Started(<<"webmail", Outside>>, NoHost, NoHost, {}) }

\* Hosts in a domain under several names, and outside.
Served(mode, name, head, families) ==
    [mode |-> mode, host |-> name, head |-> head, addresses |-> families, sni |-> TRUE]
SavedServers ==
    { Served("shared", NoHost, NoHost, {}), Served("shared", <<"mx", home>>, NoHost, {"A"}),
      Served("shared", <<"", home>>, NoHost, {"AAAA"}),
      Served("shared", <<"mail", Outside>>, NoHost, {}),
      Served("head-domain", NoHost, home, {"A"}),
      Served("per-domain", <<"mx", home>>, home, {"A"}) }

\* Switches off, names outside the settings, files of the administrator.
Secured(switches, included, name, file) ==
    [aliases |-> switches, include |-> included, name |-> name, custom |-> file]
SavedTls ==
    { Secured({"webmail"}, Services, NoHost, "none"),
      Secured({"madmin"}, {"webmail", "madmin"}, NoHost, "none"),
      Secured({}, {"webmail"}, NoHost, "good"),
      Secured({"webmail", "madmin"}, Services, NoHost, "bad"),
      Secured({"webmail", "madmin"}, Services, <<"webmail", home>>, "none") }

\* Names left to the settings, and names of two domains.
AskedNames == { << >>, << <<"webmail", home>>, <<"mail", guest>> >> }

\* One initial state of every part that the behaviour is not about; a server
\* that was started under its own names is for the part that is about names.
MCEstateInit ==
    /\ EstateInit
    /\ domainRows[1].name = north
    /\ part # "dns" => zone = {}
    /\ account.password = oldWord
    /\ part # "view" => openFolder = "inbox"
    /\ part = "names" <=> deployment.mail[1] = "mail"

MCEstateSpec == MCEstateInit /\ [][EstateNext]_EstateVars

=============================================================================
