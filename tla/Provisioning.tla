---------------------------- MODULE Provisioning -----------------------------
(***************************************************************************)
(* Provisioning the DNS records of a domain at Cloudflare: the zone is     *)
(* listed, compared with the wanted records, and changed one call at a     *)
(* time.  What is replaced is kept in a row of dns_provision_backups.      *)
(*                                                                         *)
(*   internal/admin/sql_store.go   the plan, the apply, the client         *)
(*   internal/admin/handlers.go    the requests                            *)
(*                                                                         *)
(* The zone is shared with everyone who has access to it.  The calls of    *)
(* two requests interleave, a call may fail before or after it took        *)
(* effect, and the backup is written when all calls have succeeded.        *)
(***************************************************************************)
EXTENDS Naturals, Sequences, FiniteSets

CONSTANTS
    Appliers,     \* concurrent requests
    Wanted,       \* the records of buildDomainDNS, in order
    Foreign,      \* records that others may have put into the zone
    MaxZone,      \* bound: records in the zone
    MaxApplies,   \* bound: requests
    MaxForeign    \* bound: changes by others

\* A record is named; its kind is its type, or "SPF" for the TXT record of
\* that policy; its value stands for content, priority and proxying.
TypeOf(kind) == IF kind = "SPF" THEN "TXT" ELSE kind

\* May a and b be in one zone?  No record stands beside a CNAME of its name,
\* and none is there twice.
Compatible(a, b) == \/ a.name # b.name
                    \/ a # b /\ "CNAME" \notin {a.kind, b.kind}

AllRecords == {Wanted[i] : i \in DOMAIN Wanted} \cup Foreign

ASSUME ProvisioningAssumptions ==
    /\ Wanted \in Seq(AllRecords)
    /\ \A i, j \in DOMAIN Wanted :
         i # j => /\ Compatible(Wanted[i], Wanted[j])
                  /\ <<Wanted[i].name, TypeOf(Wanted[i].kind)>> #
                       <<Wanted[j].name, TypeOf(Wanted[j].kind)>>
    /\ {MaxZone, MaxApplies, MaxForeign} \subseteq Nat

VARIABLES
    zone,         \* the records at Cloudflare, each with its id
    created,      \* the largest id given so far
    cloudflare,   \* the domain's configuration: token, status
    apply,        \* request -> its progress
    applies,      \* requests so far
    foreign       \* changes by others so far

provisioningVars == <<zone, created, cloudflare, apply, applies, foreign>>

Entry == [id : Nat, record : AllRecords]
Call == [call : {"create", "update", "delete"}, for : Nat, id : Nat, record : AllRecords]
Apply == [pc : {"idle", "calls", "applied", "failed"}, replace : BOOLEAN,
          listed : SUBSET Entry, calls : SUBSET Call, backup : SUBSET AllRecords,
          removed : SUBSET AllRecords, disturbed : BOOLEAN]
CloudflareConfig == [token : BOOLEAN, status : {"none", "configured", "checked", "error"}]

\* removed and disturbed are history: what the request took out of the zone,
\* and whether somebody else changed the zone after it was listed.
NoApply == [pc |-> "idle", replace |-> FALSE, listed |-> {}, calls |-> {}, backup |-> {},
            removed |-> {}, disturbed |-> FALSE]

RecordsOf(z) == {e.record : e \in z}
Ids(z) == {e.id : e \in z}
Others(id, z) == {e \in z : e.id # id}
Fits(record, z) == \A e \in z : Compatible(record, e.record)

-----------------------------------------------------------------------------
(* The plan.                                                               *)

StandsInTheWay(want, record) ==
    /\ record.name = want.name
    /\ \/ "CNAME" \in {want.kind, record.kind}
       \/ /\ TypeOf(record.kind) = TypeOf(want.kind)
          /\ want.kind = "SPF" => record.kind = "SPF"

RelevantExisting(want, listed) == {e \in listed : StandsInTheWay(want, e.record)}

InPlace(want, touch) == \E e \in touch : touch = {e} /\ e.record = want

ActionFor(want, listed) ==
    LET touch == RelevantExisting(want, listed)
    IN  CASE touch = {} -> "create"
          [] InPlace(want, touch) -> "ok"
          [] OTHER -> "conflict"

PlanIs(listed, actions) == \A i \in DOMAIN Wanted : ActionFor(Wanted[i], listed) \in actions

\* Calls are made for the wanted records one after the other.
Create(i, want) == [call |-> "create", for |-> i, id |-> 0, record |-> want]
Update(i, e, want) == [call |-> "update", for |-> i, id |-> e.id, record |-> want]
Delete(i, e) == [call |-> "delete", for |-> i, id |-> e.id, record |-> e.record]

\* The first record in the way, in whatever order they are listed, if it has
\* the type of the wanted one.
Overwritten(want, touch) ==
    LET first == CHOOSE e \in touch : TRUE
    IN  IF TypeOf(first.record.kind) = TypeOf(want.kind) THEN {first} ELSE {}

\* The records that have to go for the i-th wanted one.
Superfluous(i, listed) ==
    LET touch == RelevantExisting(Wanted[i], listed)
    IN  IF ActionFor(Wanted[i], listed) = "conflict"
        THEN touch \ Overwritten(Wanted[i], touch) ELSE {}

\* Variant: the further records of the name stay.
ReplaceFirst(i, listed) ==
    LET want == Wanted[i]
        kept == Overwritten(want, RelevantExisting(want, listed))
    IN  IF kept # {} THEN {Update(i, e, want) : e \in kept}
        ELSE {Create(i, want)} \cup {Delete(i, e) : e \in Superfluous(i, listed)}

\* The calls that replace what stands in the way: the first record of the
\* type is overwritten, the others are deleted, once each.
Replace(i, listed) ==
    LET want == Wanted[i]
        kept == Overwritten(want, RelevantExisting(want, listed))
        left == {e \in Superfluous(i, listed) :
                   \A j \in DOMAIN Wanted : j < i => e \notin Superfluous(j, listed)}
    IN  {Update(i, e, want) : e \in kept} \cup {Delete(i, e) : e \in left}
        \cup (IF kept = {} THEN {Create(i, want)} ELSE {})

CallsFor(i, listed) ==
    CASE ActionFor(Wanted[i], listed) = "create" -> {Create(i, Wanted[i])}
      [] ActionFor(Wanted[i], listed) = "ok" -> {}
      [] ActionFor(Wanted[i], listed) = "conflict" -> Replace(i, listed)

PlannedCalls(listed) == UNION {CallsFor(i, listed) : i \in DOMAIN Wanted}

\* Is c made before d?
Precedes(c, d) ==
    \/ c.for < d.for
    \/ c.for = d.for /\ <<c.call, d.call>> \in {<<"update", "delete">>, <<"delete", "create">>}

\* What the row of dns_provision_backups will hold.
BackupRecords(listed) ==
    UNION {RecordsOf(RelevantExisting(Wanted[i], listed)) :
             i \in {j \in DOMAIN Wanted : ActionFor(Wanted[j], listed) = "conflict"}}

-----------------------------------------------------------------------------
(* The requests.                                                           *)

MarkCloudflareChecked(status) == cloudflare' = [cloudflare EXCEPT !.status = status]

\* The page is saved: without a token the stored one stays.
SaveConfig(token) ==
    IF token \/ cloudflare.token THEN [token |-> TRUE, status |-> "configured"] ELSE cloudflare

SaveCloudflareConfig ==
    /\ applies < MaxApplies
    /\ applies' = applies + 1
    /\ \E token \in BOOLEAN : cloudflare' = SaveConfig(token)
    /\ UNCHANGED <<zone, created, apply, foreign>>

\* The zone cannot be found or listed.
PlanFails ==
    /\ cloudflare.token
    /\ applies < MaxApplies
    /\ applies' = applies + 1
    /\ MarkCloudflareChecked("error")
    /\ UNCHANGED <<zone, created, apply, foreign>>

\* A plan that is only shown, or that an apply refuses because of conflicts.
CheckCloudflareDNS ==
    /\ cloudflare.token
    /\ applies < MaxApplies
    /\ applies' = applies + 1
    /\ MarkCloudflareChecked("checked")
    /\ UNCHANGED <<zone, created, apply, foreign>>

ApplyCloudflareDNS(w, replace) ==
    /\ cloudflare.token
    /\ apply[w].pc = "idle"
    /\ applies < MaxApplies
    /\ applies' = applies + 1
    /\ MarkCloudflareChecked("checked")
    /\ replace \/ PlanIs(zone, {"ok", "create"})
    /\ apply' = [apply EXCEPT ![w] = [NoApply EXCEPT !.pc = "calls", !.replace = replace,
                                                     !.listed = zone,
                                                     !.calls = PlannedCalls(zone)]]
    /\ UNCHANGED <<zone, created, foreign>>

\* What a call does to the zone; a call that Cloudflare refuses does nothing.
CallFits(c, z) ==
    CASE c.call = "create" -> Cardinality(z) < MaxZone /\ Fits(c.record, z)
      [] c.call = "update" -> c.id \in Ids(z) /\ Fits(c.record, Others(c.id, z))
      [] c.call = "delete" -> c.id \in Ids(z)

AfterCall(c, z) ==
    CASE c.call = "create" -> z \cup {[id |-> created + 1, record |-> c.record]}
      [] c.call = "update" -> Others(c.id, z) \cup {[id |-> c.id, record |-> c.record]}
      [] c.call = "delete" -> Others(c.id, z)

ChangeZone(c) ==
    /\ CallFits(c, zone)
    /\ zone' = AfterCall(c, zone)
    /\ created' = IF c.call = "create" THEN created + 1 ELSE created

\* The other requests have listed a zone that is no longer so.
DisturbApplies(others, changed) ==
    [w \in Appliers |-> IF w \in others
                        THEN [changed[w] EXCEPT !.disturbed = TRUE] ELSE changed[w]]

NextCall(w, c) ==
    /\ apply[w].pc = "calls" /\ c \in apply[w].calls
    /\ \A d \in apply[w].calls : ~Precedes(d, c)

Called(w, c, next) ==
    /\ ChangeZone(c)
    /\ apply' = DisturbApplies(Appliers \ {w},
         [apply EXCEPT ![w] = [next EXCEPT !.removed = @ \cup
                                 (RecordsOf(zone) \ RecordsOf(AfterCall(c, zone)))]])

CallSucceeds(w) ==
    /\ \E c \in apply[w].calls :
         NextCall(w, c) /\ Called(w, c, [apply[w] EXCEPT !.calls = @ \ {c}])
    /\ UNCHANGED <<cloudflare, applies, foreign>>

\* The call failed, or its answer was lost.  A failed update leaves the
\* status of the configuration as it was.
CallFails(w) ==
    /\ \E c \in apply[w].calls :
         /\ NextCall(w, c)
         /\ \/ UNCHANGED <<zone, created>> /\ apply' = [apply EXCEPT ![w].pc = "failed"]
            \/ Called(w, c, [apply[w] EXCEPT !.pc = "failed"])
         /\ IF c.call = "update" THEN cloudflare' = cloudflare ELSE MarkCloudflareChecked("error")
    /\ UNCHANGED <<applies, foreign>>

\* All calls have succeeded: the backup row is inserted, or that fails.
RecordBackup(w) ==
    /\ apply[w].pc = "calls" /\ apply[w].calls = {}
    /\ \/ /\ apply' = [apply EXCEPT ![w].pc = "applied",
                                    ![w].backup = BackupRecords(apply[w].listed)]
          /\ MarkCloudflareChecked("checked")
       \/ /\ apply' = [apply EXCEPT ![w].pc = "failed"]
          /\ cloudflare' = cloudflare
    /\ UNCHANGED <<zone, created, applies, foreign>>

Answer(w) ==
    /\ apply[w].pc \in {"applied", "failed"}
    /\ apply' = [apply EXCEPT ![w] = NoApply]
    /\ UNCHANGED <<zone, created, cloudflare, applies, foreign>>

\* Someone else changes the zone.
OthersChangeZone ==
    /\ foreign < MaxForeign
    /\ foreign' = foreign + 1
    /\ \E c \in {Create(0, r) : r \in Foreign} \cup {Delete(0, e) : e \in zone} : ChangeZone(c)
    /\ apply' = DisturbApplies(Appliers, apply)
    /\ UNCHANGED <<cloudflare, applies>>

-----------------------------------------------------------------------------

ProvisioningInit ==
    /\ \E n \in 0..MaxZone :
         /\ n < MaxZone
         /\ \E z \in [1..n -> Foreign] :
              /\ \A i, j \in 1..n : i # j => Compatible(z[i], z[j])
              /\ zone = {[id |-> i, record |-> z[i]] : i \in 1..n}
    /\ created = MaxZone
    /\ cloudflare = [token |-> FALSE, status |-> "none"]
    /\ apply = [w \in Appliers |-> NoApply]
    /\ applies = 0
    /\ foreign = 0

ProvisioningNext ==
    \/ SaveCloudflareConfig
    \/ PlanFails
    \/ CheckCloudflareDNS
    \/ \E w \in Appliers : \/ \E replace \in BOOLEAN : ApplyCloudflareDNS(w, replace)
                           \/ CallSucceeds(w) \/ CallFails(w)
                           \/ RecordBackup(w) \/ Answer(w)
    \/ OthersChangeZone

ProvisioningSpec == ProvisioningInit /\ [][ProvisioningNext]_provisioningVars

-----------------------------------------------------------------------------
\* The zone is one that Cloudflare would hold, with ids of its own.
ProvisioningTypeOK ==
    /\ IsFiniteSet(zone) /\ Cardinality(zone) <= MaxZone
    /\ zone \subseteq Entry /\ created \in Nat /\ \A id \in Ids(zone) : id <= created
    /\ \A e, f \in zone : e # f => e.id # f.id /\ Compatible(e.record, f.record)
    /\ cloudflare \in CloudflareConfig
    /\ apply \in [Appliers -> Apply]
    /\ applies \in 0..MaxApplies /\ foreign \in 0..MaxForeign

\* What an apply answers is so.  If nobody else changed the zone since it was
\* listed, an apply that succeeded leaves a zone whose plan is "ok" and its
\* backup holds every record that it has removed or overwritten; an apply
\* that was not told to replace removes none, whoever interferes.
AppliedAsAnswered ==
    \A w \in Appliers :
      /\ apply[w].pc = "applied" /\ ~apply[w].disturbed =>
           PlanIs(zone, {"ok"}) /\ apply[w].removed \subseteq apply[w].backup
      /\ ~apply[w].replace => apply[w].removed = {}

=============================================================================
