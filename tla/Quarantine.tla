----------------------------- MODULE Quarantine -----------------------------
(***************************************************************************)
(* The quarantine pipeline: a message held by the mail policy is written   *)
(* to a file store and recorded as a row of quarantine_events; an          *)
(* administrator (or mailctl release-quarantine) later releases it to its  *)
(* recipient or deletes it.                                                *)
(*                                                                         *)
(*   internal/quarantine/store.go     the file store                       *)
(*   internal/admin/sql_store.go      StoreQuarantineMessage,              *)
(*                                    ResolveQuarantineEvent               *)
(*                                                                         *)
(* The row lives in the database and the message in the file system, and   *)
(* no transaction spans the two.  Every step that touches one of them is   *)
(* an action of its own; any two handlers interleave between such steps,   *)
(* and each can fail, be cancelled or die there.                           *)
(***************************************************************************)
EXTENDS Naturals, Sequences

CONSTANTS
    Events,       \* identifiers of quarantine events
    Resolvers,    \* concurrent resolutions: admin requests, mailctl runs
    MessageIDOf,  \* event -> sanitised Message-ID (safeName), or NoID
    TenantOf,     \* event -> tenant of the recipient's domain
    RecipientOf,  \* event -> recipient mailbox
    NoID,         \* the message has no usable Message-ID
    Absent,       \* no file at a storage path
    Direct,       \* worker -> whether its process releases into the Maildir
                  \* itself; otherwise over local SMTP
    MaxAttempts   \* bound: resolutions started in one behaviour

ASSUME ConstantAssumptions ==
    /\ Absent \notin Events
    /\ Direct \in [Resolvers -> BOOLEAN]
    /\ MaxAttempts \in Nat

VARIABLES
    row,       \* committed quarantine_events.status, "none" before INSERT
    stored,    \* storage path -> event whose message the file holds
    inbox,     \* name in a recipient's new/ -> event released under it
    handed,    \* event -> messages handed to its recipient, in order
    audit,     \* event -> committed quarantine.<status> audit entries
    announced, \* events whose quarantine.created audit entry was written
    store,     \* event -> progress of the run that stores its message
    req,       \* worker -> the resolution it is executing
    attempts   \* resolutions started so far

quarantineVars == <<row, stored, inbox, handed, audit, announced, store, req, attempts>>

Outcomes == {"released", "deleted"}

\* Where StoreMessage puts the file.  Two messages of one tenant with the
\* same sanitised Message-ID, stored on the same day, share one path.
PathOf(e) == IF MessageIDOf[e] = NoID THEN <<e>>
             ELSE <<TenantOf[e], MessageIDOf[e]>>

Paths == {PathOf(e) : e \in Events}

\* The name Release gives the file in the recipient's new/ directory.  It is
\* random, hence never taken, for a message without a Message-ID.
Named(e) == MessageIDOf[e] # NoID
Slot(e) == <<RecipientOf[e], MessageIDOf[e]>>
Slots == {Slot(e) : e \in Events}

Idle == [pc |-> "idle", event |-> Absent, want |-> "none", source |-> Absent]

\* Transactions past the UPDATE hold the row's exclusive lock.
LockStates == {"updated", "filed", "audited"}
HoldsRow(w, e) == /\ req[w].pc \in LockStates
                  /\ req[w].event = e

-----------------------------------------------------------------------------

QuarantineInit == /\ row = [e \in Events |-> "none"]
                  /\ stored = [p \in Paths |-> Absent]
                  /\ inbox = [s \in Slots |-> Absent]
                  /\ handed = [e \in Events |-> << >>]
                  /\ audit = [e \in Events |-> << >>]
                  /\ announced = {}
                  /\ store = [e \in Events |-> "idle"]
                  /\ req = [w \in Resolvers |-> Idle]
                  /\ attempts = 0

-----------------------------------------------------------------------------
(* mailctl quarantine-message: StoreQuarantineMessage for event e.         *)

\* The message is written to a temporary file and renamed over its path.
StoreFile(e) ==
    /\ store[e] = "idle"
    /\ stored' = [stored EXCEPT ![PathOf(e)] = e]
    /\ store' = [store EXCEPT ![e] = "renamed"]
    /\ UNCHANGED <<row, inbox, handed, audit, announced, req, attempts>>

InsertRow(e) ==
    /\ store[e] = "renamed"
    /\ row' = [row EXCEPT ![e] = "held"]
    /\ store' = [store EXCEPT ![e] = "inserted"]
    /\ UNCHANGED <<stored, inbox, handed, audit, announced, req, attempts>>

\* The INSERT fails: the file is removed again, whoever's message it holds.
InsertRowFails(e) ==
    /\ store[e] = "renamed"
    /\ stored' = [stored EXCEPT ![PathOf(e)] = Absent]
    /\ store' = [store EXCEPT ![e] = "failed"]
    /\ UNCHANGED <<row, inbox, handed, audit, announced, req, attempts>>

\* The quarantine.created entry is not in a transaction with the row.
AnnounceRow(e) ==
    /\ store[e] = "inserted"
    /\ announced' = announced \cup {e}
    /\ store' = [store EXCEPT ![e] = "done"]
    /\ UNCHANGED <<row, stored, inbox, handed, audit, req, attempts>>

\* An error before the rename (unknown domain, bad recipient, disk full),
\* the process dying, or the audit INSERT failing: nothing is undone.
StoreStops(e) ==
    /\ store[e] \in {"idle", "renamed", "inserted"}
    /\ store' = [store EXCEPT ![e] = "failed"]
    /\ UNCHANGED <<row, stored, inbox, handed, audit, announced, req, attempts>>

-----------------------------------------------------------------------------
(* ResolveQuarantineEvent executed by worker w.                            *)

\* BEGIN and the plain SELECT, which takes no lock.  A row that is not held
\* is refused here and the request changes nothing.
Begin(w, e, outcome) ==
    /\ req[w].pc = "idle"
    /\ attempts < MaxAttempts
    /\ row[e] = "held"
    /\ req' = [req EXCEPT ![w] = [pc |-> "read", event |-> e,
                                 want |-> outcome, source |-> Absent]]
    /\ attempts' = attempts + 1
    /\ UNCHANGED <<row, stored, inbox, handed, audit, announced, store>>

Reach(w, label) == req' = [req EXCEPT ![w].pc = label]
Return(w) == req' = [req EXCEPT ![w] = Idle]

\* Variant: the missing file goes unnoticed.
OpenSourceUnchecked(w) ==
    LET e == req[w].event IN
    /\ req[w].pc = "read" /\ req[w].want = "released"
    /\ req' = [req EXCEPT ![w] = [pc |-> "opened", event |-> e,
                                 want |-> "released",
                                 source |-> stored[PathOf(e)]]]
    /\ UNCHANGED <<row, stored, inbox, handed, audit, announced, store,
                   attempts>>

\* FileStore.Release: the stored file is read, or opened, first; a missing
\* one is an error.  What happens to the path afterwards does not change what
\* this release hands over.
OpenSource(w) ==
    LET e == req[w].event IN
    /\ req[w].pc = "read" /\ req[w].want = "released"
    /\ stored[PathOf(e)] # Absent
    /\ req' = [req EXCEPT ![w] = [pc |-> "opened", event |-> e,
                                 want |-> "released",
                                 source |-> stored[PathOf(e)]]]
    /\ UNCHANGED <<row, stored, inbox, handed, audit, announced, store,
                   attempts>>

Hand(w) == handed' = [handed EXCEPT ![req[w].event] = Append(@, req[w].source)]

\* Variant: an SMTP error is ignored.
SendSMTPUnchecked(w) ==
    /\ ~Direct[w]
    /\ req[w].pc = "opened"
    /\ Hand(w) \/ UNCHANGED handed
    /\ Reach(w, "delivered")
    /\ UNCHANGED <<row, stored, inbox, audit, announced, store, attempts>>

\* Over SMTP: the local server has accepted the DATA.  When its answer to
\* QUIT is lost, Release returns an error although the message is on its way.
SendSMTP(w) ==
    /\ ~Direct[w]
    /\ req[w].pc = "opened"
    /\ Hand(w)
    /\ Reach(w, "delivered") \/ Return(w)
    /\ UNCHANGED <<row, stored, inbox, audit, announced, store, attempts>>

\* Variant: the target is opened without O_EXCL.
CreateTargetShared(w) ==
    LET e == req[w].event IN
    /\ Direct[w]
    /\ req[w].pc = "opened"
    /\ inbox' = IF Named(e) THEN [inbox EXCEPT ![Slot(e)] = e] ELSE inbox
    /\ Reach(w, "copying")
    /\ UNCHANGED <<row, stored, handed, audit, announced, store, attempts>>

\* Into the Maildir: O_CREATE|O_EXCL in new/, refused when the name is taken.
CreateTarget(w) ==
    LET e == req[w].event IN
    /\ Direct[w]
    /\ req[w].pc = "opened"
    /\ Named(e) => inbox[Slot(e)] = Absent
    /\ inbox' = IF Named(e) THEN [inbox EXCEPT ![Slot(e)] = e] ELSE inbox
    /\ Reach(w, "copying")
    /\ UNCHANGED <<row, stored, handed, audit, announced, store, attempts>>

\* A missing file and a taken name are errors; nothing has happened yet.
RefuseRelease(w) ==
    LET e == req[w].event IN
    /\ \/ /\ req[w].pc = "read" /\ req[w].want = "released"
          /\ stored[PathOf(e)] = Absent
       \/ /\ Direct[w]
          /\ req[w].pc = "opened"
          /\ Named(e) /\ inbox[Slot(e)] # Absent
    /\ Return(w)
    /\ UNCHANGED <<row, stored, inbox, handed, audit, announced, store,
                   attempts>>

CopyMessage(w) ==
    /\ req[w].pc = "copying"
    /\ Hand(w)
    /\ Reach(w, "delivered")
    /\ UNCHANGED <<row, stored, inbox, audit, announced, store, attempts>>

\* The copy fails and the target is removed by its name.
CopyFails(w) ==
    LET e == req[w].event IN
    /\ req[w].pc = "copying"
    /\ inbox' = IF Named(e) THEN [inbox EXCEPT ![Slot(e)] = Absent] ELSE inbox
    /\ Return(w)
    /\ UNCHANGED <<row, stored, handed, audit, announced, store, attempts>>

\* The row is about to be written: at once by a deletion, after the delivery
\* by a release.
AtUpdate(w) == \/ req[w].pc = "read" /\ req[w].want = "deleted"
               \/ req[w].pc = "delivered"

\* Variant: UPDATE without AND status = 'held'.
UpdateRowBlind(w) ==
    /\ AtUpdate(w)
    /\ \A v \in Resolvers : ~HoldsRow(v, req[w].event)
    /\ Reach(w, "updated")
    /\ UNCHANGED <<row, stored, inbox, handed, audit, announced, store,
                   attempts>>

\* Variant: the status is checked again, but no row lock is taken.
UpdateRowUnlocked(w) ==
    /\ AtUpdate(w)
    /\ IF row[req[w].event] = "held" THEN Reach(w, "updated") ELSE Return(w)
    /\ UNCHANGED <<row, stored, inbox, handed, audit, announced, store,
                   attempts>>

\* Variant: the SELECT takes a shared lock, which the UPDATE of the other
\* reader waits for.
UpdateRowSharedLock(w) ==
    LET e == req[w].event IN
    /\ AtUpdate(w)
    /\ \A v \in Resolvers \ {w} : req[v].event # e
    /\ IF row[e] = "held" THEN Reach(w, "updated") ELSE Return(w)
    /\ UNCHANGED <<row, stored, inbox, handed, audit, announced, store,
                   attempts>>

\* UPDATE ... WHERE status = 'held': waits for the row's lock, then sees the
\* committed status, not the one read at the start.
UpdateRow(w) ==
    LET e == req[w].event IN
    /\ AtUpdate(w)
    /\ \A v \in Resolvers : ~HoldsRow(v, e)
    /\ IF row[e] = "held" THEN Reach(w, "updated") ELSE Return(w)
    /\ UNCHANGED <<row, stored, inbox, handed, audit, announced, store,
                   attempts>>

\* Variant: the file is removed before the UPDATE.
DeleteFileEarly(w) ==
    /\ req[w].pc = "read" /\ req[w].want = "deleted"
    /\ stored' = [stored EXCEPT ![PathOf(req[w].event)] = Absent]
    /\ UNCHANGED <<row, inbox, handed, audit, announced, store, req, attempts>>

\* A deletion unlinks the file inside the transaction; a missing file is fine.
DeleteFile(w) ==
    /\ req[w].pc = "updated" /\ req[w].want = "deleted"
    /\ stored' = [stored EXCEPT ![PathOf(req[w].event)] = Absent]
    /\ Reach(w, "filed")
    /\ UNCHANGED <<row, inbox, handed, audit, announced, store, attempts>>

InsertAudit(w) ==
    /\ \/ req[w].pc = "updated" /\ req[w].want = "released"
       \/ req[w].pc = "filed"
    /\ Reach(w, "audited")
    /\ UNCHANGED <<row, stored, inbox, handed, audit, announced, store,
                   attempts>>

\* The status and its audit entry become visible together.
Commit(w) ==
    LET e == req[w].event IN
    /\ req[w].pc = "audited"
    /\ row' = [row EXCEPT ![e] = req[w].want]
    /\ audit' = [audit EXCEPT ![e] = Append(@, req[w].want)]
    /\ Return(w)
    /\ UNCHANGED <<stored, inbox, handed, announced, store, attempts>>

\* Any other way out: a refused recipient, a failed statement or COMMIT, a
\* cancelled request, a crash.  The transaction is rolled back; what was done
\* to files and mailboxes stays.
Abort(w) ==
    /\ req[w].pc # "idle"
    /\ Return(w)
    /\ UNCHANGED <<row, stored, inbox, handed, audit, announced, store,
                   attempts>>

\* The mail server moves a message from new/ to cur/ when the user looks.
ReadInbox(s) ==
    /\ inbox[s] # Absent
    /\ inbox' = [inbox EXCEPT ![s] = Absent]
    /\ UNCHANGED <<row, stored, handed, audit, announced, store, req, attempts>>

-----------------------------------------------------------------------------

Storing(e) == StoreFile(e) \/ InsertRow(e) \/ InsertRowFails(e)
                 \/ AnnounceRow(e) \/ StoreStops(e)

\* The steps a resolution takes when nothing fails from outside.
Progress(w) == OpenSource(w) \/ SendSMTP(w) \/ CreateTarget(w)
                  \/ RefuseRelease(w) \/ CopyMessage(w) \/ UpdateRow(w)
                  \/ DeleteFile(w) \/ InsertAudit(w) \/ Commit(w)

Failure(w) == CopyFails(w) \/ Abort(w)

QuarantineNext == \/ \E e \in Events : Storing(e)
                  \/ \E s \in Slots : ReadInbox(s)
                  \/ \E w \in Resolvers : Progress(w) \/ Failure(w)
                  \/ \E w \in Resolvers, e \in Events, o \in Outcomes : Begin(w, e, o)

QuarantineSpec == QuarantineInit /\ [][QuarantineNext]_quarantineVars

\* A handler that can take a step does: the Go scheduler runs every goroutine
\* and the database grants a free row lock.  Nothing forces a failure.
QuarantineFairSpec == QuarantineSpec /\ \A w \in Resolvers : WF_quarantineVars(Progress(w))

-----------------------------------------------------------------------------
(* Properties                                                              *)

RowStates == {"none", "held"} \cup Outcomes
Stages == {"idle", "read", "opened", "copying", "delivered"} \cup LockStates

\* Every variable has the type its column, directory or local has in the code.
QuarantineTypeOK ==
    /\ row \in [Events -> RowStates]
    /\ stored \in [Paths -> Events \cup {Absent}]
    /\ inbox \in [Slots -> Events \cup {Absent}]
    /\ handed \in [Events -> Seq(Events)]
    /\ audit \in [Events -> Seq(Outcomes)]
    /\ announced \subseteq Events
    /\ store \in [Events -> {"idle", "renamed", "inserted", "done", "failed"}]
    /\ req \in [Resolvers -> [pc : Stages, event : Events \cup {Absent},
                              want : Outcomes \cup {"none"},
                              source : Events \cup {Absent}]]
    /\ attempts \in 0..MaxAttempts

\* The audit trail of an event is exactly its committed resolution: one entry
\* naming the status the row has, none while it is held, however many
\* resolutions of it ran at once or failed half-way.
AuditMatchesStatus ==
    \A e \in Events :
        audit[e] = IF row[e] \in Outcomes THEN <<row[e]>> ELSE << >>

\* A row says released only after a message was handed to the recipient, since
\* the delivery precedes the UPDATE and its failure ends the request.
ReleasedWasDelivered ==
    \A e \in Events : row[e] = "released" => handed[e] # << >>

\* Once a row says deleted, no path of the store holds its message, although
\* paths are shared and other runs keep storing and failing.
DeletedLeavesNoCopy ==
    \A e \in Events, p \in Paths : row[e] = "deleted" => stored[p] # e

\* What the row of a resolved event says has happened to its message,
\* although file, delivery and row have no common commit.
ResolvedAsRecorded == ReleasedWasDelivered /\ DeletedLeavesNoCopy

\* A released copy waiting in new/ is not overwritten by another release under
\* the same name: it goes away only by being read or removed.
CopyNotOverwritten ==
    [][\A s \in Slots : inbox[s] # Absent => inbox'[s] \in {inbox[s], Absent}]_quarantineVars

HasOwnPath(e) == \A f \in Events : PathOf(e) = PathOf(f) => e = f

\* Unless another message shares its path, the file of a held message is taken
\* away only by a resolution that wants it deleted and holds the row's lock.
OnlyADeleteRemovesAHeldFile ==
    [][\A e \in Events :
         (HasOwnPath(e) /\ row[e] = "held" /\ stored[PathOf(e)] = e)
            => \/ stored'[PathOf(e)] = e
               \/ \E w \in Resolvers : HoldsRow(w, e) /\ req[w].want = "deleted"]_quarantineVars

\* A held event that nobody is resolving has its message in the store: the
\* storage_path of its row names a file.
StoredMessageKept ==
    \A e \in Events :
        row[e] = "held" /\ (\A w \in Resolvers : req[w].event # e)
            => stored[PathOf(e)] # Absent

\* Resolutions of one event never block each other for good: each request
\* returns, although the second waits for the first one's row lock.
RequestReturns ==
    \A w \in Resolvers : req[w].pc # "idle" ~> req[w].pc = "idle"

\* Seen through the row and its audit trail alone, the pipeline is the abstract
\* specification: an event is held once and resolved at most once.
Abstract == INSTANCE Resolution WITH status <- row, log <- audit
ImplementsResolution == Abstract!Spec

=============================================================================
