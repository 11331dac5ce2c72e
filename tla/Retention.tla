------------------------------ MODULE Retention ------------------------------
(***************************************************************************)
(* The directory of backup archives: runs of mailctl backup write, verify  *)
(* and, with --prune-after, thin it out; mailctl backup-prune only thins   *)
(* it out.                                                                 *)
(*                                                                         *)
(*   cmd/mailctl/main.go         the runs                                  *)
(*   internal/backup/backup.go   writing and verifying an archive          *)
(*   internal/backup/prune.go    which archives a policy keeps             *)
(*                                                                         *)
(* The timer's run and an administrator's share the directory and no lock; *)
(* each may fail or be killed at any step and leaves what it wrote under   *)
(* the archive's final name.  Time is counted in slots of a day, and an    *)
(* archive is named by the time its run began.                             *)
(***************************************************************************)
EXTENDS Integers, Sequences, FiniteSetsExt

CONSTANTS
    Operators,     \* who runs mailctl: the timer, an administrator
    Slots,         \* times of a day that are told apart
    MonthStarts,   \* first day of every month of the calendar
    WeekShift,     \* days of the first week before day 0
    RunDays,       \* days on which something runs
    Daily, Weekly, Monthly,  \* the policy
    MaxArchives    \* bound: archives begun

ASSUME RetentionAssumptions ==
    /\ Slots \in Nat \ {0} /\ WeekShift \in 0..6
    /\ {Daily, Weekly, Monthly, MaxArchives} \subseteq Nat
    /\ RunDays \subseteq Nat /\ RunDays # {}
    /\ MonthStarts \in Seq(Nat) /\ MonthStarts # << >> /\ MonthStarts[1] = 0
    /\ \A m \in 1..(Len(MonthStarts) - 1) : MonthStarts[m + 1] - MonthStarts[m] \in 28..31
    /\ \A d \in RunDays : d < MonthStarts[Len(MonthStarts)] + 31

VARIABLES
    now,       \* the time
    archives,  \* time of an archive in the directory -> how far it got
    operator,  \* who -> its run
    begun      \* archives begun

retentionVars == <<now, archives, operator, begun>>

Unoccupied == [pc |-> "idle", archive |-> 0, prune |-> FALSE, left |-> {}]

-----------------------------------------------------------------------------
(* The calendar.                                                           *)

Day(t) == t \div Slots
Week(t) == (Day(t) + WeekShift) \div 7
MonthOfDay(d) == Max({m \in DOMAIN MonthStarts : MonthStarts[m] <= d})
Month(t) == MonthOfDay(Day(t))

\* now.AddDate(0, -Monthly+1, 0): the same day of an earlier month, counted
\* on into the next month when that month is shorter.
MonthlyCutoff(t) ==
    LET m == Month(t) - Monthly + 1
    IN  IF m < 1 THEN 1
        ELSE MonthOfDay(MonthStarts[m] + Day(t) - MonthStarts[Month(t)])

-----------------------------------------------------------------------------
(* Which archives are kept.                                                *)

\* Variant: the oldest comes first.
OldestFirst(s, t) == s < t

\* The order in which the candidates are sorted: the newest comes first.
Before(s, t) == s > t

\* One rule of the policy, over the candidates after its cutoff, in order: the
\* first archive of every period, until count periods have one.
Rule(admitted, count, period) ==
    LET Earlier(t) == {s \in admitted : Before(s, t)}
    IN  {t \in admitted : /\ \A s \in Earlier(t) : period[s] # period[t]
                          /\ Cardinality({period[s] : s \in Earlier(t)}) < count}

SelectBackupsToKeep(A, at) ==
    LET Since(days) == {t \in A : Day(t) >= Day(at) - days + 1}
        SinceMonth(m) == {t \in A : Month(t) >= m}
    IN  Rule(Since(Daily), Daily, [t \in A |-> Day(t)])
          \cup Rule(Since(7 * Weekly), Weekly, [t \in A |-> Week(t)])
          \cup Rule(SinceMonth(MonthlyCutoff(at)), Monthly, [t \in A |-> Month(t)])

\* The archives a prune of the directory removes, the first in order first.
Expired(A, at) == A \ SelectBackupsToKeep(A, at)

-----------------------------------------------------------------------------
(* Runs.                                                                   *)

NextBackupStep(p, pc) == operator' = [operator EXCEPT ![p].pc = pc]

Tick ==
    /\ \E d \in RunDays, s \in 0..(Slots - 1) :
         d * Slots + s > now /\ now' = d * Slots + s
    /\ UNCHANGED <<archives, operator, begun>>

\* The run takes its name from the clock; dumping the database and packing a
\* plain temporary file come before anything is in the directory.
RunBackup(p) ==
    /\ operator[p].pc = "idle" /\ begun < MaxArchives
    /\ now \notin DOMAIN archives /\ \A q \in Operators : operator[q].archive # now
    /\ \E prune \in BOOLEAN :
         operator' = [operator EXCEPT ![p] =
                        [pc |-> "dump", archive |-> now, prune |-> prune, left |-> {}]]
    /\ begun' = begun + 1
    /\ UNCHANGED <<now, archives>>

With(t, state) == [s \in DOMAIN archives \cup {t} |-> IF s = t THEN state ELSE archives[s]]

OpenArchive(p) ==
    /\ operator[p].pc = "dump"
    /\ archives' = With(operator[p].archive, "partial")
    /\ NextBackupStep(p, "encrypt")
    /\ UNCHANGED <<now, begun>>

EncryptFile(p) ==
    /\ operator[p].pc = "encrypt"
    /\ operator[p].archive \in DOMAIN archives
    /\ archives' = With(operator[p].archive, "whole")
    /\ NextBackupStep(p, "verify")
    /\ UNCHANGED <<now, begun>>

\* Another run may have pruned the file: then it is written unseen.
EncryptUnlinked(p) ==
    /\ operator[p].pc = "encrypt"
    /\ operator[p].archive \notin DOMAIN archives
    /\ NextBackupStep(p, "verify")
    /\ UNCHANGED <<now, archives, begun>>

Verify(p) ==
    /\ operator[p].pc = "verify"
    /\ operator[p].archive \in DOMAIN archives
    /\ archives' = With(operator[p].archive, "verified")
    /\ operator' = [operator EXCEPT ![p] = IF @.prune THEN [@ EXCEPT !.pc = "list"] ELSE Unoccupied]
    /\ UNCHANGED <<now, begun>>

RunBackupPrune(p) ==
    /\ operator[p].pc = "idle"
    /\ operator' = [operator EXCEPT ![p] = [Unoccupied EXCEPT !.pc = "list"]]
    /\ UNCHANGED <<now, archives, begun>>

ListBackupCandidates(p) ==
    /\ operator[p].pc = "list"
    /\ operator' = [operator EXCEPT ![p].pc = "remove",
                                    ![p].left = Expired(DOMAIN archives, now)]
    /\ UNCHANGED <<now, archives, begun>>

RemoveExpired(p) ==
    /\ operator[p].pc = "remove"
    /\ \E t \in operator[p].left \cap DOMAIN archives :
         /\ \A s \in operator[p].left \ {t} : Before(t, s)
         /\ archives' = [s \in DOMAIN archives \ {t} |-> archives[s]]
         /\ operator' = [operator EXCEPT ![p].left = @ \ {t}]
    /\ UNCHANGED <<now, begun>>

EndPrune(p) ==
    /\ operator[p].pc = "remove" /\ operator[p].left = {}
    /\ operator' = [operator EXCEPT ![p] = Unoccupied]
    /\ UNCHANGED <<now, archives, begun>>

\* A step fails or the run is killed.
FailOperation(p) ==
    /\ operator[p].pc # "idle"
    /\ operator' = [operator EXCEPT ![p] = Unoccupied]
    /\ UNCHANGED <<now, archives, begun>>

-----------------------------------------------------------------------------

RetentionInit ==
    /\ now = Min(RunDays) * Slots
    /\ archives = << >>
    /\ operator = [p \in Operators |-> Unoccupied]
    /\ begun = 0

RetentionNext ==
    \/ Tick
    \/ \E p \in Operators :
         \/ RunBackup(p) \/ OpenArchive(p) \/ EncryptFile(p) \/ EncryptUnlinked(p) \/ Verify(p)
         \/ RunBackupPrune(p) \/ ListBackupCandidates(p) \/ RemoveExpired(p) \/ EndPrune(p) \/ FailOperation(p)

RetentionSpec == RetentionInit /\ [][RetentionNext]_retentionVars

-----------------------------------------------------------------------------

RetentionTypeOK ==
    /\ now \in Nat /\ Day(now) \in RunDays
    /\ begun \in 0..MaxArchives
    /\ DOMAIN archives \subseteq 0..now
    /\ \A t \in DOMAIN archives : archives[t] \in {"partial", "whole", "verified"}
    /\ operator \in [Operators -> [pc : {"idle", "dump", "encrypt", "verify", "list", "remove"},
                                   archive : 0..now, prune : BOOLEAN, left : SUBSET (0..now)]]

\* On the last days of a longer month the month the policy goes back to has no
\* such day, and the cutoff is a month late.
CutoffIsLate(at) == MonthlyCutoff(at) > Month(at) - Monthly + 1

\* Of an archive that goes, each period it stands for (its day, its week, its
\* month) has a newer archive in A or is so old at that time that the policy no
\* longer asks for it; on the days of a late cutoff the oldest month of the
\* policy is not asked for either.
NotMissed(t, A, at) ==
    /\ (\E s \in A : s > t /\ Day(s) = Day(t)) \/ Day(at) - Day(t) >= Daily
    /\ \/ \E s \in A : s > t /\ Week(s) = Week(t)
       \/ Day(at) - Day(t) >= 7 * Weekly
       \/ Cardinality({Week(s) : s \in {u \in A : Week(u) > Week(t)}}) >= Weekly
    /\ \/ \E s \in A : s > t /\ Month(s) = Month(t)
       \/ Month(at) - Month(t) >= Monthly
       \/ Month(at) - Month(t) = Monthly - 1 /\ CutoffIsLate(at)

\* What is removed from the directory is not missed in what is left there,
\* however runs, prunes and failures overlap.  Archives are told by their names,
\* as prune.go does: the piece that a failed run left may stand in for a whole one.
RetentionHeld ==
    [][\A t \in DOMAIN archives \ DOMAIN archives' :
         NotMissed(t, DOMAIN archives', now)]_retentionVars

Removing(t) == \E p \in Operators : operator[p].pc = "remove" /\ t \in operator[p].left

\* "Defaults keep 7 daily, 4 weekly, and 12 monthly backup archives."
\* (deploy/devmail/README.md:43): the last archive of a month is not removed
\* before so many months have begun after it.
MonthsStay ==
    \A t \in DOMAIN archives :
        archives[t] # "partial" /\ Removing(t) =>
            \/ \E s \in DOMAIN archives : s > t /\ Month(s) = Month(t)
            \/ Month(now) - Month(t) >= Monthly

=============================================================================
