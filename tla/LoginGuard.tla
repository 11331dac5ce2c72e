----------------------------- MODULE LoginGuard -----------------------------
(***************************************************************************)
(* Password logins guarded by the SQL login limiter.                       *)
(*                                                                         *)
(*   internal/session/sql_limiter.go   Locked, Fail, Success               *)
(*   internal/session/manager.go       AnyLocked, FailAll, SuccessAll,     *)
(*                                     LockoutForFailureCount              *)
(*   internal/webmail/handlers.go      the webmail login                   *)
(*   internal/admin/sql_store.go       UnlockUser, UpdateUser,             *)
(*                                     ClearLoginRateLimit                 *)
(*                                                                         *)
(* An attempt checks its keys (client address, account, their pair) one by *)
(* one, verifies the password, then records the failure, or forgets the    *)
(* failures, of its keys one by one.  Each key is a row of                 *)
(* login_rate_limits and each call a statement or transaction of its own,  *)
(* so attempts, and an administrator unlocking an account, interleave      *)
(* between them.  The database is InnoDB at REPEATABLE READ.               *)
(***************************************************************************)
EXTENDS Integers, Sequences, FiniteSets

CONSTANTS
    Workers,      \* requests served at the same time
    Admins,       \* administrators' unlock requests served at the same time
    Accounts,     \* mailbox accounts
    Logins,       \* pairs of an account and a client address
    KeysOf,       \* login -> its limiter keys, in the order they are used
    AccountOf,    \* login -> the account it names
    Locks,        \* limiter key -> the account an account key names, or None
    OwnedBy,      \* account -> its account and pair keys, which an unlock deletes
    Penalties,    \* set of [failures, lockout], one per number of failures
    Window,       \* time after which a tally starts anew
    Limit,        \* accountLockoutFailures
    None,         \* no row, no account
    MaxAttempts,  \* bound: attempts started in one behaviour
    MaxChanges,   \* bound: administrators' requests in one behaviour
    MaxTime       \* bound: the clock stops here

Keys == UNION {{KeysOf[l][i] : i \in DOMAIN KeysOf[l]} : l \in Logins}

ASSUME GuardAssumptions ==
    /\ KeysOf \in [Logins -> Seq(DOMAIN Locks)]
    /\ \A l \in Logins : KeysOf[l] # << >>
    /\ AccountOf \in [Logins -> Accounts]
    /\ \A k \in Keys : Locks[k] \in Accounts \cup {None}
    /\ None \notin Accounts
    /\ None \notin [count : Nat, first : Nat]
    /\ None \notin [count : Nat, first : Nat, until : Int]
    /\ IsFiniteSet(Workers) /\ Workers # {}
    /\ \A a \in Accounts : OwnedBy[a] \subseteq Keys
    /\ \A k \in Keys : Locks[k] # None => k \in OwnedBy[Locks[k]]
    /\ \A p \in Penalties : p \in [failures : Nat \ {0}, lockout : Nat \ {0}]
    /\ Window \in Nat /\ Limit \in Nat \ {0}
    /\ MaxAttempts \in Nat /\ MaxChanges \in Nat /\ MaxTime \in Nat

VARIABLES
    rec,      \* key -> its committed row [count, first, until], or None
    status,   \* account -> users.status
    now,      \* the clock
    req,      \* worker -> the attempt it serves
    unlock,   \* administrator -> the account whose row its unlock has locked
    edited,   \* accounts set active by an edit since the limiter locked them
    late,     \* key -> passwords verified since its present lock was set
    attempts, \* attempts started so far
    changes   \* administrators' requests started so far

vars == <<rec, status, now, req, unlock, edited, late, attempts, changes>>

NoTime == -1   \* locked_until is NULL
Idle == [pc |-> "idle", login |-> None, i |-> 0, seen |-> None, new |-> None]

LockedUntil(k) == IF rec[k] = None THEN NoTime ELSE rec[k].until
LockedNow(k) == LockedUntil(k) > now

\* LockoutForFailureCount: the lockout of the largest threshold reached.
LockoutFor(n) ==
    LET reached == {p \in Penalties : p.failures <= n} IN
    IF reached = {} THEN 0
    ELSE (CHOOSE p \in reached : \A q \in reached : q.failures <= p.failures).lockout

\* The row a failure at time t makes of the row it has read.
Failed(row, t) ==
    LET restart == row = None \/ t - row.first > Window
        n == IF restart THEN 1 ELSE row.count + 1
    IN  [count |-> n,
         first |-> IF restart THEN t ELSE row.first,
         until |-> IF LockoutFor(n) > 0 THEN t + LockoutFor(n) ELSE NoTime]

Key(w) == KeysOf[req[w].login][req[w].i]

\* Row locks.  A failure being recorded holds its key's row, once the row
\* exists, and every user row once it has written one (the UPDATE finds the
\* account by an unindexed expression); an unlock holds its user's row.
WroteKey(w, k) == req[w].pc \in {"account", "commit"} /\ Key(w) = k
HoldsKey(w, k) == \/ WroteKey(w, k)
                  \/ req[w].pc = "write" /\ Key(w) = k /\ req[w].seen # None
\* SELECT ... FOR UPDATE of a missing row locks the gap: no one else inserts.
HoldsGap(w, k) == req[w].pc = "write" /\ Key(w) = k /\ req[w].seen = None
LocksAccount(w) == /\ req[w].new # None /\ req[w].new.count >= Limit
                   /\ Locks[Key(w)] # None
HoldsUsers(w) == req[w].pc = "commit" /\ LocksAccount(w)

KeyFree(w, k) == \A v \in Workers \ {w} : ~HoldsKey(v, k)

-----------------------------------------------------------------------------

Init == /\ rec = [k \in Keys |-> None]
        /\ status = [a \in Accounts |-> "active"]
        /\ now = 0
        /\ req = [w \in Workers |-> Idle]
        /\ unlock = [d \in Admins |-> None]
        /\ edited = {}
        /\ late = [k \in Keys |-> 0]
        /\ attempts = 0
        /\ changes = 0

\* late counts the verifications during a lock: it starts again when the lock
\* ends and is put in force anew.
Relock(r, t) == [k \in Keys |-> IF r[k] # None /\ r[k].until > t THEN late[k] ELSE 0]

Goto(w, label) == req' = [req EXCEPT ![w].pc = label]
Return(w) == req' = [req EXCEPT ![w] = Idle]

\* Variant: one key too many.
NextKeyPast(w, loop, after) ==
    LET l == req[w].login  n == req[w].i + 1 IN
    req' = [req EXCEPT ![w] =
        IF n <= Len(KeysOf[l]) + 1
        THEN [Idle EXCEPT !.pc = loop, !.login = l, !.i = n]
        ELSE IF after = "idle" THEN Idle
        ELSE [Idle EXCEPT !.pc = after, !.login = l, !.i = 1]]

\* On to the next key of the list, or to what follows the last one.
NextKey(w, loop, after) ==
    LET l == req[w].login  n == req[w].i + 1 IN
    req' = [req EXCEPT ![w] =
        IF n <= Len(KeysOf[l])
        THEN [Idle EXCEPT !.pc = loop, !.login = l, !.i = n]
        ELSE IF after = "idle" THEN Idle
        ELSE [Idle EXCEPT !.pc = after, !.login = l, !.i = 1]]

Start(w, l) ==
    /\ req[w].pc = "idle"
    /\ attempts < MaxAttempts
    /\ req' = [req EXCEPT ![w] = [Idle EXCEPT !.pc = "check", !.login = l, !.i = 1]]
    /\ attempts' = attempts + 1
    /\ UNCHANGED <<rec, status, now, unlock, edited, late, changes>>

-----------------------------------------------------------------------------
(* AnyLocked: Locked for each key.                                         *)

\* Variant: only the last key decides.
CheckKeyLast(w) ==
    LET k == Key(w) IN
    /\ req[w].pc = "check"
    /\ \/ LockedNow(k) /\ req[w].i = Len(KeysOf[req[w].login]) /\ Return(w)
       \/ /\ ~LockedNow(k) \/ req[w].i < Len(KeysOf[req[w].login])
          /\ NextKey(w, "check", "verify")
    /\ UNCHANGED <<rec, status, now, unlock, edited, late, attempts, changes>>

\* The SELECT of locked_until: in force, never set, or expired, in which case
\* a second statement is about to reset it.  An error counts as locked.
CheckKey(w) ==
    LET k == Key(w) IN
    /\ req[w].pc = "check"
    /\ \/ Return(w)
       \/ /\ LockedUntil(k) = NoTime
          /\ NextKey(w, "check", "verify")
       \/ /\ LockedUntil(k) \in 0..now
          /\ Goto(w, "clear")
    /\ UNCHANGED <<rec, status, now, unlock, edited, late, attempts, changes>>

\* UPDATE locked_until = NULL, unconditionally; an error is logged only.
ClearLock(w) ==
    LET k == Key(w) IN
    /\ req[w].pc = "clear"
    /\ \/ /\ KeyFree(w, k)
          /\ rec' = IF rec[k] = None THEN rec
                    ELSE [rec EXCEPT ![k].until = NoTime]
       \/ UNCHANGED rec
    /\ late' = Relock(rec', now)
    /\ NextKey(w, "check", "verify")
    /\ UNCHANGED <<status, now, unlock, edited, attempts, changes>>

\* VerifyUserPassword: the account must be active and the password right.
Verify(w) ==
    /\ req[w].pc = "verify"
    /\ \/ Goto(w, "fail")
       \/ status[AccountOf[req[w].login]] = "active" /\ Goto(w, "success")
    /\ late' = [k \in Keys |->
                   IF LockedNow(k) /\ k \in {KeysOf[req[w].login][i] :
                                               i \in DOMAIN KeysOf[req[w].login]}
                   THEN late[k] + 1 ELSE late[k]]
    /\ UNCHANGED <<rec, status, now, unlock, edited, attempts, changes>>

-----------------------------------------------------------------------------
(* SuccessAll: one DELETE per key.                                         *)

Success(w) ==
    /\ req[w].pc = "success"
    /\ \/ KeyFree(w, Key(w)) /\ rec' = [rec EXCEPT ![Key(w)] = None]
       \/ UNCHANGED rec
    /\ late' = Relock(rec', now)
    /\ NextKey(w, "success", "idle")
    /\ UNCHANGED <<status, now, unlock, edited, attempts, changes>>

-----------------------------------------------------------------------------
(* FailAll: one transaction per key.                                       *)

\* Variant: a plain SELECT, without FOR UPDATE.
FailReadUnlocked(w) ==
    /\ req[w].pc = "fail"
    /\ req' = [req EXCEPT ![w].pc = "write", ![w].seen = rec[Key(w)]]
    /\ UNCHANGED <<rec, status, now, unlock, edited, late, attempts, changes>>

\* SELECT ... FOR UPDATE of the key's row.
FailRead(w) ==
    /\ req[w].pc = "fail"
    /\ KeyFree(w, Key(w))
    /\ req' = [req EXCEPT ![w].pc = "write", ![w].seen = rec[Key(w)]]
    /\ UNCHANGED <<rec, status, now, unlock, edited, late, attempts, changes>>

\* UPDATE, or INSERT, which waits for others' locks on the gap.
FailWrite(w) ==
    LET k == Key(w)
        new == Failed(req[w].seen, now)
    IN
    /\ req[w].pc = "write"
    /\ \A v \in Workers \ {w} :
          ~WroteKey(v, k) /\ (req[w].seen = None => ~HoldsGap(v, k))
    /\ req' = [req EXCEPT ![w].new = new,
                         ![w].pc = IF new.count >= Limit /\ Locks[k] # None
                                   THEN "account" ELSE "commit"]
    /\ UNCHANGED <<rec, status, now, unlock, edited, late, attempts, changes>>

\* UPDATE users SET status = 'locked', in the same transaction.
FailLocksAccount(w) ==
    /\ req[w].pc = "account"
    /\ \A v \in Workers \ {w} : ~HoldsUsers(v)
    /\ \A d \in Admins : unlock[d] = None
    /\ Goto(w, "commit")
    /\ UNCHANGED <<rec, status, now, unlock, edited, late, attempts, changes>>

FailCommit(w) ==
    LET k == Key(w) IN
    /\ req[w].pc = "commit"
    /\ rec' = [rec EXCEPT ![k] = req[w].new]
    /\ status' = [a \in Accounts |->
                     IF LocksAccount(w) /\ a = Locks[k] /\ status[a] = "active"
                     THEN "locked" ELSE status[a]]
    /\ edited' = IF LocksAccount(w) THEN edited \ {Locks[k]} ELSE edited
    /\ late' = Relock(rec', now)
    /\ NextKey(w, "fail", "idle")
    /\ UNCHANGED <<now, unlock, attempts, changes>>

\* Two requests have locked the same gap and wait for each other to insert.
Deadlocked(w) == \E v \in Workers \ {w} : HoldsGap(w, Key(w)) /\ HoldsGap(v, Key(w))

\* Variant: a failed transaction is tried again.
FailAbortsRetry(w) ==
    /\ req[w].pc \in {"fail", "write", "account", "commit"}
    /\ req' = [req EXCEPT ![w].pc = "fail", ![w].seen = None, ![w].new = None]
    /\ UNCHANGED <<rec, status, now, unlock, edited, late, attempts, changes>>

\* A statement fails, the two-second timeout expires, or the database picks
\* the transaction as a deadlock victim: the failure of this key is not
\* recorded, and the next key's turn comes.
FailAborts(w) ==
    /\ req[w].pc \in {"fail", "write", "account", "commit"}
    /\ NextKey(w, "fail", "idle")
    /\ UNCHANGED <<rec, status, now, unlock, edited, late, attempts, changes>>

-----------------------------------------------------------------------------
(* The administrator.                                                      *)

\* UnlockUser: UPDATE users ... WHERE id = ? locks the user's row,
UnlockBegin(d, a) ==
    /\ changes < MaxChanges
    /\ unlock[d] = None
    /\ \A w \in Workers : ~HoldsUsers(w)
    /\ \A c \in Admins : unlock[c] # a
    /\ unlock' = [unlock EXCEPT ![d] = a]
    /\ changes' = changes + 1
    /\ UNCHANGED <<rec, status, now, req, edited, late, attempts>>

\* Variant: the rows are left in place.
UnlockCommitsKeepingRows(d) ==
    LET a == unlock[d] IN
    /\ a # None
    /\ \A w \in Workers, k \in Keys : ~HoldsKey(w, k)
    /\ status' = [status EXCEPT ![a] = "active"]
    /\ edited' = edited \ {a}
    /\ unlock' = [unlock EXCEPT ![d] = None]
    /\ UNCHANGED <<rec, now, req, late, attempts, changes>>

\* then the DELETE by pattern scans the table, waiting for every locked row,
\* and the transaction commits.
UnlockCommits(d) ==
    LET a == unlock[d] IN
    /\ a # None
    /\ \A w \in Workers, k \in Keys : ~HoldsKey(w, k)
    /\ status' = [status EXCEPT ![a] = "active"]
    /\ rec' = [k \in Keys |-> IF k \in OwnedBy[a] THEN None ELSE rec[k]]
    /\ late' = Relock(rec', now)
    /\ edited' = edited \ {a}
    /\ unlock' = [unlock EXCEPT ![d] = None]
    /\ UNCHANGED <<now, req, attempts, changes>>

UnlockAborts(d) ==
    /\ unlock[d] # None
    /\ unlock' = [unlock EXCEPT ![d] = None]
    /\ UNCHANGED <<rec, status, now, req, edited, late, attempts, changes>>

\* UpdateUser writes the status the form was loaded with, whatever happened
\* since; an active account keeps its limiter rows.
UpdateUser(a, s) ==
    /\ changes < MaxChanges
    /\ \A w \in Workers : ~HoldsUsers(w)
    /\ \A d \in Admins : unlock[d] # a
    /\ status' = [status EXCEPT ![a] = s]
    /\ edited' = IF s = "active" THEN edited \cup {a} ELSE edited \ {a}
    /\ changes' = changes + 1
    /\ UNCHANGED <<rec, now, req, unlock, late, attempts>>

ClearLoginRateLimit(k) ==
    /\ changes < MaxChanges
    /\ \A w \in Workers : ~HoldsKey(w, k)
    /\ rec' = [rec EXCEPT ![k] = None]
    /\ late' = Relock(rec', now)
    /\ changes' = changes + 1
    /\ UNCHANGED <<status, now, req, unlock, edited, attempts>>

Tick == /\ now < MaxTime
        /\ now' = now + 1
        /\ late' = Relock(rec, now + 1)
        /\ UNCHANGED <<rec, status, req, unlock, edited, attempts, changes>>

-----------------------------------------------------------------------------

Serve(w) == \/ CheckKey(w) \/ ClearLock(w) \/ Verify(w) \/ Success(w)
            \/ FailRead(w) \/ FailWrite(w) \/ FailLocksAccount(w) \/ FailCommit(w)

Next == \/ \E w \in Workers : Serve(w) \/ FailAborts(w)
        \/ \E w \in Workers, l \in Logins : Start(w, l)
        \/ \E d \in Admins : UnlockCommits(d) \/ UnlockAborts(d)
        \/ \E d \in Admins, a \in Accounts : UnlockBegin(d, a)
        \/ \E a \in Accounts, s \in {"active", "locked", "disabled"} : UpdateUser(a, s)
        \/ \E k \in Keys : ClearLoginRateLimit(k)
        \/ Tick

Spec == Init /\ [][Next]_vars

\* Handlers run, the database grants a free lock and breaks a deadlock.
Fairness == \A w \in Workers :
               /\ WF_vars(Serve(w))
               /\ WF_vars(Deadlocked(w) /\ FailAborts(w))
FairSpec == Spec /\ Fairness /\ \A d \in Admins : WF_vars(UnlockCommits(d) \/ UnlockAborts(d))

-----------------------------------------------------------------------------
(* Properties                                                              *)

Rows == [count : Nat \ {0}, first : 0..MaxTime, until : Nat \cup {NoTime}]
PCs == {"idle", "check", "clear", "verify", "success",
        "fail", "write", "account", "commit"}

\* Rows, statuses and the progress of each request are well formed; an attempt
\* stands at one of its login's keys.
TypeOK ==
    /\ rec \in [Keys -> Rows \cup {None}]
    /\ status \in [Accounts -> {"active", "locked", "disabled"}]
    /\ now \in 0..MaxTime
    /\ \A w \in Workers :
          /\ req[w].pc \in PCs
          /\ req[w].pc # "idle" => /\ req[w].login \in Logins
                                   /\ req[w].i \in DOMAIN KeysOf[req[w].login]
          /\ req[w].seen \in Rows \cup {None}
          /\ req[w].new \in Rows \cup {None}
          /\ (req[w].new # None) <=> (req[w].pc \in {"account", "commit"})
    /\ unlock \in [Admins -> Accounts \cup {None}]
    /\ edited \subseteq Accounts
    /\ late \in [Keys -> Nat]
    /\ attempts \in 0..MaxAttempts
    /\ changes \in 0..MaxChanges

\* While an account's tally stands at the limit the account is not active,
\* unless an administrator's edit has made it so: neither a concurrent unlock
\* nor concurrent failures leave a full tally on an active account.
FullTallyLocksAccount ==
    \A k \in Keys :
        (rec[k] # None /\ Locks[k] # None /\ rec[k].count >= Limit)
            => status[Locks[k]] # "active" \/ Locks[k] \in edited

\* A key's lock stops all but the attempts already past their check: during
\* one lock fewer passwords are verified against the key than there are
\* requests in flight.
LateVerificationsBounded == \A k \in Keys : late[k] < Cardinality(Workers)

\* Every attempt gets its answer, although requests wait for each other's row
\* locks and can deadlock.
AttemptReturns == \A w \in Workers : req[w].pc # "idle" ~> req[w].pc = "idle"

\* Counting is atomic: the limiter's rows are the tallies of the in-memory
\* limiter, no failure committed is lost, whatever runs at the same time.
Tally == [k \in Keys |-> IF rec[k] = None THEN None
                         ELSE [count |-> rec[k].count, first |-> rec[k].first]]
Counter == INSTANCE FailureCounter WITH tally <- Tally
CountsLikeLoginLimiter == Counter!Spec

=============================================================================
