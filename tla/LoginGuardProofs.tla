-------------------------- MODULE LoginGuardProofs --------------------------
(***************************************************************************)
(* Proofs about LoginGuard, for every set of requests, administrators,     *)
(* accounts and limiter keys, every table of penalties and any bound.      *)
(***************************************************************************)
EXTENDS LoginGuard, FiniteSetTheorems, WellFoundedInduction, TLAPS

-----------------------------------------------------------------------------
(* The inductive invariant.                                                *)

Requests == [pc : PCs, login : Logins \cup {None}, i : Nat,
             seen : Rows \cup {None}, new : Rows \cup {None}]

\* A request stands at one of its login's keys, and has made a new row exactly
\* while it has one to commit.
Proper(r) == /\ r.pc # "idle" => r.login \in Logins /\ r.i \in DOMAIN KeysOf[r.login]
             /\ (r.new # None) <=> (r.pc \in {"account", "commit"})

Served == /\ req \in [Workers -> Requests]
          /\ \A w \in Workers : Proper(req[w])

Tables == /\ rec \in [Keys -> Rows \cup {None}]
          /\ status \in [Accounts -> {"active", "locked", "disabled"}]
          /\ now \in 0..MaxTime
          /\ unlock \in [Admins -> Accounts \cup {None}]
          /\ edited \subseteq Accounts
          /\ late \in [Keys -> Nat]
          /\ attempts \in 0..MaxAttempts
          /\ changes \in 0..MaxChanges

\* The row locks exclude each other: a row is held by one transaction, and is
\* not written while another has found it missing.
Exclusive ==
    \A w \in Workers : \A v \in Workers \ {w} : \A k \in Keys :
        /\ HoldsKey(w, k) => ~HoldsKey(v, k)
        /\ HoldsGap(w, k) => ~WroteKey(v, k)

\* What a failure has read is still the row when it writes, and what it is
\* about to commit is one failure more than the row has.
RowsRead ==
    \A w \in Workers :
        /\ req[w].pc = "write" => req[w].seen = rec[Key(w)]
        /\ req[w].pc \in {"account", "commit"}
              => \E t \in 0..now : req[w].new = Failed(rec[Key(w)], t)

\* r's request has found key k not locked, or expired, and has not verified
\* its password yet.
Past(r, k) ==
    \/ r.pc = "verify" /\ \E j \in DOMAIN KeysOf[r.login] : KeysOf[r.login][j] = k
    \/ r.pc = "check"
       /\ \E j \in DOMAIN KeysOf[r.login] : KeysOf[r.login][j] = k /\ j < r.i
    \/ r.pc = "clear"
       /\ \E j \in DOMAIN KeysOf[r.login] : KeysOf[r.login][j] = k /\ j <= r.i

Passed(k) == {w \in Workers : Past(req[w], k)}

\* Who still can verify a password during k's lock, with who has: never every
\* request, for the one that set the lock is neither.
LateAt(k) == IF LockedNow(k) THEN late[k] + Cardinality(Passed(k)) < Cardinality(Workers)
             ELSE late[k] = 0

LateInv == \A k \in Keys : LateAt(k)

IInv == /\ Tables
        /\ Served
        /\ Exclusive
        /\ RowsRead
        /\ LateInv
        /\ FullTallyLocksAccount

-----------------------------------------------------------------------------
(* What the operators return.                                              *)

\* A set of bounded naturals that is not empty has a largest element.
LEMMA LargestExists ==
    ASSUME NEW n \in Nat, NEW S \in SUBSET (0..n), S # {}
    PROVE  \E x \in S : \A y \in S : y <= x
<1> DEFINE T == {n - x : x \in S}
<1>1. T \subseteq Nat /\ T # {}
    <2>1. \A x \in S : n - x \in Nat
        <3> TAKE x \in S
        <3>1. x \in 0..n
            OBVIOUS
        <3> QED BY <3>1
    <2>2. PICK x \in S : TRUE
        OBVIOUS
    <2> QED BY <2>1, <2>2
<1>2. PICK m \in T : \A y \in T : ~(<<y, m>> \in OpToRel(<, Nat))
    <2> HIDE DEF T
    <2> QED BY <1>1, WFMin, NatLessThanWellFounded
<1>3. \A y \in T : m <= y
    <2> TAKE y \in T
    <2>1. ~(<<y, m>> \in OpToRel(<, Nat))
        BY <1>2
    <2>2. y \in Nat /\ m \in Nat
        BY <1>1, <1>2
    <2>3. ~(y < m)
        BY <2>1, <2>2 DEF OpToRel
    <2> QED BY <2>2, <2>3
<1>4. PICK x \in S : m = n - x
    BY <1>2
<1>5. \A y \in S : y <= x
    <2> TAKE y \in S
    <2>1. m <= n - y
        BY <1>3
    <2> QED BY <2>1, <1>4
<1> QED BY <1>5

\* A lockout is a number: the table of penalties is bounded by the failures.
LEMMA LockoutIsNumber ==
    ASSUME NEW n \in Nat
    PROVE  LockoutFor(n) \in Nat
<1> DEFINE reached == {p \in Penalties : p.failures <= n}
<1>1. CASE reached = {}
    BY <1>1 DEF LockoutFor
<1>2. CASE reached # {}
    <2> DEFINE S == {p.failures : p \in reached}
    <2>1. S \in SUBSET (0..n) /\ S # {}
        <3>1. ASSUME NEW p \in reached PROVE p.failures \in 0..n
            <4>1. p.failures \in Nat /\ p.failures <= n
                BY <3>1, GuardAssumptions
            <4> QED BY <4>1
        <3>2. PICK p \in reached : TRUE
            BY <1>2
        <3>3. p.failures \in S
            BY <3>2
        <3> HIDE DEF reached
        <3> QED BY <3>1, <3>3
    <2>2. PICK x \in S : \A y \in S : y <= x
        <3> HIDE DEF S
        <3> QED BY <2>1, LargestExists
    <2>3. PICK p \in reached : x = p.failures
        OBVIOUS
    <2>4. \A q \in reached : q.failures <= p.failures
        BY <2>2, <2>3
    <2> DEFINE c == CHOOSE c \in reached : \A q \in reached : q.failures <= c.failures
    <2>5. c \in reached
        <3> HIDE DEF reached
        <3> QED BY <2>4
    <2>6. LockoutFor(n) = c.lockout
        BY <1>2 DEF LockoutFor
    <2>7. c.lockout \in Nat
        <3> HIDE DEF c
        <3> QED BY <2>5, GuardAssumptions
    <2> QED BY <2>6, <2>7
<1> QED BY <1>1, <1>2

\* A failure makes a row of the row it has read.
LEMMA FailedIsRow ==
    ASSUME NEW row \in Rows \cup {None}, NEW t \in 0..MaxTime
    PROVE  /\ Failed(row, t) \in Rows
           /\ Failed(row, t) # None
           /\ Failed(row, t).count = IF row = None \/ t - row.first > Window
                                     THEN 1 ELSE row.count + 1
           /\ Failed(row, t).first = IF row = None \/ t - row.first > Window
                                     THEN t ELSE row.first
<1> DEFINE restart == row = None \/ t - row.first > Window
           n == IF restart THEN 1 ELSE row.count + 1
           f == IF restart THEN t ELSE row.first
           u == IF LockoutFor(n) > 0 THEN t + LockoutFor(n) ELSE NoTime
<1>1. MaxTime \in Nat /\ Window \in Nat
    BY GuardAssumptions
<1>2. row # None => row.count \in Nat \ {0} /\ row.first \in 0..MaxTime
    BY DEF Rows
<1>3. n \in Nat \ {0} /\ f \in 0..MaxTime
    BY <1>1, <1>2
<1>4. u \in Nat \cup {NoTime}
    <2>1. LockoutFor(n) \in Nat
        <3> HIDE DEF n
        <3> QED BY <1>3, LockoutIsNumber
    <2> HIDE DEF n
    <2> QED BY <2>1, <1>1
<1>5. Failed(row, t) = [count |-> n, first |-> f, until |-> u]
    BY DEF Failed
<1> HIDE DEF n, f, u
<1>6. Failed(row, t) \in Rows
    BY <1>3, <1>4, <1>5 DEF Rows
<1>7. Failed(row, t).count = n /\ Failed(row, t).first = f
    BY <1>5
<1>8. Rows \subseteq [count : Nat, first : Nat, until : Int]
    BY <1>1 DEF Rows, NoTime
<1>9. Failed(row, t) # None
    BY <1>6, <1>8, GuardAssumptions
<1> QED BY <1>6, <1>7, <1>9 DEF n, f

\* No row is None.
LEMMA RowsAreRows == None \notin Rows /\ \A r \in Rows : None # [count |-> r.count, first |-> r.first]
<1>1. MaxTime \in Nat
    BY GuardAssumptions
<1>2. Rows \subseteq [count : Nat, first : Nat, until : Int]
    BY <1>1 DEF Rows, NoTime
<1>3. None \notin Rows
    BY <1>2, GuardAssumptions
<1>4. ASSUME NEW r \in Rows PROVE None # [count |-> r.count, first |-> r.first]
    <2>1. [count |-> r.count, first |-> r.first] \in [count : Nat, first : Nat]
        BY <1>1 DEF Rows
    <2> QED BY <2>1, GuardAssumptions
<1> QED BY <1>3, <1>4

-----------------------------------------------------------------------------
(* How a step moves a request.                                             *)

Fresh(label, l, n) == [Idle EXCEPT !.pc = label, !.login = l, !.i = n]

\* w's request becomes r, and r is well formed.
Becomes(w, r) == /\ r \in Requests /\ Proper(r)
                 /\ req' = [req EXCEPT ![w] = r]

\* A request that holds no row and has found nothing missing.
Holding == {"write", "account", "commit"}

LEMMA ServedMoves ==
    ASSUME Served, NEW w \in Workers, NEW r, Becomes(w, r)
    PROVE  /\ Served'
           /\ req'[w] = r
           /\ \A v \in Workers \ {w} : req'[v] = req[v]
<1>1. req' \in [Workers -> Requests]
    BY DEF Served, Becomes
<1>2. req'[w] = r /\ \A v \in Workers \ {w} : req'[v] = req[v]
    BY DEF Served, Becomes
<1>3. \A v \in Workers : Proper(req'[v])
    BY <1>2 DEF Served, Becomes
<1> QED BY <1>1, <1>2, <1>3 DEF Served

\* The key a request stands at.
LEMMA KeyIsKey ==
    ASSUME Served, NEW w \in Workers, req[w].pc # "idle"
    PROVE  /\ Key(w) \in Keys
           /\ req[w].login \in Logins
           /\ req[w].i \in 1..Len(KeysOf[req[w].login])
           /\ Len(KeysOf[req[w].login]) \in Nat \ {0}
           /\ DOMAIN KeysOf[req[w].login] = 1..Len(KeysOf[req[w].login])
<1>1. req[w].login \in Logins /\ req[w].i \in DOMAIN KeysOf[req[w].login]
    BY DEF Served, Proper
<1>2. KeysOf[req[w].login] \in Seq(DOMAIN Locks) /\ KeysOf[req[w].login] # << >>
    BY <1>1, GuardAssumptions
<1>3. DOMAIN KeysOf[req[w].login] = 1..Len(KeysOf[req[w].login])
    BY <1>2
<1>4. Len(KeysOf[req[w].login]) \in Nat \ {0}
    BY <1>2
<1>5. Key(w) \in {KeysOf[req[w].login][j] : j \in DOMAIN KeysOf[req[w].login]}
    BY <1>1 DEF Key
<1> QED BY <1>1, <1>3, <1>4, <1>5 DEF Keys

LEMMA FreshFields ==
    ASSUME NEW label, NEW l, NEW n
    PROVE  /\ Fresh(label, l, n).pc = label /\ Fresh(label, l, n).login = l
           /\ Fresh(label, l, n).i = n
           /\ Fresh(label, l, n).seen = None /\ Fresh(label, l, n).new = None
BY DEF Fresh, Idle

LEMMA FreshIsProper ==
    ASSUME NEW label \in PCs \ {"idle", "account", "commit"}, NEW l \in Logins,
           NEW n \in 1..Len(KeysOf[l])
    PROVE  Fresh(label, l, n) \in Requests /\ Proper(Fresh(label, l, n))
<1>1. KeysOf[l] \in Seq(DOMAIN Locks)
    BY GuardAssumptions
<1>2. DOMAIN KeysOf[l] = 1..Len(KeysOf[l]) /\ Len(KeysOf[l]) \in Nat
    BY <1>1
<1>3. n \in Nat
    BY <1>2
<1>4. Fresh(label, l, n) \in Requests
    BY <1>3 DEF Fresh, Idle, Requests
<1>5. Proper(Fresh(label, l, n))
    BY <1>2, FreshFields DEF Proper
<1> QED BY <1>4, <1>5

LEMMA IdleIsProper == Idle \in Requests /\ Proper(Idle) /\ Idle.pc = "idle"
BY DEF Idle, Requests, Proper, PCs

\* NextKey: to the next key, to the start of what follows, or to the answer.
LEMMA NextKeyGoes ==
    ASSUME Served, NEW w \in Workers, req[w].pc # "idle",
           NEW loop \in {"check", "success", "fail"}, NEW after \in {"idle", "verify"},
           NextKey(w, loop, after)
    PROVE  \/ /\ req[w].i + 1 \in 1..Len(KeysOf[req[w].login])
              /\ Becomes(w, Fresh(loop, req[w].login, req[w].i + 1))
           \/ /\ req[w].i = Len(KeysOf[req[w].login]) /\ after = "verify"
              /\ Becomes(w, Fresh("verify", req[w].login, 1))
           \/ after = "idle" /\ Becomes(w, Idle)
<1> DEFINE l == req[w].login
           n == req[w].i + 1
<1>1. /\ l \in Logins /\ req[w].i \in 1..Len(KeysOf[l])
      /\ Len(KeysOf[l]) \in Nat \ {0}
    BY KeyIsKey
<1>2. /\ [Idle EXCEPT !.pc = loop, !.login = l, !.i = n] = Fresh(loop, l, n)
      /\ [Idle EXCEPT !.pc = after, !.login = l, !.i = 1] = Fresh(after, l, 1)
    BY DEF Fresh
<1>3. req' = [req EXCEPT ![w] = IF n <= Len(KeysOf[l]) THEN Fresh(loop, l, n)
                                ELSE IF after = "idle" THEN Idle
                                ELSE Fresh(after, l, 1)]
    BY <1>2 DEF NextKey
<1>4. CASE n <= Len(KeysOf[l])
    <2>1. n \in 1..Len(KeysOf[l])
        BY <1>1, <1>4
    <2>2. loop \in PCs \ {"idle", "account", "commit"}
        BY DEF PCs
    <2>3. Fresh(loop, l, n) \in Requests /\ Proper(Fresh(loop, l, n))
        <3> HIDE DEF n
        <3> QED BY <1>1, <2>1, <2>2, FreshIsProper
    <2>4. req' = [req EXCEPT ![w] = Fresh(loop, l, n)]
        BY <1>3, <1>4
    <2> QED BY <2>1, <2>3, <2>4 DEF Becomes
<1>5. CASE ~(n <= Len(KeysOf[l])) /\ after = "idle"
    <2>1. req' = [req EXCEPT ![w] = Idle]
        BY <1>3, <1>5
    <2> QED BY <1>5, <2>1, IdleIsProper DEF Becomes
<1>6. CASE ~(n <= Len(KeysOf[l])) /\ after = "verify"
    <2>1. req[w].i = Len(KeysOf[l]) /\ 1 \in 1..Len(KeysOf[l])
        BY <1>1, <1>6
    <2>2. Fresh("verify", l, 1) \in Requests /\ Proper(Fresh("verify", l, 1))
        BY <1>1, <2>1, FreshIsProper DEF PCs
    <2>3. req' = [req EXCEPT ![w] = Fresh("verify", l, 1)]
        BY <1>3, <1>6
    <2> QED BY <1>6, <2>1, <2>2, <2>3 DEF Becomes
<1> QED BY <1>4, <1>5, <1>6

\* Goto leaves the rest of the request as it was.
LEMMA GotoGoes ==
    ASSUME Served, NEW w \in Workers, req[w].pc # "idle", NEW label \in PCs \ {"idle"},
           (req[w].pc \in {"account", "commit"}) <=> (label \in {"account", "commit"}),
           Goto(w, label)
    PROVE  \E r : /\ Becomes(w, r)
                  /\ r.pc = label /\ r.login = req[w].login /\ r.i = req[w].i
                  /\ r.seen = req[w].seen /\ r.new = req[w].new
<1> DEFINE r == [req[w] EXCEPT !.pc = label]
<1>1. req[w] \in Requests /\ Proper(req[w])
    BY DEF Served
<1>2. /\ r \in Requests
      /\ r.pc = label /\ r.login = req[w].login /\ r.i = req[w].i
      /\ r.seen = req[w].seen /\ r.new = req[w].new
    BY <1>1 DEF Requests
<1>3. req' = [req EXCEPT ![w] = r]
    BY Zenon DEF Goto
<1> HIDE DEF r
<1>4. Proper(r)
    BY <1>1, <1>2 DEF Proper
<1> QED BY <1>2, <1>3, <1>4 DEF Becomes

-----------------------------------------------------------------------------
(* What a step leaves of the parts of the invariant.                       *)

\* No request comes to hold a row: the row locks stay exclusive,
LEMMA ExclusiveStays ==
    ASSUME Exclusive,
           \A v \in Workers : req'[v].pc \in Holding => req'[v] = req[v]
    PROVE  Exclusive'
<1>1. ASSUME NEW v \in Workers, NEW k \in Keys
      PROVE  /\ HoldsKey(v, k)' => HoldsKey(v, k)
             /\ HoldsGap(v, k)' => HoldsGap(v, k)
             /\ WroteKey(v, k)' => WroteKey(v, k)
    BY DEF HoldsKey, HoldsGap, WroteKey, Key, Holding
<1> QED BY <1>1 DEF Exclusive

\* and if besides no row held is changed, what was read is still there.
LEMMA RowsReadStay ==
    ASSUME RowsRead, now \in Nat, now' \in Nat, now' >= now,
           \A v \in Workers : req'[v].pc \in Holding =>
               req'[v] = req[v] /\ rec'[Key(v)] = rec[Key(v)]
    PROVE  RowsRead'
<1>1. ASSUME NEW v \in Workers, req'[v].pc \in Holding
      PROVE  req'[v] = req[v] /\ Key(v)' = Key(v) /\ rec'[Key(v)'] = rec[Key(v)]
    BY <1>1 DEF Key
<1>2. ASSUME NEW v \in Workers, req'[v].pc = "write"
      PROVE  req'[v].seen = rec'[Key(v)']
    <2>1. req'[v] = req[v] /\ rec'[Key(v)'] = rec[Key(v)]
        BY <1>1, <1>2 DEF Holding
    <2> QED BY <1>2, <2>1 DEF RowsRead
<1>3. ASSUME NEW v \in Workers, req'[v].pc \in {"account", "commit"}
      PROVE  \E t \in 0..now' : req'[v].new = Failed(rec'[Key(v)'], t)
    <2>1. req'[v] = req[v] /\ rec'[Key(v)'] = rec[Key(v)]
        BY <1>1, <1>3 DEF Holding
    <2>2. PICK t \in 0..now : req[v].new = Failed(rec[Key(v)], t)
        BY <1>3, <2>1 DEF RowsRead
    <2>3. t \in 0..now'
        OBVIOUS
    <2>4. req'[v].new = Failed(rec'[Key(v)'], t)
        BY <2>1, <2>2
    <2> QED BY <2>3, <2>4
<1>4. RowsRead' <=> \A w \in Workers :
        /\ req'[w].pc = "write" => req'[w].seen = rec'[Key(w)']
        /\ req'[w].pc \in {"account", "commit"}
              => \E t \in 0..now' : req'[w].new = Failed(rec'[Key(w)'], t)
    BY DEF RowsRead, Failed, LockoutFor
<1> QED BY <1>2, <1>3, <1>4

\* The set of requests past their check of a key is finite.
LEMMA PassedIsFinite ==
    ASSUME NEW S \in SUBSET Workers
    PROVE  /\ IsFiniteSet(S) /\ Cardinality(S) \in Nat
           /\ Cardinality(Workers) \in Nat
           /\ \A T \in SUBSET S : Cardinality(T) \in Nat /\ Cardinality(T) <= Cardinality(S)
           /\ S # Workers => Cardinality(S) < Cardinality(Workers)
<1>1. IsFiniteSet(Workers)
    BY GuardAssumptions
<1>2. IsFiniteSet(S)
    BY <1>1, FS_Subset
<1> QED BY <1>1, <1>2, FS_Subset, FS_CardinalityType

\* A step that neither sets a lock nor verifies a password lets no one in,
LEMMA LateStays ==
    ASSUME LateInv, UNCHANGED <<rec, now, late>>, late \in [Keys -> Nat],
           \A k \in Keys : LockedNow(k) => Passed(k)' \subseteq Passed(k)
    PROVE  LateInv'
<1>1. ASSUME NEW k \in Keys PROVE LateAt(k)'
    <2>1. LockedNow(k)' = LockedNow(k) /\ late'[k] = late[k] /\ late[k] \in Nat
        BY DEF LockedNow, LockedUntil
    <2>2. CASE ~LockedNow(k)
        BY <2>1, <2>2 DEF LateInv, LateAt
    <2>3. CASE LockedNow(k)
        <3>1. Passed(k)' \subseteq Passed(k) /\ Passed(k) \in SUBSET Workers
            BY <2>3 DEF Passed
        <3>2. /\ Cardinality(Passed(k)') <= Cardinality(Passed(k))
              /\ Cardinality(Passed(k)') \in Nat /\ Cardinality(Passed(k)) \in Nat
              /\ Cardinality(Workers) \in Nat
            BY <3>1, PassedIsFinite
        <3>3. late[k] + Cardinality(Passed(k)) < Cardinality(Workers)
            BY <2>3 DEF LateInv, LateAt
        <3>4. late'[k] + Cardinality(Passed(k)') < Cardinality(Workers)
            BY <2>1, <3>2, <3>3
        <3> QED BY <2>1, <2>3, <3>4 DEF LateAt
    <2> QED BY <2>2, <2>3
<1> QED BY <1>1 DEF LateInv

\* and one that lets locks end, or sets one, as long as the request that sets
\* it is not past its own check.
LEMMA LateRelocks ==
    ASSUME LateInv, Tables, Tables', late' = Relock(rec', now'),
           \A k \in Keys : LockedNow(k)' =>
               \/ LockedNow(k) /\ Passed(k)' \subseteq Passed(k)
               \/ ~LockedNow(k) /\ \E w \in Workers : w \notin Passed(k)'
    PROVE  LateInv'
<1>1. ASSUME NEW k \in Keys PROVE LateAt(k)'
    <2>1. late'[k] = IF rec'[k] # None /\ rec'[k].until > now' THEN late[k] ELSE 0
        BY DEF Relock
    <2>2. LockedNow(k)' <=> rec'[k] # None /\ rec'[k].until > now'
        <3>1. now' \in Nat
            BY DEF Tables
        <3> QED BY <3>1 DEF LockedNow, LockedUntil, NoTime
    <2>3. CASE ~LockedNow(k)'
        BY <2>1, <2>2, <2>3 DEF LateAt
    <2>4. CASE LockedNow(k)' /\ LockedNow(k) /\ Passed(k)' \subseteq Passed(k)
        <3>1. Passed(k) \in SUBSET Workers
            BY DEF Passed
        <3>2. /\ Cardinality(Passed(k)') <= Cardinality(Passed(k))
              /\ Cardinality(Passed(k)') \in Nat /\ Cardinality(Passed(k)) \in Nat
              /\ Cardinality(Workers) \in Nat
            BY <2>4, <3>1, PassedIsFinite
        <3>3. late[k] + Cardinality(Passed(k)) < Cardinality(Workers)
            BY <2>4 DEF LateInv, LateAt
        <3>4. late'[k] = late[k] /\ late[k] \in Nat
            BY <2>1, <2>2, <2>4 DEF Tables
        <3>5. late'[k] + Cardinality(Passed(k)') < Cardinality(Workers)
            BY <3>2, <3>3, <3>4
        <3> QED BY <2>4, <3>5 DEF LateAt
    <2>5. CASE LockedNow(k)' /\ ~LockedNow(k) /\ \E w \in Workers : w \notin Passed(k)'
        <3>1. Passed(k)' \in SUBSET Workers /\ Passed(k)' # Workers
            BY <2>5 DEF Passed
        <3>2. /\ Cardinality(Passed(k)') < Cardinality(Workers)
              /\ Cardinality(Passed(k)') \in Nat /\ Cardinality(Workers) \in Nat
            BY <3>1, PassedIsFinite
        <3>3. late'[k] = 0
            BY <2>1, <2>2, <2>5 DEF LateInv, LateAt
        <3>4. late'[k] + Cardinality(Passed(k)') < Cardinality(Workers)
            BY <3>2, <3>3
        <3> QED BY <2>5, <3>4 DEF LateAt
    <2> QED BY <2>3, <2>4, <2>5
<1> QED BY <1>1 DEF LateInv

LEMMA PassedShrinks ==
    ASSUME Served, NEW w \in Workers, NEW r, Becomes(w, r), NEW k \in Keys,
           Past(r, k) => Past(req[w], k)
    PROVE  Passed(k)' \subseteq Passed(k)
<1>1. req'[w] = r /\ \A v \in Workers \ {w} : req'[v] = req[v]
    BY ServedMoves
<1>2. ASSUME NEW v \in Workers, Past(req'[v], k) PROVE Past(req[v], k)
    BY <1>1, <1>2
<1>3. Passed(k)' = {v \in Workers : Past(req'[v], k)}
    BY DEF Passed, Past
<1> QED BY <1>2, <1>3 DEF Passed

\* Rows that only disappear, or keep their count, lock no one.
LEMMA FullTallyStays ==
    ASSUME FullTallyLocksAccount, UNCHANGED <<status, edited>>,
           \A k \in Keys : rec'[k] = None \/ (rec[k] # None /\ rec'[k].count = rec[k].count)
    PROVE  FullTallyLocksAccount'
BY DEF FullTallyLocksAccount

-----------------------------------------------------------------------------
(* Every action keeps the invariant.                                       *)

LEMMA TypesOfTime ==
    ASSUME Tables
    PROVE  now \in Nat /\ MaxTime \in Nat /\ now <= MaxTime
BY GuardAssumptions DEF Tables

\* A step of one request that changes no row and lets no one past a lock.
LEMMA QuietMove ==
    ASSUME IInv, NEW w \in Workers, NEW r, Becomes(w, r), r.pc \notin Holding, Tables',
           UNCHANGED <<rec, now, late, status, edited>>,
           \A k \in Keys : LockedNow(k) /\ Past(r, k) => Past(req[w], k)
    PROVE  IInv'
<1>1. /\ Served' /\ req'[w] = r
      /\ \A v \in Workers \ {w} : req'[v] = req[v]
    BY ServedMoves DEF IInv
<1>2. \A v \in Workers : req'[v].pc \in Holding => req'[v] = req[v] /\ rec'[Key(v)] = rec[Key(v)]
    BY <1>1
<1>3. Exclusive'
    BY <1>2, ExclusiveStays DEF IInv
<1>4. RowsRead'
    BY <1>2, RowsReadStay, TypesOfTime DEF IInv
<1>5. LateInv'
    <2>1. \A k \in Keys : LockedNow(k) => Passed(k)' \subseteq Passed(k)
        BY PassedShrinks DEF IInv
    <2> QED BY <2>1, LateStays DEF IInv, Tables
<1>6. FullTallyLocksAccount'
    BY FullTallyStays DEF IInv
<1> QED BY <1>1, <1>3, <1>4, <1>5, <1>6 DEF IInv

LEMMA StartKeeps ==
    ASSUME IInv, NEW w \in Workers, NEW l \in Logins, Start(w, l)
    PROVE  IInv'
<1> DEFINE r == Fresh("check", l, 1)
<1>1. KeysOf[l] \in Seq(DOMAIN Locks) /\ KeysOf[l] # << >>
    BY GuardAssumptions
<1>2. 1 \in 1..Len(KeysOf[l]) /\ DOMAIN KeysOf[l] = 1..Len(KeysOf[l])
    BY <1>1
<1>3. Becomes(w, r)
    BY <1>2, FreshIsProper DEF Start, Fresh, Becomes, PCs
<1>4. r.pc = "check" /\ r.login = l /\ r.i = 1
    BY FreshFields
<1>5. \A k \in Keys : ~Past(r, k)
    <2> HIDE DEF r
    <2> QED BY <1>2, <1>4 DEF Past
<1>6. Tables'
    BY GuardAssumptions DEF IInv, Tables, Start
<1> HIDE DEF r
<1> QED BY <1>3, <1>4, <1>5, <1>6, QuietMove DEF Start, Holding

\* At its next key a request is past the keys it was past, and this one.
LEMMA PastNext ==
    ASSUME Served, NEW w \in Workers, req[w].pc \in {"check", "clear"},
           NEW r, NEW k \in Keys, Past(r, k),
           \/ r = Fresh("check", req[w].login, req[w].i + 1)
           \/ r = Fresh("verify", req[w].login, 1) /\ req[w].i = Len(KeysOf[req[w].login])
           \/ r = Idle
    PROVE  Past(req[w], k) \/ k = Key(w)
<1> DEFINE l == req[w].login
<1>1. /\ l \in Logins /\ req[w].i \in 1..Len(KeysOf[l]) /\ Len(KeysOf[l]) \in Nat
      /\ DOMAIN KeysOf[l] = 1..Len(KeysOf[l])
    BY KeyIsKey
<1>2. r # Idle
    BY DEF Past, Idle
<1>3. PICK j \in DOMAIN KeysOf[l] : KeysOf[l][j] = k /\ j <= req[w].i
    <2>1. CASE r = Fresh("check", l, req[w].i + 1)
        <3>1. r.pc = "check" /\ r.login = l /\ r.i = req[w].i + 1
            BY <2>1, FreshFields
        <3>2. PICK j \in DOMAIN KeysOf[l] : KeysOf[l][j] = k /\ j < req[w].i + 1
            BY <3>1 DEF Past
        <3> QED BY <1>1, <3>2
    <2>2. CASE r = Fresh("verify", l, 1) /\ req[w].i = Len(KeysOf[l])
        <3>1. r.pc = "verify" /\ r.login = l
            BY <2>2, FreshFields
        <3>2. PICK j \in DOMAIN KeysOf[l] : KeysOf[l][j] = k
            BY <3>1 DEF Past
        <3> QED BY <1>1, <2>2, <3>2
    <2> QED BY <1>2, <2>1, <2>2
<1>4. CASE j = req[w].i
    BY <1>3, <1>4 DEF Key
<1>5. CASE j < req[w].i
    BY <1>1, <1>3, <1>5 DEF Past
<1> QED BY <1>1, <1>3, <1>4, <1>5

\* What NextKey makes of a request that checks its keys.
LEMMA NextCheck ==
    ASSUME Served, NEW w \in Workers, req[w].pc \in {"check", "clear"},
           NextKey(w, "check", "verify")
    PROVE  \E r : /\ Becomes(w, r) /\ r.pc \notin Holding
                  /\ \A k \in Keys : Past(r, k) => Past(req[w], k) \/ k = Key(w)
<1>1. PICK r : /\ Becomes(w, r)
               /\ \/ r = Fresh("check", req[w].login, req[w].i + 1)
                  \/ r = Fresh("verify", req[w].login, 1)
                     /\ req[w].i = Len(KeysOf[req[w].login])
    BY NextKeyGoes
<1>2. r.pc \notin Holding
    BY <1>1, FreshFields DEF Holding
<1>3. \A k \in Keys : Past(r, k) => Past(req[w], k) \/ k = Key(w)
    BY <1>1, PastNext
<1> QED BY <1>1, <1>2, <1>3

LEMMA CheckKeyKeeps ==
    ASSUME IInv, NEW w \in Workers, CheckKey(w)
    PROVE  IInv'
<1>1. Served /\ Tables /\ Tables' /\ req[w].pc = "check"
    BY DEF IInv, Tables, CheckKey
<1>2. CASE Return(w)
    <2>1. Becomes(w, Idle)
        BY <1>2, IdleIsProper DEF Return, Becomes
    <2>2. Idle.pc \notin Holding /\ \A k \in Keys : ~Past(Idle, k)
        BY DEF Idle, Holding, Past
    <2> QED BY <1>1, <2>1, <2>2, QuietMove DEF CheckKey
<1>3. CASE LockedUntil(Key(w)) = NoTime /\ NextKey(w, "check", "verify")
    <2>1. PICK r : /\ Becomes(w, r) /\ r.pc \notin Holding
                   /\ \A k \in Keys : Past(r, k) => Past(req[w], k) \/ k = Key(w)
        BY <1>1, <1>3, NextCheck
    <2>2. ~LockedNow(Key(w))
        BY <1>1, <1>3, TypesOfTime DEF LockedNow, NoTime
    <2> QED BY <1>1, <2>1, <2>2, QuietMove DEF CheckKey
<1>4. CASE LockedUntil(Key(w)) \in 0..now /\ Goto(w, "clear")
    <2>1. PICK r : /\ Becomes(w, r)
                   /\ r.pc = "clear" /\ r.login = req[w].login /\ r.i = req[w].i
        BY <1>1, <1>4, GotoGoes DEF PCs
    <2>2. ~LockedNow(Key(w))
        BY <1>1, <1>4, TypesOfTime DEF LockedNow
    <2>3. ASSUME NEW k \in Keys, Past(r, k) PROVE Past(req[w], k) \/ k = Key(w)
        <3>1. /\ req[w].i \in 1..Len(KeysOf[r.login]) /\ Len(KeysOf[r.login]) \in Nat
              /\ DOMAIN KeysOf[r.login] = 1..Len(KeysOf[r.login])
            BY <1>1, <2>1, KeyIsKey
        <3>2. PICK j \in DOMAIN KeysOf[r.login] : KeysOf[r.login][j] = k /\ j <= req[w].i
            BY <2>1, <2>3 DEF Past
        <3>3. j = req[w].i \/ j < req[w].i
            BY <3>1, <3>2
        <3> QED BY <1>1, <2>1, <3>2, <3>3 DEF Past, Key
    <2>4. r.pc \notin Holding
        BY <2>1 DEF Holding
    <2> QED BY <1>1, <2>1, <2>2, <2>3, <2>4, QuietMove DEF CheckKey
<1> QED BY <1>2, <1>3, <1>4 DEF CheckKey

LEMMA FailAbortsKeeps ==
    ASSUME IInv, NEW w \in Workers, FailAborts(w)
    PROVE  IInv'
<1>1. Served /\ Tables /\ Tables' /\ req[w].pc # "idle"
    BY DEF IInv, Tables, FailAborts
<1>2. PICK r : Becomes(w, r) /\ r.pc \in {"fail", "idle"}
    <2>1. NextKey(w, "fail", "idle")
        BY DEF FailAborts
    <2> QED BY <1>1, <2>1, NextKeyGoes, FreshFields, IdleIsProper
<1>3. r.pc \notin Holding /\ \A k \in Keys : ~Past(r, k)
    BY <1>2 DEF Holding, Past
<1> QED BY <1>1, <1>2, <1>3, QuietMove DEF FailAborts

\* Verifying a password moves one request from those that may still do so.
LEMMA VerifyKeeps ==
    ASSUME IInv, NEW w \in Workers, Verify(w)
    PROVE  IInv'
<1>1. Served /\ Tables /\ req[w].pc = "verify"
    BY DEF IInv, Verify
<1>2. Tables'
    <2>1. late' \in [Keys -> Nat]
        BY <1>1 DEF Verify, Tables
    <2> QED BY <1>1, <2>1 DEF Verify, Tables
<1>3. PICK r : Becomes(w, r) /\ r.pc \in {"fail", "success"}
    BY <1>1, GotoGoes DEF Verify, PCs
<1>4. /\ Served' /\ req'[w] = r
      /\ \A v \in Workers \ {w} : req'[v] = req[v]
    BY <1>1, <1>3, ServedMoves
<1>5. \A v \in Workers : req'[v].pc \in Holding => req'[v] = req[v] /\ rec'[Key(v)] = rec[Key(v)]
    BY <1>3, <1>4 DEF Verify, Holding
<1>6. Exclusive'
    BY <1>5, ExclusiveStays DEF IInv
<1>7. RowsRead'
    BY <1>1, <1>5, RowsReadStay, TypesOfTime DEF IInv, Verify
<1>8. FullTallyLocksAccount'
    BY FullTallyStays DEF IInv, Verify
<1>9. ASSUME NEW k \in Keys PROVE LateAt(k)'
    <2>1. LockedNow(k)' = LockedNow(k)
        BY DEF LockedNow, LockedUntil, Verify
    <2>2. CASE ~LockedNow(k)
        <3>1. late'[k] = late[k]
            BY <2>2 DEF Verify
        <3> QED BY <2>1, <2>2, <3>1 DEF IInv, LateInv, LateAt
    <2>3. CASE LockedNow(k)
        <3>1. late[k] + Cardinality(Passed(k)) < Cardinality(Workers) /\ late[k] \in Nat
            BY <1>1, <2>3 DEF IInv, LateInv, LateAt, Tables
        <3>2. w \notin Passed(k)' /\ Passed(k)' \subseteq Passed(k)
            <4>1. ~Past(r, k)
                BY <1>3 DEF Past
            <4>2. w \notin Passed(k)'
                <5>1. Passed(k)' = {v \in Workers : Past(req'[v], k)}
                    BY DEF Passed, Past
                <5> QED BY <1>4, <4>1, <5>1
            <4> QED BY <1>1, <1>3, <4>1, <4>2, PassedShrinks
        <3>3. Passed(k) \in SUBSET Workers
            BY DEF Passed
        <3>4. /\ Cardinality(Passed(k)') \in Nat /\ Cardinality(Passed(k)) \in Nat
              /\ Cardinality(Workers) \in Nat
              /\ Cardinality(Passed(k)') <= Cardinality(Passed(k))
            BY <3>2, <3>3, PassedIsFinite
        <3>5. late'[k] + Cardinality(Passed(k)') < Cardinality(Workers)
            <4>1. CASE k \in {KeysOf[req[w].login][j] : j \in DOMAIN KeysOf[req[w].login]}
                <5>1. w \in Passed(k)
                    BY <1>1, <4>1 DEF Passed, Past
                <5>2. Passed(k)' \in SUBSET Passed(k) /\ Passed(k)' # Passed(k)
                    BY <3>2, <5>1
                <5>3. Cardinality(Passed(k)') < Cardinality(Passed(k))
                    BY <3>3, <5>2, PassedIsFinite, FS_Subset
                <5>4. late'[k] = late[k] + 1
                    BY <2>3, <4>1 DEF Verify
                <5> QED BY <3>1, <3>4, <5>3, <5>4
            <4>2. CASE k \notin {KeysOf[req[w].login][j] : j \in DOMAIN KeysOf[req[w].login]}
                <5>1. late'[k] = late[k]
                    BY <4>2 DEF Verify
                <5> QED BY <3>1, <3>4, <5>1
            <4> QED BY <4>1, <4>2
        <3> QED BY <2>1, <2>3, <3>5 DEF LateAt
    <2> QED BY <2>2, <2>3
<1> QED BY <1>2, <1>4, <1>6, <1>7, <1>8, <1>9 DEF IInv, LateInv

\* A row that a failure is at work on and does not hold is missing.
LEMMA MissingRow ==
    ASSUME RowsRead, NEW v \in Workers, req[v].pc \in Holding, ~HoldsKey(v, Key(v))
    PROVE  rec[Key(v)] = None
BY DEF RowsRead, HoldsKey, WroteKey, Holding

\* A step of one request that changes rows no other holds, and sets no lock.
LEMMA RowMove ==
    ASSUME IInv, NEW w \in Workers, NEW r, Becomes(w, r), r.pc \notin Holding, Tables',
           UNCHANGED <<now, status, edited>>, late' = Relock(rec', now),
           \A v \in Workers \ {w} : req[v].pc \in Holding => rec'[Key(v)] = rec[Key(v)],
           \A k \in Keys : rec'[k] = None \/ (rec[k] # None /\ rec'[k].count = rec[k].count),
           \A k \in Keys : LockedNow(k)' => /\ LockedNow(k)
                                            /\ Past(r, k) => Past(req[w], k)
    PROVE  IInv'
<1>1. /\ Served' /\ req'[w] = r
      /\ \A v \in Workers \ {w} : req'[v] = req[v]
    BY ServedMoves DEF IInv
<1>2. \A v \in Workers : req'[v].pc \in Holding => req'[v] = req[v] /\ rec'[Key(v)] = rec[Key(v)]
    BY <1>1
<1>3. Exclusive'
    BY <1>2, ExclusiveStays DEF IInv
<1>4. RowsRead'
    BY <1>2, RowsReadStay, TypesOfTime DEF IInv
<1>5. LateInv'
    <2>1. \A k \in Keys : LockedNow(k)' => LockedNow(k) /\ Passed(k)' \subseteq Passed(k)
        BY PassedShrinks DEF IInv
    <2>2. late' = Relock(rec', now')
        OBVIOUS
    <2> QED BY <2>1, <2>2, LateRelocks DEF IInv
<1>6. FullTallyLocksAccount'
    BY FullTallyStays DEF IInv
<1> QED BY <1>1, <1>3, <1>4, <1>5, <1>6 DEF IInv

LEMMA RelockIsTyped ==
    ASSUME late \in [Keys -> Nat], NEW r, NEW t
    PROVE  Relock(r, t) \in [Keys -> Nat]
BY DEF Relock

LEMMA ClearLockKeeps ==
    ASSUME IInv, NEW w \in Workers, ClearLock(w)
    PROVE  IInv'
<1> DEFINE c == [rec[Key(w)] EXCEPT !.until = NoTime]
<1>1. Served /\ Tables /\ RowsRead /\ req[w].pc = "clear" /\ Key(w) \in Keys
    BY KeyIsKey DEF IInv, ClearLock
<1>2. PICK k \in Keys : k = Key(w)
    BY <1>1
<1>3. \/ UNCHANGED rec
      \/ /\ KeyFree(w, k) /\ rec[k] # None
         /\ rec' = [rec EXCEPT ![k] = c]
    BY <1>2 DEF ClearLock
<1>4. rec[k] # None => c \in Rows /\ c.count = rec[k].count /\ c.until = NoTime
    BY <1>1, <1>2 DEF Tables, Rows
<1> HIDE DEF c
<1>5. Tables'
    <2>1. rec' \in [Keys -> Rows \cup {None}]
        BY <1>1, <1>3, <1>4 DEF Tables
    <2>2. late' \in [Keys -> Nat]
        BY <1>1, RelockIsTyped DEF ClearLock, Tables
    <2> QED BY <1>1, <2>1, <2>2 DEF ClearLock, Tables
<1>6. PICK r : /\ Becomes(w, r) /\ r.pc \notin Holding
               /\ \A q \in Keys : Past(r, q) => Past(req[w], q) \/ q = k
    BY <1>1, <1>2, NextCheck DEF ClearLock
<1>7. ASSUME NEW v \in Workers \ {w}, req[v].pc \in Holding
      PROVE  rec'[Key(v)] = rec[Key(v)]
    <2>1. CASE Key(v) # k
        <3>1. Key(v) \in Keys
            BY <1>1, <1>7, KeyIsKey DEF Holding
        <3> QED BY <1>1, <1>3, <2>1, <3>1 DEF Tables
    <2>2. CASE Key(v) = k /\ KeyFree(w, k) /\ rec[k] # None
        <3>1. ~HoldsKey(v, Key(v))
            BY <2>2 DEF KeyFree
        <3>2. rec[Key(v)] = None
            BY <1>1, <1>7, <3>1, MissingRow
        <3> QED BY <2>2, <3>2
    <2> QED BY <1>3, <2>1, <2>2
<1>8. \A q \in Keys : rec'[q] = None \/ (rec[q] # None /\ rec'[q].count = rec[q].count)
    BY <1>1, <1>3, <1>4 DEF Tables
<1>9. ASSUME NEW q \in Keys, LockedNow(q)'
      PROVE  LockedNow(q) /\ (Past(r, q) => Past(req[w], q))
    <2>1. now' = now /\ now \in Nat
        BY <1>1, TypesOfTime DEF ClearLock
    <2>2. CASE rec'[q] = rec[q] /\ q # k
        BY <1>6, <1>9, <2>1, <2>2 DEF LockedNow, LockedUntil
    <2>3. CASE q = k /\ UNCHANGED rec
        <3>1. LockedNow(q)
            BY <1>9, <2>1, <2>3 DEF LockedNow, LockedUntil
        <3>2. Past(req[w], q)
            <4>1. req[w].i \in DOMAIN KeysOf[req[w].login] /\ req[w].i <= req[w].i
                BY <1>1, KeyIsKey
            <4> QED BY <1>1, <1>2, <2>3, <4>1 DEF Past, Key
        <3> QED BY <3>1, <3>2
    <2>4. CASE q = k /\ rec[k] # None /\ rec' = [rec EXCEPT ![k] = c]
        <3>1. rec'[q] = c
            BY <1>1, <2>4 DEF Tables
        <3>2. c.until = NoTime /\ c # None
            BY <1>4, <2>4, RowsAreRows
        <3> QED BY <1>9, <2>1, <3>1, <3>2 DEF LockedNow, LockedUntil, NoTime
    <2> QED BY <1>1, <1>3, <2>2, <2>3, <2>4 DEF Tables
<1> QED BY <1>5, <1>6, <1>7, <1>8, <1>9, RowMove DEF ClearLock

LEMMA SuccessKeeps ==
    ASSUME IInv, NEW w \in Workers, Success(w)
    PROVE  IInv'
<1>1. Served /\ Tables /\ RowsRead /\ req[w].pc = "success" /\ Key(w) \in Keys
    BY KeyIsKey DEF IInv, Success
<1>2. PICK k \in Keys : k = Key(w)
    BY <1>1
<1>3. \/ UNCHANGED rec
      \/ KeyFree(w, k) /\ rec' = [rec EXCEPT ![k] = None]
    BY <1>2 DEF Success
<1>4. Tables'
    <2>1. rec' \in [Keys -> Rows \cup {None}]
        BY <1>1, <1>3 DEF Tables
    <2>2. late' \in [Keys -> Nat]
        BY <1>1, RelockIsTyped DEF Success, Tables
    <2> QED BY <1>1, <2>1, <2>2 DEF Success, Tables
<1>5. PICK r : Becomes(w, r) /\ r.pc \in {"success", "idle"}
    <2>1. NextKey(w, "success", "idle")
        BY DEF Success
    <2> QED BY <1>1, <2>1, NextKeyGoes, FreshFields, IdleIsProper
<1>6. r.pc \notin Holding /\ \A q \in Keys : ~Past(r, q)
    BY <1>5 DEF Holding, Past
<1>7. ASSUME NEW v \in Workers \ {w}, req[v].pc \in Holding
      PROVE  rec'[Key(v)] = rec[Key(v)]
    <2>1. CASE Key(v) # k
        <3>1. Key(v) \in Keys
            BY <1>1, <1>7, KeyIsKey DEF Holding
        <3> QED BY <1>1, <1>3, <2>1, <3>1 DEF Tables
    <2>2. CASE Key(v) = k /\ KeyFree(w, k) /\ rec' = [rec EXCEPT ![k] = None]
        <3>1. ~HoldsKey(v, Key(v))
            BY <2>2 DEF KeyFree
        <3>2. rec[Key(v)] = None
            BY <1>1, <1>7, <3>1, MissingRow
        <3> QED BY <1>1, <2>2, <3>2 DEF Tables
    <2> QED BY <1>3, <2>1, <2>2
<1>8. \A q \in Keys : rec'[q] = None \/ rec'[q] = rec[q]
    BY <1>1, <1>3 DEF Tables
<1>9. \A q \in Keys : LockedNow(q)' => LockedNow(q)
    BY <1>1, <1>8, TypesOfTime DEF LockedNow, LockedUntil, NoTime, Success
<1> QED BY <1>4, <1>5, <1>6, <1>7, <1>8, <1>9, RowMove DEF Success

\* A step of one request inside the transaction that records its failure: the
\* row it comes to hold, or to find missing, is free, and is as it was read.
LEMMA FailMove ==
    ASSUME IInv, NEW w \in Workers, NEW r, Becomes(w, r), r.pc \in Holding, Tables',
           UNCHANGED <<rec, now, late, status, edited>>,
           NEW k \in Keys, k = KeysOf[r.login][r.i],
           \A v \in Workers \ {w} :
               /\ r.pc \in {"account", "commit"} => ~HoldsKey(v, k) /\ ~HoldsGap(v, k)
               /\ r.pc = "write" /\ r.seen # None => ~HoldsKey(v, k)
               /\ r.pc = "write" /\ r.seen = None => ~WroteKey(v, k),
           r.pc = "write" => r.seen = rec[k],
           r.pc \in {"account", "commit"} => \E t \in 0..now : r.new = Failed(rec[k], t)
    PROVE  IInv'
<1>1. /\ Served' /\ req'[w] = r
      /\ \A v \in Workers \ {w} : req'[v] = req[v]
    BY ServedMoves DEF IInv
<1>2. /\ Key(w)' = k
      /\ \A v \in Workers \ {w} : Key(v)' = Key(v)
    BY <1>1 DEF Key
<1>3. Exclusive'
    <2>1. ASSUME NEW v \in Workers \ {w}, NEW q \in Keys
          PROVE  /\ HoldsKey(v, q)' <=> HoldsKey(v, q)
                 /\ HoldsGap(v, q)' <=> HoldsGap(v, q)
                 /\ WroteKey(v, q)' <=> WroteKey(v, q)
        BY <1>1, <1>2 DEF HoldsKey, HoldsGap, WroteKey
    <2>2. ASSUME NEW q \in Keys
          PROVE  /\ HoldsKey(w, q)' => q = k /\ (r.pc = "write" => r.seen # None)
                 /\ HoldsGap(w, q)' => q = k /\ r.pc = "write" /\ r.seen = None
                 /\ WroteKey(w, q)' => q = k /\ r.pc \in {"account", "commit"}
        BY <1>1, <1>2 DEF HoldsKey, HoldsGap, WroteKey
    <2>3. ASSUME NEW v \in Workers \ {w}, NEW q \in Keys
          PROVE  /\ HoldsKey(w, q)' => ~HoldsKey(v, q)'
                 /\ HoldsKey(v, q)' => ~HoldsKey(w, q)'
                 /\ HoldsGap(w, q)' => ~WroteKey(v, q)'
                 /\ HoldsGap(v, q)' => ~WroteKey(w, q)'
        BY <2>1, <2>2 DEF Holding
    <2>4. ASSUME NEW v \in Workers \ {w}, NEW u \in Workers \ {w}, u # v, NEW q \in Keys
          PROVE  /\ HoldsKey(u, q)' => ~HoldsKey(v, q)'
                 /\ HoldsGap(u, q)' => ~WroteKey(v, q)'
        BY <2>1, <2>4 DEF IInv, Exclusive
    <2>5. ASSUME NEW u \in Workers, NEW v \in Workers \ {u}, NEW q \in Keys
          PROVE  /\ HoldsKey(u, q)' => ~HoldsKey(v, q)'
                 /\ HoldsGap(u, q)' => ~WroteKey(v, q)'
        BY <2>3, <2>4
    <2> QED BY <2>5 DEF Exclusive
<1>4. RowsRead'
    <2>1. ASSUME NEW v \in Workers
          PROVE  /\ req'[v].pc = "write" => req'[v].seen = rec'[Key(v)']
                 /\ req'[v].pc \in {"account", "commit"}
                       => \E t \in 0..now' : req'[v].new = Failed(rec'[Key(v)'], t)
        <3>1. CASE v = w
            <4>1. req'[v] = r /\ rec'[Key(v)'] = rec[k] /\ now' = now
                BY <1>1, <1>2, <3>1
            <4> QED BY <4>1
        <3>2. CASE v # w
            <4>1. req'[v] = req[v] /\ rec'[Key(v)'] = rec[Key(v)] /\ now' = now
                BY <1>1, <1>2, <3>2
            <4> QED BY <4>1 DEF IInv, RowsRead
        <3> QED BY <3>1, <3>2
    <2> QED BY <2>1 DEF RowsRead, Failed, LockoutFor
<1>5. LateInv'
    <2>1. \A q \in Keys : ~Past(r, q)
        BY DEF Past, Holding
    <2>2. \A q \in Keys : LockedNow(q) => Passed(q)' \subseteq Passed(q)
        BY <2>1, PassedShrinks DEF IInv
    <2> QED BY <2>2, LateStays DEF IInv, Tables
<1>6. FullTallyLocksAccount'
    BY FullTallyStays DEF IInv
<1> QED BY <1>1, <1>3, <1>4, <1>5, <1>6 DEF IInv

LEMMA FailReadKeeps ==
    ASSUME IInv, NEW w \in Workers, FailRead(w)
    PROVE  IInv'
<1>1. Served /\ Tables /\ req[w].pc = "fail" /\ Key(w) \in Keys
    BY KeyIsKey DEF IInv, FailRead
<1>2. PICK k \in Keys : k = Key(w)
    BY <1>1
<1>3. PICK row : row = rec[k]
    OBVIOUS
<1> DEFINE r == [[req[w] EXCEPT !.pc = "write"] EXCEPT !.seen = row]
<1>4. req[w] \in Requests /\ Proper(req[w]) /\ row \in Rows \cup {None}
    BY <1>1, <1>3 DEF Served, Tables
<1>5. /\ r \in Requests
      /\ r.pc = "write" /\ r.login = req[w].login /\ r.i = req[w].i
      /\ r.seen = row /\ r.new = req[w].new
    BY <1>4 DEF Requests, PCs
<1>6. req' = [req EXCEPT ![w] = r]
    BY <1>1, <1>2, <1>3, <1>4 DEF FailRead, Served, Requests
<1> HIDE DEF r
<1>7. Becomes(w, r)
    BY <1>1, <1>4, <1>5, <1>6 DEF Proper, Becomes
<1>8. Tables'
    BY <1>1 DEF Tables, FailRead
<1>9. k = KeysOf[r.login][r.i]
    BY <1>2, <1>5 DEF Key
<1>10. \A v \in Workers \ {w} : ~HoldsKey(v, k) /\ ~WroteKey(v, k)
    BY <1>2 DEF FailRead, KeyFree, HoldsKey
<1> QED BY <1>3, <1>5, <1>7, <1>8, <1>9, <1>10, FailMove DEF FailRead, Holding

LEMMA FailWriteKeeps ==
    ASSUME IInv, NEW w \in Workers, FailWrite(w)
    PROVE  IInv'
<1>1. /\ Served /\ Tables /\ RowsRead /\ Exclusive
      /\ req[w].pc = "write" /\ Key(w) \in Keys
    BY KeyIsKey DEF IInv, FailWrite
<1>2. PICK k \in Keys : k = Key(w)
    BY <1>1
<1>3. /\ req[w] \in Requests /\ Proper(req[w]) /\ req[w].seen = rec[k]
      /\ req[w].seen \in Rows \cup {None} /\ now \in 0..MaxTime
    BY <1>1, <1>2 DEF Served, Tables, RowsRead, Requests
<1>4. PICK new \in Rows : new = Failed(req[w].seen, now) /\ new # None
    BY <1>3, FailedIsRow
<1>5. PICK label \in {"account", "commit"} :
          label = IF new.count >= Limit /\ Locks[k] # None THEN "account" ELSE "commit"
    OBVIOUS
<1> DEFINE r == [[req[w] EXCEPT !.new = new] EXCEPT !.pc = label]
<1>6. /\ r \in Requests
      /\ r.pc = label /\ r.login = req[w].login /\ r.i = req[w].i
      /\ r.seen = req[w].seen /\ r.new = new
    BY <1>3 DEF Requests, PCs
<1>7. req' = [req EXCEPT ![w] = r]
    BY <1>1, <1>2, <1>3, <1>4, <1>5 DEF FailWrite, Served, Requests
<1> HIDE DEF r
<1>8. Becomes(w, r)
    BY <1>1, <1>3, <1>4, <1>6, <1>7 DEF Proper, Becomes
<1>9. Tables'
    BY <1>1 DEF Tables, FailWrite
<1>10. k = KeysOf[r.login][r.i]
    BY <1>2, <1>6 DEF Key
<1>11. ASSUME NEW v \in Workers \ {w} PROVE ~HoldsKey(v, k) /\ ~HoldsGap(v, k)
    <2>1. ~WroteKey(v, k) /\ (req[w].seen = None => ~HoldsGap(v, k))
        BY <1>2 DEF FailWrite
    <2>2. req[v].pc = "write" /\ Key(v) = k => req[v].seen = req[w].seen
        BY <1>1, <1>3 DEF RowsRead
    <2>3. req[w].seen # None => HoldsKey(w, k)
        BY <1>1, <1>2 DEF HoldsKey
    <2>4. HoldsKey(w, k) => ~HoldsKey(v, k)
        BY <1>1 DEF Exclusive
    <2>5. ~HoldsKey(v, k)
        BY <2>1, <2>2, <2>3, <2>4 DEF HoldsKey
    <2>6. ~HoldsGap(v, k)
        BY <2>1, <2>2 DEF HoldsGap
    <2> QED BY <2>5, <2>6
<1>12. \E t \in 0..now : r.new = Failed(rec[k], t)
    <2>1. now \in 0..now /\ r.new = Failed(rec[k], now)
        BY <1>1, <1>3, <1>4, <1>6, TypesOfTime
    <2> QED BY <2>1
<1>13. r.pc \in {"account", "commit"} /\ r.pc \in Holding
    BY <1>6 DEF Holding
<1>14. UNCHANGED <<rec, now, late, status, edited>>
    BY DEF FailWrite
<1> QED BY <1>8, <1>9, <1>10, <1>11, <1>12, <1>13, <1>14, FailMove

LEMMA FailLocksAccountKeeps ==
    ASSUME IInv, NEW w \in Workers, FailLocksAccount(w)
    PROVE  IInv'
<1>1. /\ Served /\ Tables /\ RowsRead /\ Exclusive
      /\ req[w].pc = "account" /\ Key(w) \in Keys
    BY KeyIsKey DEF IInv, FailLocksAccount
<1>2. PICK k \in Keys : k = Key(w)
    BY <1>1
<1>3. PICK r : /\ Becomes(w, r)
               /\ r.pc = "commit" /\ r.login = req[w].login /\ r.i = req[w].i
               /\ r.new = req[w].new
    BY <1>1, GotoGoes DEF FailLocksAccount, PCs
<1>4. Tables'
    BY <1>1 DEF Tables, FailLocksAccount
<1>5. k = KeysOf[r.login][r.i]
    BY <1>2, <1>3 DEF Key
<1>6. WroteKey(w, k) /\ HoldsKey(w, k)
    BY <1>1, <1>2 DEF WroteKey, HoldsKey
<1>7. ASSUME NEW v \in Workers \ {w} PROVE ~HoldsKey(v, k) /\ ~HoldsGap(v, k)
    BY <1>1, <1>6 DEF Exclusive
<1>8. \E t \in 0..now : r.new = Failed(rec[k], t)
    BY <1>1, <1>2, <1>3 DEF RowsRead
<1>9. UNCHANGED <<rec, now, late, status, edited>>
    BY DEF FailLocksAccount
<1> QED BY <1>3, <1>4, <1>5, <1>7, <1>8, <1>9, FailMove DEF Holding

\* The committed failure: its row is written, and the account is locked with it
\* if the tally is full.
LEMMA FailCommitKeeps ==
    ASSUME IInv, NEW w \in Workers, FailCommit(w)
    PROVE  IInv'
<1>1. /\ Served /\ Tables /\ RowsRead /\ Exclusive
      /\ req[w].pc = "commit" /\ Key(w) \in Keys
    BY KeyIsKey DEF IInv, FailCommit
<1>2. PICK k \in Keys : k = Key(w)
    BY <1>1
<1>3. PICK new \in Rows : new = req[w].new
    BY <1>1 DEF Served, Proper, Requests
<1>4. PICK full \in BOOLEAN : full <=> new.count >= Limit /\ Locks[k] # None
    OBVIOUS
<1>5. full <=> LocksAccount(w)
    BY <1>2, <1>3, <1>4, RowsAreRows DEF LocksAccount
<1>6. /\ rec' = [rec EXCEPT ![k] = new]
      /\ status' = [a \in Accounts |-> IF full /\ a = Locks[k] /\ status[a] = "active"
                                       THEN "locked" ELSE status[a]]
      /\ edited' = IF full THEN edited \ {Locks[k]} ELSE edited
      /\ late' = Relock(rec', now)
      /\ UNCHANGED <<now, unlock, attempts, changes>>
    BY <1>2, <1>3, <1>5 DEF FailCommit
<1>7. PICK r : Becomes(w, r) /\ r.pc \in {"fail", "idle"}
    <2>1. NextKey(w, "fail", "idle")
        BY DEF FailCommit
    <2> QED BY <1>1, <2>1, NextKeyGoes, FreshFields, IdleIsProper
<1>8. /\ Served' /\ req'[w] = r
      /\ \A v \in Workers \ {w} : req'[v] = req[v]
    BY <1>1, <1>7, ServedMoves
<1>9. Tables'
    <2>1. rec' \in [Keys -> Rows \cup {None}]
        BY <1>1, <1>6 DEF Tables
    <2>2. status' \in [Accounts -> {"active", "locked", "disabled"}]
        BY <1>1, <1>6 DEF Tables
    <2>3. late' \in [Keys -> Nat]
        BY <1>1, <1>6, RelockIsTyped DEF Tables
    <2>4. edited' \subseteq Accounts
        BY <1>1, <1>6 DEF Tables
    <2> QED BY <1>1, <1>6, <2>1, <2>2, <2>3, <2>4 DEF Tables
<1>10. WroteKey(w, k) /\ HoldsKey(w, k)
    BY <1>1, <1>2 DEF WroteKey, HoldsKey
<1>11. ASSUME NEW v \in Workers, req'[v].pc \in Holding
       PROVE  req'[v] = req[v] /\ rec'[Key(v)] = rec[Key(v)]
    <2>1. v # w /\ req'[v] = req[v]
        BY <1>7, <1>8, <1>11 DEF Holding
    <2>2. ~HoldsKey(v, k) /\ ~HoldsGap(v, k)
        BY <1>1, <1>10, <2>1 DEF Exclusive
    <2>3. Key(v) # k
        BY <1>11, <2>1, <2>2 DEF HoldsKey, HoldsGap, WroteKey, Holding
    <2>4. Key(v) \in Keys
        BY <1>1, <1>11, <2>1, KeyIsKey DEF Holding
    <2> QED BY <1>1, <1>6, <2>1, <2>3, <2>4 DEF Tables
<1>12. Exclusive'
    BY <1>1, <1>11, ExclusiveStays
<1>13. RowsRead'
    BY <1>1, <1>6, <1>11, RowsReadStay, TypesOfTime
<1>14. LateInv'
    <2>1. \A q \in Keys : ~Past(r, q)
        BY <1>7 DEF Past
    <2>2. \A q \in Keys : Passed(q)' \subseteq Passed(q) /\ w \notin Passed(q)'
        <3>1. \A q \in Keys : Passed(q)' = {v \in Workers : Past(req'[v], q)}
            BY DEF Passed, Past
        <3> QED BY <1>1, <1>7, <1>8, <2>1, <3>1, PassedShrinks
    <2>3. late' = Relock(rec', now')
        BY <1>6
    <2> QED BY <1>9, <2>2, <2>3, LateRelocks DEF IInv
<1>15. ASSUME NEW q \in Keys, rec'[q] # None, Locks[q] # None, rec'[q].count >= Limit
       PROVE  status'[Locks[q]] # "active" \/ Locks[q] \in edited'
    <2>1. Locks[q] \in Accounts
        BY <1>15, GuardAssumptions
    <2>2. CASE q = k
        <3>1. rec'[q] = new
            BY <1>1, <1>6, <2>2 DEF Tables
        <3>2. full
            BY <1>4, <1>15, <2>2, <3>1
        <3> QED BY <1>1, <1>6, <2>1, <2>2, <3>2 DEF Tables
    <2>3. CASE q # k
        <3>1. rec'[q] = rec[q]
            BY <1>1, <1>6, <2>3 DEF Tables
        <3>2. status[Locks[q]] # "active" \/ Locks[q] \in edited
            BY <1>15, <3>1 DEF IInv, FullTallyLocksAccount
        <3>3. CASE full /\ Locks[q] = Locks[k]
            BY <1>6, <2>1, <3>3
        <3>4. CASE ~(full /\ Locks[q] = Locks[k])
            BY <1>6, <2>1, <3>2, <3>4
        <3> QED BY <3>3, <3>4
    <2> QED BY <2>2, <2>3
<1>16. FullTallyLocksAccount'
    BY <1>15 DEF FullTallyLocksAccount
<1> QED BY <1>8, <1>9, <1>12, <1>13, <1>14, <1>16 DEF IInv

\* A step of the administrator or of the clock, that changes no row at which a
\* failure is at work.
LEMMA OthersKeep ==
    ASSUME IInv, UNCHANGED req, Tables', now' >= now,
           \A v \in Workers : req[v].pc \in Holding => rec'[Key(v)] = rec[Key(v)],
           LateInv', FullTallyLocksAccount'
    PROVE  IInv'
<1>1. Served'
    BY DEF IInv, Served
<1>2. \A v \in Workers : req'[v].pc \in Holding => req'[v] = req[v] /\ rec'[Key(v)] = rec[Key(v)]
    OBVIOUS
<1>3. now \in Nat /\ now' \in Nat
    BY GuardAssumptions DEF IInv, Tables
<1>4. Exclusive'
    BY <1>2, ExclusiveStays DEF IInv
<1>5. RowsRead'
    BY <1>2, <1>3, RowsReadStay DEF IInv
<1> QED BY <1>1, <1>4, <1>5 DEF IInv

LEMMA PassedSame ==
    ASSUME UNCHANGED req, NEW k \in Keys
    PROVE  Passed(k)' = Passed(k)
<1>1. \A v \in Workers : req'[v] = req[v]
    OBVIOUS
<1> QED BY <1>1 DEF Passed, Past

\* No row is new and no row is locked that was not: locks only end.
LEMMA LocksOnlyEnd ==
    ASSUME IInv, UNCHANGED req, Tables', late' = Relock(rec', now'), now' >= now,
           \A k \in Keys : rec'[k] = None \/ rec'[k] = rec[k]
    PROVE  LateInv'
<1>1. now \in Nat /\ now' \in Nat
    BY GuardAssumptions DEF IInv, Tables
<1>2. ASSUME NEW k \in Keys, LockedNow(k)' PROVE LockedNow(k)
    <2>1. rec'[k] # None /\ rec'[k].until > now'
        BY <1>1, <1>2 DEF LockedNow, LockedUntil, NoTime
    <2>2. rec[k] # None /\ rec[k].until > now'
        BY <2>1
    <2>3. rec[k].until \in Int
        BY <2>2 DEF IInv, Tables, Rows, NoTime
    <2> QED BY <1>1, <2>2, <2>3 DEF LockedNow, LockedUntil
<1> QED BY <1>2, PassedSame, LateRelocks DEF IInv

LEMMA UnlockBeginKeeps ==
    ASSUME IInv, NEW d \in Admins, NEW a \in Accounts, UnlockBegin(d, a)
    PROVE  IInv'
<1>1. Tables'
    BY GuardAssumptions DEF IInv, Tables, UnlockBegin
<1>2. /\ UNCHANGED <<rec, status, now, req, edited, late>>
      /\ now \in Nat
    BY TypesOfTime DEF UnlockBegin, IInv
<1>3. LateInv'
    BY <1>2, PassedSame, LateStays DEF IInv, Tables
<1>4. FullTallyLocksAccount'
    BY <1>2, FullTallyStays DEF IInv
<1> QED BY <1>1, <1>2, <1>3, <1>4, OthersKeep

LEMMA UnlockAbortsKeeps ==
    ASSUME IInv, NEW d \in Admins, UnlockAborts(d)
    PROVE  IInv'
<1>1. Tables'
    BY DEF IInv, Tables, UnlockAborts
<1>2. /\ UNCHANGED <<rec, status, now, req, edited, late>>
      /\ now \in Nat
    BY TypesOfTime DEF UnlockAborts, IInv
<1>3. LateInv'
    BY <1>2, PassedSame, LateStays DEF IInv, Tables
<1>4. FullTallyLocksAccount'
    BY <1>2, FullTallyStays DEF IInv
<1> QED BY <1>1, <1>2, <1>3, <1>4, OthersKeep

LEMMA UnlockCommitsKeeps ==
    ASSUME IInv, NEW d \in Admins, UnlockCommits(d)
    PROVE  IInv'
<1>1. Tables /\ Served /\ RowsRead
    BY DEF IInv
<1>2. PICK a \in Accounts : a = unlock[d]
    BY <1>1 DEF Tables, UnlockCommits
<1>3. /\ \A w \in Workers, k \in Keys : ~HoldsKey(w, k)
      /\ status' = [status EXCEPT ![a] = "active"]
      /\ rec' = [k \in Keys |-> IF k \in OwnedBy[a] THEN None ELSE rec[k]]
      /\ late' = Relock(rec', now)
      /\ edited' = edited \ {a}
      /\ unlock' = [unlock EXCEPT ![d] = None]
      /\ UNCHANGED <<now, req, attempts, changes>>
    BY <1>2 DEF UnlockCommits
<1>4. Tables'
    <2>1. late' \in [Keys -> Nat]
        BY <1>1, <1>3, RelockIsTyped DEF Tables
    <2>2. rec' \in [Keys -> Rows \cup {None}]
        BY <1>1, <1>3 DEF Tables
    <2> QED BY <1>1, <1>3, <2>1, <2>2 DEF Tables
<1>5. now \in Nat /\ now' = now
    BY <1>1, <1>3, TypesOfTime
<1>6. LateInv'
    <2>1. \A k \in Keys : rec'[k] = None \/ rec'[k] = rec[k]
        BY <1>3
    <2> QED BY <1>3, <1>4, <1>5, <2>1, LocksOnlyEnd
<1>7. ASSUME NEW v \in Workers, req[v].pc \in Holding
      PROVE  rec'[Key(v)] = rec[Key(v)]
    <2>1. PICK q \in Keys : q = Key(v)
        BY <1>1, <1>7, KeyIsKey DEF Holding
    <2>2. rec[q] = None
        BY <1>1, <1>3, <1>7, <2>1, MissingRow
    <2> QED BY <1>3, <2>1, <2>2
<1>8. ASSUME NEW q \in Keys, rec'[q] # None, Locks[q] # None, rec'[q].count >= Limit
      PROVE  status'[Locks[q]] # "active" \/ Locks[q] \in edited'
    <2>1. q \notin OwnedBy[a] /\ rec'[q] = rec[q]
        BY <1>3, <1>8
    <2>2. Locks[q] \in Accounts /\ Locks[q] # a
        BY <1>8, <2>1, GuardAssumptions
    <2>3. status[Locks[q]] # "active" \/ Locks[q] \in edited
        BY <1>8, <2>1 DEF IInv, FullTallyLocksAccount
    <2> QED BY <1>1, <1>3, <2>2, <2>3 DEF Tables
<1>9. FullTallyLocksAccount'
    BY <1>8 DEF FullTallyLocksAccount
<1> QED BY <1>3, <1>4, <1>5, <1>6, <1>7, <1>9, OthersKeep

LEMMA UpdateUserKeeps ==
    ASSUME IInv, NEW a \in Accounts, NEW s \in {"active", "locked", "disabled"},
           UpdateUser(a, s)
    PROVE  IInv'
<1>1. Tables'
    BY GuardAssumptions DEF IInv, Tables, UpdateUser
<1>2. UNCHANGED <<rec, now, req, late>> /\ now \in Nat
    BY TypesOfTime DEF UpdateUser, IInv
<1>3. LateInv'
    BY <1>2, PassedSame, LateStays DEF IInv, Tables
<1>4. ASSUME NEW q \in Keys, rec[q] # None, Locks[q] # None, rec[q].count >= Limit
      PROVE  status'[Locks[q]] # "active" \/ Locks[q] \in edited'
    <2>1. Locks[q] \in Accounts
        BY <1>4, GuardAssumptions
    <2>2. status[Locks[q]] # "active" \/ Locks[q] \in edited
        BY <1>4 DEF IInv, FullTallyLocksAccount
    <2> QED BY <2>1, <2>2 DEF UpdateUser, IInv, Tables
<1>5. FullTallyLocksAccount'
    BY <1>2, <1>4 DEF FullTallyLocksAccount
<1> QED BY <1>1, <1>2, <1>3, <1>5, OthersKeep

LEMMA ClearLoginRateLimitKeeps ==
    ASSUME IInv, NEW k \in Keys, ClearLoginRateLimit(k)
    PROVE  IInv'
<1>1. Tables /\ Served /\ RowsRead
    BY DEF IInv
<1>2. Tables'
    <2>1. late' \in [Keys -> Nat]
        <3>1. late' = Relock(rec', now) /\ late \in [Keys -> Nat]
            BY <1>1 DEF Tables, ClearLoginRateLimit
        <3> QED BY <3>1, RelockIsTyped
    <2>2. rec' \in [Keys -> Rows \cup {None}]
        BY <1>1 DEF Tables, ClearLoginRateLimit
    <2>3. changes' \in 0..MaxChanges
        BY <1>1, GuardAssumptions DEF Tables, ClearLoginRateLimit
    <2>4. UNCHANGED <<status, now, unlock, edited, attempts>>
        BY DEF ClearLoginRateLimit
    <2> QED BY <1>1, <2>1, <2>2, <2>3, <2>4 DEF Tables
<1>3. UNCHANGED <<status, edited, now, req>> /\ now \in Nat
    BY <1>1, TypesOfTime DEF ClearLoginRateLimit
<1>4. \A q \in Keys : rec'[q] = None \/ rec'[q] = rec[q]
    BY <1>1 DEF ClearLoginRateLimit, Tables
<1>5. LateInv'
    BY <1>2, <1>3, <1>4, LocksOnlyEnd DEF ClearLoginRateLimit
<1>6. ASSUME NEW v \in Workers, req[v].pc \in Holding
      PROVE  rec'[Key(v)] = rec[Key(v)]
    <2>1. PICK q \in Keys : q = Key(v)
        BY <1>1, <1>6, KeyIsKey DEF Holding
    <2>2. CASE q = k
        <3>1. rec[q] = None
            BY <1>1, <1>6, <2>1, <2>2, MissingRow DEF ClearLoginRateLimit
        <3> QED BY <1>4, <2>1, <3>1
    <2>3. CASE q # k
        BY <1>1, <2>1, <2>3 DEF ClearLoginRateLimit, Tables
    <2> QED BY <2>2, <2>3
<1>7. FullTallyLocksAccount'
    BY <1>3, <1>4, FullTallyStays DEF IInv
<1> QED BY <1>2, <1>3, <1>5, <1>6, <1>7, OthersKeep

LEMMA TickKeeps ==
    ASSUME IInv, Tick
    PROVE  IInv'
<1>1. Tables /\ now \in Nat /\ now' = now + 1 /\ MaxTime \in Nat
    BY TypesOfTime DEF IInv, Tick
<1>2. Tables'
    <2>1. late' \in [Keys -> Nat]
        BY <1>1, RelockIsTyped DEF Tables, Tick
    <2>2. now' \in 0..MaxTime
        BY <1>1 DEF Tick
    <2> QED BY <1>1, <2>1, <2>2 DEF Tables, Tick
<1>3. UNCHANGED <<rec, status, edited, req>> /\ now' >= now
    BY <1>1 DEF Tick
<1>4. late' = Relock(rec', now')
    BY <1>1 DEF Tick, Relock
<1>5. LateInv'
    BY <1>2, <1>3, <1>4, LocksOnlyEnd
<1>6. FullTallyLocksAccount'
    BY <1>3, FullTallyStays DEF IInv
<1> QED BY <1>2, <1>3, <1>5, <1>6, OthersKeep

-----------------------------------------------------------------------------
(* The invariant, and what follows from it.                                *)

LEMMA InitIsSafe == Init => IInv
<1> SUFFICES ASSUME Init PROVE IInv
    OBVIOUS
<1>1. \A w \in Workers : req[w] = Idle /\ req[w].pc = "idle"
    BY DEF Init, Idle
<1>2. Tables
    BY GuardAssumptions DEF Init, Tables
<1>3. Served
    BY <1>1, IdleIsProper DEF Served, Init
<1>4. Exclusive /\ RowsRead
    BY <1>1 DEF Exclusive, RowsRead, HoldsKey, HoldsGap, WroteKey
<1>5. LateInv
    <2>1. \A k \in Keys : ~LockedNow(k) /\ late[k] = 0
        BY DEF Init, LockedNow, LockedUntil, NoTime
    <2> QED BY <2>1 DEF LateInv, LateAt
<1>6. FullTallyLocksAccount
    BY DEF Init, FullTallyLocksAccount
<1> QED BY <1>2, <1>3, <1>4, <1>5, <1>6 DEF IInv

LEMMA StepIsSafe == IInv /\ [Next]_vars => IInv'
<1> SUFFICES ASSUME IInv, [Next]_vars PROVE IInv'
    OBVIOUS
<1>1. CASE \E w \in Workers : Serve(w) \/ FailAborts(w)
    BY <1>1, CheckKeyKeeps, ClearLockKeeps, VerifyKeeps, SuccessKeeps, FailReadKeeps,
       FailWriteKeeps, FailLocksAccountKeeps, FailCommitKeeps, FailAbortsKeeps DEF Serve
<1>2. CASE \E w \in Workers, l \in Logins : Start(w, l)
    BY <1>2, StartKeeps
<1>3. CASE \E d \in Admins : UnlockCommits(d) \/ UnlockAborts(d)
    BY <1>3, UnlockCommitsKeeps, UnlockAbortsKeeps
<1>4. CASE \E d \in Admins, a \in Accounts : UnlockBegin(d, a)
    BY <1>4, UnlockBeginKeeps
<1>5. CASE \E a \in Accounts, s \in {"active", "locked", "disabled"} : UpdateUser(a, s)
    BY <1>5, UpdateUserKeeps
<1>6. CASE \E k \in Keys : ClearLoginRateLimit(k)
    BY <1>6, ClearLoginRateLimitKeeps
<1>7. CASE Tick
    BY <1>7, TickKeeps
<1>8. CASE UNCHANGED vars
    <2>1. UNCHANGED <<rec, status, now, req, unlock, edited, late, attempts, changes>>
        BY <1>8 DEF vars
    <2>2. Tables' /\ now \in Nat
        BY <2>1, TypesOfTime DEF IInv, Tables
    <2>3. LateInv'
        BY <2>1, PassedSame, LateStays DEF IInv, Tables
    <2>4. FullTallyLocksAccount'
        BY <2>1, FullTallyStays DEF IInv
    <2> QED BY <2>1, <2>2, <2>3, <2>4, OthersKeep
<1> QED BY <1>1, <1>2, <1>3, <1>4, <1>5, <1>6, <1>7, <1>8 DEF Next

LEMMA GuardSafe == Spec => []IInv
BY InitIsSafe, StepIsSafe, PTL DEF Spec

\* Rows, accounts and requests stay well formed: an attempt stands at a key of
\* its login, and has a row to commit exactly between its write and its commit.
THEOREM GuardTypes == Spec => []TypeOK
<1>1. IInv => TypeOK
    <2> SUFFICES ASSUME IInv PROVE TypeOK
        OBVIOUS
    <2>1. ASSUME NEW w \in Workers
          PROVE  /\ req[w].pc \in PCs
                 /\ req[w].pc # "idle" => /\ req[w].login \in Logins
                                          /\ req[w].i \in DOMAIN KeysOf[req[w].login]
                 /\ req[w].seen \in Rows \cup {None}
                 /\ req[w].new \in Rows \cup {None}
                 /\ (req[w].new # None) <=> (req[w].pc \in {"account", "commit"})
        <3>1. req[w] \in Requests /\ Proper(req[w])
            BY DEF IInv, Served
        <3> QED BY <3>1 DEF Requests, Proper
    <2> QED BY <2>1 DEF TypeOK, IInv, Tables
<1> QED BY <1>1, GuardSafe, PTL

\* While a tally stands at the limit its account is not active, unless an edit
\* has made it so, however failures, unlocks and edits interleave.
THEOREM FullTalliesLock == Spec => []FullTallyLocksAccount
<1>1. IInv => FullTallyLocksAccount
    BY DEF IInv
<1> QED BY <1>1, GuardSafe, PTL

\* During one lock of a key fewer passwords are verified against it than there
\* are requests in flight: AnyLocked can be late, but by no more than that.
THEOREM LateVerificationsAreFew == Spec => []LateVerificationsBounded
<1>1. IInv => LateVerificationsBounded
    <2> SUFFICES ASSUME IInv, NEW k \in Keys PROVE late[k] < Cardinality(Workers)
        BY DEF LateVerificationsBounded
    <2>1. late[k] \in Nat /\ LateAt(k)
        BY DEF IInv, Tables, LateInv
    <2>2. Passed(k) \in SUBSET Workers
        BY DEF Passed
    <2>3. Cardinality(Passed(k)) \in Nat /\ Cardinality(Workers) \in Nat
        BY <2>2, PassedIsFinite
    <2>4. Cardinality(Workers) # 0
        BY GuardAssumptions, FS_EmptySet
    <2> QED BY <2>1, <2>3, <2>4 DEF LateAt
<1> QED BY <1>1, GuardSafe, PTL

-----------------------------------------------------------------------------
(* The limiter counts as the in-memory LoginLimiter does.                  *)

CountOf(row) == IF row = None THEN None ELSE [count |-> row.count, first |-> row.first]

LEMMA TallyIs ==
    ASSUME Tables
    PROVE  /\ DOMAIN Tally = Keys
           /\ Tally = [k \in Keys |-> Tally[k]]
           /\ \A k \in Keys : Tally[k] = CountOf(rec[k]) /\ (Tally[k] = None <=> rec[k] = None)
<1>1. \A k \in Keys : rec[k] \in Rows \cup {None}
    BY DEF Tables
<1> QED BY <1>1, RowsAreRows DEF Tally, CountOf

\* A step that leaves every tally as it was.
LEMMA TallySame ==
    ASSUME \A k \in Keys : CountOf(rec'[k]) = CountOf(rec[k])
    PROVE  Tally' = Tally
BY DEF Tally, CountOf

\* A committed failure is the abstract one, at the time it read.
LEMMA CommitCounts ==
    ASSUME IInv, NEW w \in Workers, FailCommit(w)
    PROVE  \E k \in Keys, t \in 0..now : Counter!Fail(k, t)
<1>1. Tables /\ Served /\ req[w].pc = "commit"
    BY DEF IInv, FailCommit
<1>2. PICK k \in Keys : k = Key(w)
    BY <1>1, KeyIsKey
<1>3. PICK t \in 0..now : req[w].new = Failed(rec[k], t)
    BY <1>1, <1>2 DEF IInv, RowsRead
<1>4. PICK new : new = req[w].new
    OBVIOUS
<1>5. t \in 0..MaxTime /\ rec[k] \in Rows \cup {None}
    BY <1>1, TypesOfTime DEF Tables
<1> DEFINE restart == rec[k] = None \/ t - rec[k].first > Window
<1>6. /\ new \in Rows /\ new # None
      /\ new.count = IF restart THEN 1 ELSE rec[k].count + 1
      /\ new.first = IF restart THEN t ELSE rec[k].first
    BY <1>3, <1>4, <1>5, FailedIsRow
<1>7. rec' = [rec EXCEPT ![k] = new] /\ UNCHANGED now
    BY <1>2, <1>4 DEF FailCommit
<1>8. \A q \in Keys : rec'[q] = IF q = k THEN new ELSE rec[q]
    BY <1>1, <1>7 DEF Tables
<1>9. Tally' = [q \in Keys |-> IF q = k THEN [count |-> new.count, first |-> new.first]
                               ELSE Tally[q]]
    BY <1>6, <1>8 DEF Tally
<1>10. (Tally[k] = None \/ t - Tally[k].first > Window) <=> restart
    BY <1>1, TallyIs DEF CountOf
<1>11. ~restart => Tally[k].count = rec[k].count /\ Tally[k].first = rec[k].first
    BY <1>1, TallyIs DEF CountOf
<1> HIDE DEF restart
<1>12. [count |-> new.count, first |-> new.first] =
           IF Tally[k] = None \/ t - Tally[k].first > Window
           THEN [count |-> 1, first |-> t]
           ELSE [count |-> Tally[k].count + 1, first |-> Tally[k].first]
    BY <1>6, <1>10, <1>11
<1>13. Tally' = [Tally EXCEPT ![k] =
                    IF Tally[k] = None \/ t - Tally[k].first > Window
                    THEN [count |-> 1, first |-> t]
                    ELSE [count |-> Tally[k].count + 1, first |-> Tally[k].first]]
    BY <1>1, <1>9, <1>12, TallyIs
<1> QED BY <1>7, <1>13 DEF Counter!Fail

\* Rows that go are keys forgotten.
LEMMA RowsForgotten ==
    ASSUME Tables, NEW K \in SUBSET Keys, UNCHANGED now,
           rec' = [k \in Keys |-> IF k \in K THEN None ELSE rec[k]]
    PROVE  Counter!Forget(K)
BY DEF Tally, Counter!Forget

LEMMA StepCounts ==
    IInv /\ [Next]_vars => [Counter!Next]_<<Tally, now>>
<1> SUFFICES ASSUME IInv, [Next]_vars PROVE Counter!Next \/ UNCHANGED <<Tally, now>>
    OBVIOUS
<1>1. Tables /\ Served
    BY DEF IInv
<1>2. ASSUME UNCHANGED <<rec, now>> PROVE UNCHANGED <<Tally, now>>
    BY <1>2 DEF Tally
<1>3. ASSUME NEW K \in SUBSET Keys, Counter!Forget(K) PROVE Counter!Next
    BY <1>3 DEF Counter!Next
<1>4. ASSUME NEW k \in Keys, rec' = [rec EXCEPT ![k] = None], UNCHANGED now
      PROVE  Counter!Next
    <2>1. rec' = [q \in Keys |-> IF q \in {k} THEN None ELSE rec[q]]
        BY <1>1, <1>4 DEF Tables
    <2>2. Counter!Forget({k})
        BY <1>1, <1>4, <2>1, RowsForgotten
    <2> QED BY <1>3, <2>2
<1>5. ASSUME NEW w \in Workers, ClearLock(w) PROVE UNCHANGED <<Tally, now>>
    <2>1. PICK k \in Keys : k = Key(w)
        BY <1>1, <1>5, KeyIsKey DEF ClearLock
    <2>2. UNCHANGED rec \/ (rec[k] # None /\ rec' = [rec EXCEPT ![k].until = NoTime])
        BY <1>5, <2>1 DEF ClearLock
    <2>3. ASSUME NEW q \in Keys PROVE CountOf(rec'[q]) = CountOf(rec[q])
        <3>1. CASE rec[k] # None /\ rec' = [rec EXCEPT ![k].until = NoTime] /\ q = k
            <4>1. rec[k] \in Rows
                BY <1>1, <3>1 DEF Tables
            <4> DEFINE c == [rec[k] EXCEPT !.until = NoTime]
            <4>2. c \in Rows /\ c.count = rec[k].count /\ c.first = rec[k].first
                BY <4>1 DEF Rows
            <4>3. rec'[q] = c
                BY <1>1, <3>1 DEF Tables
            <4> HIDE DEF c
            <4> QED BY <3>1, <4>2, <4>3, RowsAreRows DEF CountOf
        <3>2. CASE rec'[q] = rec[q]
            BY <3>2
        <3> QED BY <1>1, <2>2, <3>1, <3>2 DEF Tables
    <2> QED BY <1>5, <2>3, TallySame DEF ClearLock
<1>6. ASSUME NEW w \in Workers, Success(w) PROVE Counter!Next \/ UNCHANGED <<Tally, now>>
    <2>1. PICK k \in Keys : k = Key(w)
        BY <1>1, <1>6, KeyIsKey DEF Success
    <2>2. UNCHANGED now /\ (UNCHANGED rec \/ rec' = [rec EXCEPT ![k] = None])
        BY <1>6, <2>1 DEF Success
    <2> QED BY <1>2, <1>4, <2>2
<1>7. ASSUME NEW w \in Workers, FailCommit(w) PROVE Counter!Next
    BY <1>7, CommitCounts DEF Counter!Next
<1>8. CASE \E w \in Workers : Serve(w) \/ FailAborts(w)
    BY <1>2, <1>5, <1>6, <1>7, <1>8
       DEF Serve, CheckKey, Verify, FailRead, FailWrite, FailLocksAccount, FailAborts
<1>9. CASE \E w \in Workers, l \in Logins : Start(w, l)
    BY <1>2, <1>9 DEF Start
<1>10. CASE \E d \in Admins : UnlockCommits(d) \/ UnlockAborts(d)
    <2>1. ASSUME NEW d \in Admins, UnlockCommits(d) PROVE Counter!Next
        <3>1. PICK a \in Accounts : a = unlock[d]
            BY <1>1, <2>1 DEF Tables, UnlockCommits
        <3>2. OwnedBy[a] \in SUBSET Keys
            BY GuardAssumptions
        <3>3. UNCHANGED now /\ rec' = [k \in Keys |-> IF k \in OwnedBy[a] THEN None ELSE rec[k]]
            BY <2>1, <3>1 DEF UnlockCommits
        <3> QED BY <1>1, <1>3, <3>2, <3>3, RowsForgotten
    <2> QED BY <1>2, <1>10, <2>1 DEF UnlockAborts
<1>11. CASE \E d \in Admins, a \in Accounts : UnlockBegin(d, a)
    BY <1>2, <1>11 DEF UnlockBegin
<1>12. CASE \E a \in Accounts, s \in {"active", "locked", "disabled"} : UpdateUser(a, s)
    BY <1>2, <1>12 DEF UpdateUser
<1>13. CASE \E k \in Keys : ClearLoginRateLimit(k)
    BY <1>4, <1>13 DEF ClearLoginRateLimit
<1>14. CASE Tick
    BY <1>14 DEF Tick, Tally, Counter!Next, Counter!Tick
<1>15. CASE UNCHANGED vars
    BY <1>2, <1>15 DEF vars
<1> QED BY <1>8, <1>9, <1>10, <1>11, <1>12, <1>13, <1>14, <1>15 DEF Next

LEMMA InitCounts == Init => Counter!Init
BY DEF Init, Counter!Init, Tally

\* The rows count what the in-memory limiter would: every failure committed adds
\* one to its key, and only a success or an administrator forgets a key,
\* although each call is several statements and calls run at the same time.
THEOREM CountingIsAtomic == Spec => CountsLikeLoginLimiter
<1>1. Init /\ [][Next]_vars /\ []IInv => Counter!Init /\ [][Counter!Next]_<<Tally, now>>
    BY InitCounts, StepCounts, PTL
<1> QED BY <1>1, GuardSafe, PTL DEF Spec, CountsLikeLoginLimiter, Counter!Spec
=============================================================================
