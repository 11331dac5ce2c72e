-------------------------- MODULE OperationsProofs --------------------------
(***************************************************************************)
(* Proofs about what the operator keeps and runs, for every list of        *)
(* scripts, releases, files and sources, every name, any number of loops   *)
(* and runs at once and whatever the bounds:                               *)
(*                                                                         *)
(*   Migrations    types; schema_migrations tells the truth                *)
(*   ConfigApply   types; an undisturbed run leaves no drift               *)
(*   LiveRestore   types; an undisturbed restore is whole                  *)
(*   Directory     types; no mailbox has two owners; the queries of the    *)
(*                 mail server agree                                       *)
(*   Provisioning  types; an apply leaves the zone it answered             *)
(*   HostNames     types; every name of a record or of an answer can be    *)
(*                 resolved; the certificate of a domain is the one wanted *)
(*   Retention     types; no archive that goes is missed                   *)
(*                                                                         *)
(* They share no state; the first three share lemmas about sequences.      *)
(***************************************************************************)
EXTENDS Migrations, ConfigApply, LiveRestore, Directory, Provisioning, HostNames,
        Retention, FiniteSetTheorems, WellFoundedInduction, TLAPS

-----------------------------------------------------------------------------
(* Sequences.                                                              *)

\* What is in a sequence is its head or in its tail.
LEMMA HeadOrTail ==
  ASSUME NEW X, NEW s \in Seq(X), s # << >>
  PROVE  /\ Head(s) \in X /\ Head(s) \in ToSet(s) /\ Tail(s) \in Seq(X)
         /\ \A x \in ToSet(s) : x = Head(s) \/ x \in ToSet(Tail(s))
<1>1. Len(s) \in Nat /\ Len(s) > 0 /\ DOMAIN s = 1..Len(s)
  OBVIOUS
<1>2. /\ Head(s) = s[1] /\ 1 \in DOMAIN s /\ s[1] \in X
      /\ Tail(s) \in Seq(X) /\ Len(Tail(s)) = Len(s) - 1
      /\ \A i \in 1..(Len(s) - 1) : Tail(s)[i] = s[i + 1]
  BY <1>1
<1>3. ASSUME NEW i \in DOMAIN s
      PROVE  s[i] = Head(s) \/ s[i] \in ToSet(Tail(s))
  <2>1. CASE i = 1
    BY <1>2, <2>1
  <2>2. CASE i # 1
    <3>1. i - 1 \in 1..(Len(s) - 1) /\ (i - 1) + 1 = i
      BY <1>1, <1>3, <2>2
    <3>2. i - 1 \in DOMAIN Tail(s) /\ Tail(s)[i - 1] = s[i]
      BY <1>2, <3>1
    <3> QED BY <3>2 DEF ToSet
  <2> QED BY <2>1, <2>2
<1> QED BY <1>2, <1>3 DEF ToSet

-----------------------------------------------------------------------------
(* Numbers.                                                                *)

\* Of numbers there is a least one, and of bounded ones a greatest.
LEMMA LeastNumber ==
    ASSUME NEW T, T \subseteq Nat, T # {}
    PROVE  \E x \in T : \A y \in T : x <= y
<1>1. \E x \in T : \A y \in T : ~ (<<y, x>> \in OpToRel(<, Nat))
  BY NatLessThanWellFounded, WFMin
<1>2. PICK x \in T : \A y \in T : ~ (<<y, x>> \in OpToRel(<, Nat))
  BY <1>1
<1>3. \A y \in T : x <= y
  <2> TAKE y \in T
  <2>1. x \in Nat /\ y \in Nat
    OBVIOUS
  <2>2. ~ (y < x)
    BY <1>2, <2>1 DEF OpToRel
  <2> QED BY <2>1, <2>2
<1> QED BY <1>3

LEMMA MinOfNumbers ==
    ASSUME NEW T, T \subseteq Nat, T # {}
    PROVE  Min(T) \in T
<1>1. \E x \in T : \A y \in T : x <= y
  BY LeastNumber
<1> QED BY <1>1 DEF Min

LEMMA MaxOfNumbers ==
    ASSUME NEW n \in Nat, NEW T, T \subseteq 0..n, T # {}
    PROVE  Max(T) \in T /\ \A y \in T : y <= Max(T)
<1> DEFINE U == {n - y : y \in T}
<1>1. \A y \in T : y \in Nat /\ n - y \in Nat /\ n - y \in U
  OBVIOUS
<1>2. U \subseteq Nat /\ U # {}
  BY <1>1
<1>3. PICK u \in U : \A w \in U : u <= w
  <2> HIDE DEF U
  <2> QED BY <1>2, LeastNumber
<1>4. PICK x \in T : u = n - x
  BY <1>3
<1>5. \A y \in T : x >= y
  <2> TAKE y \in T
  <2>1. n - x <= n - y /\ x \in Nat /\ y \in Nat
    BY <1>1, <1>3, <1>4
  <2> QED BY <2>1
<1> QED BY <1>5 DEF Max

-----------------------------------------------------------------------------
(* Migrations: the inductive invariant.                                    *)

\* Bookkeeping R is true of the tables S.
TruthOf(S, R) == \A v \in R : Applied(v, S) /\ InOrder(v, R)

\* A loop of release r that has reached script v, and n statements of it if e,
\* has left nothing out.
Progress(S, R, r, v, e, n) ==
    /\ \A u \in Releases[r] : u < v => u \in R
    /\ e => /\ v \in Releases[r]
            /\ \A i \in DOMAIN Scripts[v] : i <= n => <<v, i>> \in S
    /\ e => n <= Len(Scripts[v])

TablesTrue == ~torn => TruthOf(schema, recorded)

LoopsTrue ==
    ~torn => \A m \in Migrators :
      Looping(m) => Progress(schema, recorded, release[m], at[m], executing[m], done[m])

DumpsTrue ==
    \A d \in DOMAIN dumps : ~dumps[d].torn => TruthOf(dumps[d].schema, dumps[d].recorded)

\* While a dump is imported the tables are torn; if nothing else writes them,
\* what is not left to replace is as the dump has it.
ImportTrue ==
    importing # 0 =>
      /\ torn
      /\ alone => /\ \A m \in Migrators : ~Looping(m)
                  /\ \A s \in dumps[importing].schema :
                       Statement(s).table \notin left => s \in schema
                  /\ Bookkeeping \notin left => recorded = dumps[importing].recorded

MigrationsIInv == MigrationsTypeOK /\ TablesTrue /\ LoopsTrue /\ DumpsTrue /\ ImportTrue

-----------------------------------------------------------------------------
(* Migrations: scripts, and what only grows.                               *)

\* An element of a sequence.
LEMMA ElementOfSequence ==
  ASSUME NEW X, NEW q \in Seq(X), NEW i \in DOMAIN q
  PROVE  q[i] \in X
OBVIOUS

\* Versions are numbers, and so are the places in a script.
LEMMA ScriptFacts ==
  /\ Len(Scripts) \in Nat /\ Versions = 1..Len(Scripts) /\ 1 \in Versions
  /\ \A v \in Versions : /\ Len(Scripts[v]) \in Nat
                          /\ DOMAIN Scripts[v] = 1..Len(Scripts[v])
  /\ 1 \in DOMAIN Releases
  /\ \A r \in DOMAIN Releases : Releases[r] \subseteq Versions
BY MigrationsAssumptions DEF Versions, MigrationsAssumptions

\* More statements in effect make nothing untrue.
LEMMA TruthGrows ==
  ASSUME NEW S, NEW T, NEW R, TruthOf(S, R), S \subseteq T
  PROVE  TruthOf(T, R)
BY DEF TruthOf, Applied

\* More statements and more records leave no loop behind.
LEMMA ProgressGrows ==
  ASSUME NEW S, NEW T, NEW R, NEW Q, NEW r, NEW v, NEW e, NEW n,
         Progress(S, R, r, v, e, n), S \subseteq T, R \subseteq Q
  PROVE  Progress(T, Q, r, v, e, n)
BY DEF Progress

\* A loop that executed its whole script may record it.
LEMMA RecordIsTrue ==
  ASSUME NEW S, NEW R, NEW r \in DOMAIN Releases, NEW v \in Versions,
         TruthOf(S, R), Progress(S, R, r, v, TRUE, Len(Scripts[v]))
  PROVE  TruthOf(S, R \cup {v})
<1>1. Applied(v, S)
  BY ScriptFacts DEF Progress, Applied
<1>2. InOrder(v, R \cup {v})
  BY DEF Progress, InOrder
<1>3. ASSUME NEW u \in R
      PROVE  Applied(u, S) /\ InOrder(u, R \cup {v})
  BY <1>3 DEF TruthOf, InOrder
<1> QED BY <1>1, <1>2, <1>3 DEF TruthOf

\* A loop that goes on from a script that is recorded, or not its own.
LEMMA NextIsTrue ==
  ASSUME NEW S, NEW R, NEW r \in DOMAIN Releases, NEW v \in Versions, NEW e, NEW n,
         Progress(S, R, r, v, e, n), v \in R \/ v \notin Releases[r]
  PROVE  \A k : Progress(S, R, r, v + 1, FALSE, k)
<1>1. ASSUME NEW u \in Releases[r], u < v + 1
      PROVE  u \in R
  BY <1>1, ScriptFacts DEF Progress
<1> QED BY <1>1 DEF Progress

-----------------------------------------------------------------------------
(* Migrations: type correctness.                                           *)

\* Every step of a loop keeps the types.
LEMMA LoopTypeKeeps ==
  ASSUME MigrationsTypeOK, NEW m \in Migrators,
         BeginLoop(m) \/ Skip(m) \/ MigrationApplied(m) \/ Execute(m) \/ Record(m)
           \/ Abort(m)
  PROVE  MigrationsTypeOK'
<1> USE ScriptFacts DEF MigrationsTypeOK, loopVars, importVars
<1>1. ASSUME Advance(m), Looping(m)
      PROVE  /\ at' \in [Migrators -> {0} \cup Versions]
             /\ executing' \in [Migrators -> BOOLEAN]
  BY <1>1 DEF Advance, Looping
<1>2. CASE BeginLoop(m)
  <2>1. at' \in [Migrators -> {0} \cup Versions]
    BY <1>2 DEF BeginLoop
  <2>2. loops' \in 0..MaxLoops
    BY <1>2, MigrationsAssumptions DEF BeginLoop, MigrationsAssumptions
  <2>3. /\ release' \in [Migrators -> DOMAIN Releases]
        /\ executing' \in [Migrators -> BOOLEAN] /\ alone' \in BOOLEAN
    BY <1>2 DEF BeginLoop
  <2>4. UNCHANGED <<schema, recorded, installed, done, dumps, importing, left, torn, imports>>
    BY <1>2 DEF BeginLoop
  <2> QED BY <2>1, <2>2, <2>3, <2>4
<1>3. CASE Skip(m)
  BY <1>1, <1>3 DEF Skip
<1>4. CASE MigrationApplied(m)
  BY <1>4 DEF MigrationApplied
<1>5. CASE Execute(m)
  <2>1. <<at[m], done[m] + 1>> \in Statements
    BY <1>5 DEF Execute, Looping, Statements
  <2>2. schema' \subseteq Statements
    BY <1>5, <2>1 DEF Execute
  <2>3. done' \in [Migrators -> Nat]
    BY <1>5 DEF Execute
  <2> QED BY <1>5, <2>2, <2>3 DEF Execute
<1>6. CASE Record(m)
  BY <1>1, <1>6 DEF Record, Looping
<1>7. CASE Abort(m)
  BY <1>7 DEF Abort
<1> QED BY <1>2, <1>3, <1>4, <1>5, <1>6, <1>7

\* The tables a set of statements is about.
LEMMA TablesOfStatements ==
  ASSUME NEW S \in SUBSET Statements
  PROVE  TablesIn(S) \subseteq Tables
<1>1. ASSUME NEW s \in S
      PROVE  Statement(s).table \in Tables
  <2>1. s[1] \in Versions /\ s[2] \in DOMAIN Scripts[s[1]]
    BY DEF Statements
  <2>2. PICK X : X = [table : Tables, kind : StatementKinds]
    OBVIOUS
  <2>3. Scripts[s[1]] \in Seq(X)
    BY <2>1, <2>2, MigrationsAssumptions DEF MigrationsAssumptions, Versions
  <2>4. Scripts[s[1]][s[2]] \in X
    BY <2>1, <2>3, ElementOfSequence
  <2> QED BY <2>2, <2>4 DEF Statement
<1> QED BY <1>1 DEF TablesIn

\* An element of the dumps.
LEMMA DumpType ==
  ASSUME MigrationsTypeOK, NEW d \in DOMAIN dumps
  PROVE  dumps[d].schema \subseteq Statements /\ dumps[d].recorded \subseteq Versions
           /\ dumps[d].torn \in BOOLEAN
<1>1. PICK X : X = [schema : SUBSET Statements, recorded : SUBSET Versions, torn : BOOLEAN]
  OBVIOUS
<1>2. dumps \in Seq(X)
  BY <1>1 DEF MigrationsTypeOK
<1>3. dumps[d] \in X
  BY <1>2, ElementOfSequence
<1> QED BY <1>1, <1>3

\* Every other step keeps them too.
LEMMA OtherTypeKeeps ==
  ASSUME MigrationsTypeOK,
         Upgrade \/ DumpDatabase \/ BeginImport \/ ImportTable \/ EndImport \/ FailImport
  PROVE  MigrationsTypeOK'
<1> USE DEF MigrationsTypeOK, loopVars, importVars
<1>1. CASE Upgrade
  <2>1. installed' \in DOMAIN Releases
    BY <1>1, MigrationsAssumptions DEF Upgrade, MigrationsAssumptions
  <2> QED BY <1>1, <2>1 DEF Upgrade
<1>2. CASE DumpDatabase
  <2> DEFINE dump == [schema |-> schema, recorded |-> recorded, torn |-> torn]
  <2>1. dump \in [schema : SUBSET Statements, recorded : SUBSET Versions, torn : BOOLEAN]
    OBVIOUS
  <2>2. dumps' = Append(dumps, dump)
    BY <1>2 DEF DumpDatabase
  <2> HIDE DEF dump
  <2>3. /\ dumps' \in Seq([schema : SUBSET Statements, recorded : SUBSET Versions,
                           torn : BOOLEAN])
        /\ DOMAIN dumps \subseteq DOMAIN dumps'
    BY <2>1, <2>2
  <2> QED BY <1>2, <2>3 DEF DumpDatabase
<1>3. CASE BeginImport
  <2>1. PICK d \in DOMAIN dumps :
          importing' = d /\ left' = TablesIn(dumps[d].schema) \cup {Bookkeeping}
    BY <1>3 DEF BeginImport
  <2>2. dumps[d].schema \in SUBSET Statements
    BY DumpType
  <2>3. left' \subseteq Tables \cup {Bookkeeping}
    BY <2>1, <2>2, TablesOfStatements
  <2>4. imports' \in 0..MaxImports
    BY <1>3, MigrationsAssumptions DEF BeginImport, MigrationsAssumptions
  <2>5. dumps' = dumps /\ alone' \in BOOLEAN /\ torn' \in BOOLEAN
    BY <1>3 DEF BeginImport
  <2> QED BY <1>3, <2>1, <2>3, <2>4, <2>5 DEF BeginImport
<1>4. CASE ImportTable
  <2>1. importing \in DOMAIN dumps
    BY <1>4 DEF ImportTable
  <2>2. /\ dumps[importing].schema \subseteq Statements
        /\ dumps[importing].recorded \subseteq Versions
    BY <2>1, DumpType
  <2>3. PICK t \in left :
          /\ left' = left \ {t}
          /\ recorded' = IF t = Bookkeeping THEN dumps[importing].recorded ELSE recorded
          /\ schema' = {s \in schema : Statement(s).table # t}
                         \cup {s \in dumps[importing].schema : Statement(s).table = t}
    BY <1>4 DEF ImportTable
  <2>4. schema' \subseteq Statements /\ recorded' \subseteq Versions
    BY <2>2, <2>3
  <2> QED BY <1>4, <2>3, <2>4 DEF ImportTable
<1>5. CASE EndImport
  <2>1. torn' \in BOOLEAN
    BY <1>5 DEF EndImport
  <2> QED BY <1>5, <2>1 DEF EndImport
<1>6. CASE FailImport
  BY <1>6 DEF FailImport
<1> QED BY <1>1, <1>2, <1>3, <1>4, <1>5, <1>6

\* Every step keeps the types.
LEMMA MigrationsTypeKeeps ==
  ASSUME MigrationsTypeOK, [MigrationsNext]_migrationsVars
  PROVE  MigrationsTypeOK'
<1>1. CASE UNCHANGED migrationsVars
  BY <1>1 DEF migrationsVars, loopVars, importVars, MigrationsTypeOK
<1> QED BY <1>1, LoopTypeKeeps, OtherTypeKeeps DEF MigrationsNext

-----------------------------------------------------------------------------
(* Migrations: the tables, the loops, the dumps and an import.             *)

\* What a step of a loop must keep, the types apart.
MigrationsKept == TablesTrue' /\ LoopsTrue' /\ DumpsTrue' /\ ImportTrue'

\* While an import is undisturbed no loop runs.
LEMMA LoopDisturbs ==
  ASSUME ImportTrue, NEW m \in Migrators, Looping(m),
         UNCHANGED <<dumps, importVars>>
  PROVE  ImportTrue'
BY DEF ImportTrue, importVars

\* A loop that starts has left nothing out.
LEMMA BeginLoopKeeps ==
  ASSUME MigrationsIInv, NEW m \in Migrators, BeginLoop(m)
  PROVE  MigrationsKept
<1> USE DEF MigrationsIInv
<1>1. TablesTrue' /\ DumpsTrue'
  BY DEF BeginLoop, TablesTrue, DumpsTrue
<1>2. LoopsTrue'
  <2> SUFFICES ASSUME ~torn, NEW k \in Migrators, Looping(k)'
               PROVE  Progress(schema, recorded, release'[k], at'[k], executing'[k], done[k])
    BY DEF BeginLoop, LoopsTrue
  <2>1. CASE k = m
    <3>1. at'[k] = 1 /\ executing'[k] = FALSE /\ release'[k] = installed
      BY <2>1 DEF BeginLoop, MigrationsTypeOK
    <3>2. \A u \in Releases[installed] : ~(u < 1)
      BY ScriptFacts DEF MigrationsTypeOK
    <3> QED BY <3>1, <3>2 DEF Progress
  <2>2. CASE k # m
    BY <2>2 DEF BeginLoop, LoopsTrue, Looping, MigrationsTypeOK
  <2> QED BY <2>1, <2>2
<1>3. ImportTrue'
  BY DEF BeginLoop, ImportTrue
<1> QED BY <1>1, <1>2, <1>3 DEF MigrationsKept

\* A loop that passes a script over.
LEMMA SkipKeeps ==
  ASSUME MigrationsIInv, NEW m \in Migrators, Skip(m)
  PROVE  MigrationsKept
<1> USE DEF MigrationsIInv
<1>1. TablesTrue' /\ DumpsTrue'
  BY DEF Skip, importVars, TablesTrue, DumpsTrue
<1>2. LoopsTrue'
  <2> SUFFICES ASSUME ~torn, NEW k \in Migrators, Looping(k)'
               PROVE  Progress(schema, recorded, release[k], at'[k], executing'[k], done[k])
    BY DEF Skip, importVars, LoopsTrue
  <2>1. CASE k = m
    <3>1. Progress(schema, recorded, release[m], at[m], executing[m], done[m])
      BY DEF Skip, LoopsTrue
    <3>2. at'[m] = at[m] + 1 /\ executing'[m] = FALSE
      BY <2>1, ScriptFacts DEF Skip, Advance, Looping, MigrationsTypeOK
    <3>3. \A n : Progress(schema, recorded, release[m], at[m] + 1, FALSE, n)
      BY <3>1, NextIsTrue DEF Skip, Looping, MigrationsTypeOK
    <3> QED BY <2>1, <3>2, <3>3
  <2>2. CASE k # m
    BY <2>2 DEF Skip, Advance, LoopsTrue, Looping, MigrationsTypeOK
  <2> QED BY <2>1, <2>2
<1>3. ImportTrue'
  BY LoopDisturbs DEF Skip
<1> QED BY <1>1, <1>2, <1>3 DEF MigrationsKept

\* A loop that finds a script unrecorded.
LEMMA AppliedKeeps ==
  ASSUME MigrationsIInv, NEW m \in Migrators, MigrationApplied(m)
  PROVE  MigrationsKept
<1> USE DEF MigrationsIInv
<1>1. TablesTrue' /\ DumpsTrue'
  BY DEF MigrationApplied, importVars, TablesTrue, DumpsTrue
<1>2. LoopsTrue'
  <2> SUFFICES ASSUME ~torn, NEW k \in Migrators, Looping(k)
               PROVE  Progress(schema, recorded, release[k], at[k], executing'[k], done'[k])
    BY DEF MigrationApplied, importVars, LoopsTrue, Looping
  <2>1. CASE k = m
    <3>1. Progress(schema, recorded, release[m], at[m], executing[m], done[m])
      BY DEF MigrationApplied, LoopsTrue
    <3>2. at[m] \in Releases[release[m]] /\ executing'[m] = TRUE /\ done'[m] = 0
      BY DEF MigrationApplied, MigrationsTypeOK
    <3>3. \A i \in DOMAIN Scripts[at[m]] : ~(i <= 0)
      BY ScriptFacts DEF MigrationApplied, Looping
    <3>4. 0 <= Len(Scripts[at[m]])
      BY ScriptFacts DEF MigrationApplied, Looping
    <3> QED BY <2>1, <3>1, <3>2, <3>3, <3>4 DEF Progress
  <2>2. CASE k # m
    BY <2>2 DEF MigrationApplied, LoopsTrue, MigrationsTypeOK
  <2> QED BY <2>1, <2>2
<1>3. ImportTrue'
  BY LoopDisturbs DEF MigrationApplied
<1> QED BY <1>1, <1>2, <1>3 DEF MigrationsKept

\* A loop that executes a statement.
LEMMA ExecuteKeeps ==
  ASSUME MigrationsIInv, NEW m \in Migrators, Execute(m)
  PROVE  MigrationsKept
<1> USE DEF MigrationsIInv
<1>1. schema' = schema \cup {<<at[m], done[m] + 1>>}
  BY DEF Execute
<1>2. TablesTrue'
  BY <1>1, TruthGrows DEF Execute, importVars, TablesTrue
<1>3. DumpsTrue'
  BY DEF Execute, importVars, DumpsTrue
<1>4. LoopsTrue'
  <2> SUFFICES ASSUME ~torn, NEW k \in Migrators, Looping(k)
               PROVE  Progress(schema', recorded, release[k], at[k], executing[k], done'[k])
    BY DEF Execute, importVars, LoopsTrue, Looping
  <2>1. Progress(schema', recorded, release[k], at[k], executing[k], done[k])
    BY <1>1, ProgressGrows DEF LoopsTrue
  <2>2. CASE k = m
    <3>1. done'[m] = done[m] + 1 /\ done[m] \in Nat /\ at[m] \in Versions
      BY DEF Execute, Looping, MigrationsTypeOK
    <3>2. done[m] + 1 <= Len(Scripts[at[m]])
      BY <3>1, ScriptFacts DEF Execute
    <3>3. \A i \in DOMAIN Scripts[at[m]] : i <= done[m] + 1 => <<at[m], i>> \in schema'
      <4> SUFFICES ASSUME NEW i \in DOMAIN Scripts[at[m]], i <= done[m] + 1
                   PROVE  <<at[m], i>> \in schema'
        OBVIOUS
      <4>1. i <= done[m] \/ i = done[m] + 1
        BY <3>1, ScriptFacts
      <4> QED BY <1>1, <2>1, <2>2, <4>1 DEF Progress, Execute
    <3> QED BY <2>1, <2>2, <3>1, <3>2, <3>3 DEF Progress
  <2>3. CASE k # m
    BY <2>1, <2>3 DEF Execute, MigrationsTypeOK
  <2> QED BY <2>2, <2>3
<1>5. ImportTrue'
  BY LoopDisturbs DEF Execute
<1> QED BY <1>2, <1>3, <1>4, <1>5 DEF MigrationsKept

\* A loop that records a script.
LEMMA RecordKeeps ==
  ASSUME MigrationsIInv, NEW m \in Migrators, Record(m)
  PROVE  MigrationsKept
<1> USE DEF MigrationsIInv
<1>1. /\ recorded' = recorded \cup {at[m]} /\ at[m] \in Versions
      /\ release[m] \in DOMAIN Releases
      /\ UNCHANGED <<schema, release, done, dumps, importVars>>
  BY DEF Record, Looping, MigrationsTypeOK
<1>2. ~torn => Progress(schema, recorded, release[m], at[m], TRUE, Len(Scripts[at[m]]))
  BY DEF Record, AllExecuted, LoopsTrue, MigrationsTypeOK
<1>3. TablesTrue'
  BY <1>1, <1>2, RecordIsTrue DEF TablesTrue, importVars
<1>4. DumpsTrue'
  BY <1>1 DEF DumpsTrue
<1>5. LoopsTrue'
  <2> SUFFICES ASSUME ~torn, NEW k \in Migrators, Looping(k)'
               PROVE  Progress(schema, recorded', release[k], at'[k], executing'[k], done[k])
    BY <1>1 DEF importVars, LoopsTrue
  <2>1. CASE k = m
    <3>1. Progress(schema, recorded', release[m], at[m], TRUE, Len(Scripts[at[m]]))
      BY <1>1, <1>2, ProgressGrows
    <3>2. at'[m] = at[m] + 1 /\ executing'[m] = FALSE
      BY <2>1, ScriptFacts DEF Record, Advance, Looping, MigrationsTypeOK
    <3>3. \A n : Progress(schema, recorded', release[m], at[m] + 1, FALSE, n)
      BY <1>1, <3>1, NextIsTrue
    <3> QED BY <2>1, <3>2, <3>3
  <2>2. CASE k # m
    <3>1. /\ Looping(k) /\ at'[k] = at[k] /\ executing'[k] = executing[k]
      BY <2>2 DEF Record, Advance, Looping, MigrationsTypeOK
    <3>2. Progress(schema, recorded, release[k], at[k], executing[k], done[k])
      BY <3>1 DEF LoopsTrue
    <3> QED BY <1>1, <3>1, <3>2, ProgressGrows
  <2> QED BY <2>1, <2>2
<1>6. ImportTrue'
  BY LoopDisturbs DEF Record
<1> QED BY <1>3, <1>4, <1>5, <1>6 DEF MigrationsKept

\* A loop that is cut off.
LEMMA AbortKeeps ==
  ASSUME MigrationsIInv, NEW m \in Migrators, Abort(m)
  PROVE  MigrationsKept
<1> USE DEF MigrationsIInv
<1>1. TablesTrue' /\ DumpsTrue'
  BY DEF Abort, importVars, TablesTrue, DumpsTrue
<1>2. LoopsTrue'
  <2> SUFFICES ASSUME ~torn, NEW k \in Migrators, Looping(k)'
               PROVE  Progress(schema, recorded, release[k], at'[k], executing'[k], done[k])
    BY DEF Abort, importVars, LoopsTrue
  <2>1. k # m
    BY ScriptFacts DEF Abort, Looping, MigrationsTypeOK
  <2> QED BY <2>1 DEF Abort, LoopsTrue, Looping, MigrationsTypeOK
<1>3. ImportTrue'
  BY LoopDisturbs DEF Abort
<1> QED BY <1>1, <1>2, <1>3 DEF MigrationsKept

\* A dump is true if the tables are.
LEMMA DumpDatabaseKeeps ==
  ASSUME MigrationsIInv, DumpDatabase
  PROVE  MigrationsKept
<1> USE DEF MigrationsIInv
<1> DEFINE dump == [schema |-> schema, recorded |-> recorded, torn |-> torn]
<1>1. /\ dumps \in Seq([schema : SUBSET Statements, recorded : SUBSET Versions, torn : BOOLEAN])
      /\ dumps' = Append(dumps, dump)
  BY DEF DumpDatabase, MigrationsTypeOK
<1>2. dump.schema = schema /\ dump.recorded = recorded /\ dump.torn = torn
  OBVIOUS
<1> HIDE DEF dump
<1>3. /\ DOMAIN dumps' = DOMAIN dumps \cup {Len(dumps) + 1}
      /\ \A d \in DOMAIN dumps : dumps'[d] = dumps[d]
      /\ dumps'[Len(dumps) + 1] = dump
  BY <1>1
<1>4. UNCHANGED <<schema, recorded, loopVars, importVars>>
  BY DEF DumpDatabase
<1>5. TablesTrue' /\ LoopsTrue'
  BY <1>4 DEF TablesTrue, LoopsTrue, Looping, loopVars, importVars
<1>6. DumpsTrue'
  <2> SUFFICES ASSUME NEW d \in DOMAIN dumps', ~dumps'[d].torn
               PROVE  TruthOf(dumps'[d].schema, dumps'[d].recorded)
    BY DEF DumpsTrue
  <2>1. CASE d \in DOMAIN dumps
    BY <1>3, <2>1 DEF DumpsTrue
  <2>2. CASE d = Len(dumps) + 1
    BY <1>2, <1>3, <2>2 DEF TablesTrue
  <2> QED BY <1>3, <2>1, <2>2
<1>7. ImportTrue'
  BY <1>3, <1>4 DEF ImportTrue, Looping, loopVars, importVars, MigrationsTypeOK
<1> QED BY <1>5, <1>6, <1>7 DEF MigrationsKept

\* An import that begins has every table of the dump yet to replace.
LEMMA BeginImportKeeps ==
  ASSUME MigrationsIInv, BeginImport
  PROVE  MigrationsKept
<1> USE DEF MigrationsIInv
<1>1. PICK d \in DOMAIN dumps :
        importing' = d /\ left' = TablesIn(dumps[d].schema) \cup {Bookkeeping}
  BY DEF BeginImport
<1>2. torn' = TRUE /\ UNCHANGED <<loopVars, dumps>>
  BY DEF BeginImport
<1>3. TablesTrue' /\ LoopsTrue' /\ DumpsTrue'
  BY <1>2 DEF TablesTrue, LoopsTrue, DumpsTrue
<1>4. alone' => \A m \in Migrators : ~Looping(m)'
  BY <1>2 DEF BeginImport, Looping, loopVars
<1>5. \A s \in dumps[d].schema : Statement(s).table \in left'
  BY <1>1 DEF TablesIn
<1> QED BY <1>1, <1>2, <1>3, <1>4, <1>5 DEF MigrationsKept, ImportTrue

\* A table that was replaced is as the dump has it.
LEMMA ImportTableKeeps ==
  ASSUME MigrationsIInv, ImportTable
  PROVE  MigrationsKept
<1> USE DEF MigrationsIInv
<1>1. PICK t \in left :
        /\ left' = left \ {t}
        /\ recorded' = IF t = Bookkeeping THEN dumps[importing].recorded ELSE recorded
        /\ schema' = {s \in schema : Statement(s).table # t}
                       \cup {s \in dumps[importing].schema : Statement(s).table = t}
  BY DEF ImportTable
<1>2. /\ importing # 0 /\ UNCHANGED <<loopVars, dumps, importing, alone, torn>>
  BY DEF ImportTable
<1>3. torn'
  BY <1>2 DEF ImportTrue
<1>4. TablesTrue' /\ LoopsTrue' /\ DumpsTrue'
  BY <1>2, <1>3 DEF TablesTrue, LoopsTrue, DumpsTrue
<1>5. ASSUME alone
      PROVE  /\ \A m \in Migrators : ~Looping(m)'
             /\ \A s \in dumps[importing].schema :
                  Statement(s).table \notin left' => s \in schema'
             /\ Bookkeeping \notin left' => recorded' = dumps[importing].recorded
  BY <1>1, <1>2, <1>5 DEF ImportTrue, Looping, loopVars
<1> QED BY <1>2, <1>3, <1>4, <1>5 DEF MigrationsKept, ImportTrue

\* An import that ends undisturbed leaves the tables as true as its dump.
LEMMA EndImportKeeps ==
  ASSUME MigrationsIInv, EndImport \/ FailImport
  PROVE  MigrationsKept
<1> USE DEF MigrationsIInv
<1>1. /\ importing # 0 /\ importing' = 0
      /\ UNCHANGED <<schema, recorded, loopVars, dumps>>
  BY DEF EndImport, FailImport
<1>2. torn /\ importing \in DOMAIN dumps
  BY <1>1 DEF ImportTrue, MigrationsTypeOK
<1>3. ImportTrue' /\ DumpsTrue'
  BY <1>1 DEF ImportTrue, DumpsTrue
<1>4. CASE torn'
  BY <1>3, <1>4 DEF TablesTrue, LoopsTrue, MigrationsKept
<1>5. CASE ~torn'
  <2>1. left = {} /\ alone /\ ~dumps[importing].torn
    BY <1>2, <1>5 DEF EndImport, FailImport
  <2>2. /\ \A m \in Migrators : ~Looping(m)
        /\ dumps[importing].schema \subseteq schema
        /\ recorded = dumps[importing].recorded
    BY <1>1, <2>1 DEF ImportTrue
  <2>3. TruthOf(schema, recorded)
    BY <1>2, <2>1, <2>2, TruthGrows DEF DumpsTrue
  <2> QED BY <1>1, <1>3, <2>2, <2>3 DEF MigrationsKept, TablesTrue, LoopsTrue, Looping, loopVars
<1> QED BY <1>4, <1>5

\* Every step keeps the invariant.
LEMMA MigrationsNextKeeps ==
  ASSUME MigrationsIInv, [MigrationsNext]_migrationsVars
  PROVE  MigrationsIInv'
<1>1. MigrationsTypeOK'
  BY MigrationsTypeKeeps DEF MigrationsIInv
<1>2. MigrationsKept
  <2>1. CASE UNCHANGED migrationsVars
    BY <2>1 DEF MigrationsIInv, MigrationsKept, TablesTrue, LoopsTrue, DumpsTrue, ImportTrue, Looping,
                migrationsVars, loopVars, importVars
  <2>2. CASE Upgrade
    BY <2>2 DEF MigrationsIInv, MigrationsKept, TablesTrue, LoopsTrue, DumpsTrue, ImportTrue, Looping,
                Upgrade, loopVars, importVars
  <2> QED BY <2>1, <2>2, BeginLoopKeeps, SkipKeeps, AppliedKeeps, ExecuteKeeps, RecordKeeps,
             AbortKeeps, DumpDatabaseKeeps, BeginImportKeeps, ImportTableKeeps, EndImportKeeps
          DEF MigrationsNext
<1> QED BY <1>1, <1>2 DEF MigrationsIInv, MigrationsKept

\* It holds at the start.
LEMMA MigrationsInitHolds ==
  ASSUME MigrationsInit
  PROVE  MigrationsIInv
<1> USE ScriptFacts DEF MigrationsInit
<1>1. MigrationsTypeOK
  <2>1. 0 \in 0..MaxLoops /\ 0 \in 0..MaxImports
    BY MigrationsAssumptions DEF MigrationsAssumptions
  <2>2. /\ at \in [Migrators -> {0} \cup Versions]
        /\ release \in [Migrators -> DOMAIN Releases]
        /\ done \in [Migrators -> Nat] /\ executing \in [Migrators -> BOOLEAN]
    OBVIOUS
  <2>3. dumps \in Seq([schema : SUBSET Statements, recorded : SUBSET Versions, torn : BOOLEAN])
    OBVIOUS
  <2> QED BY <2>1, <2>2, <2>3 DEF MigrationsTypeOK
<1>2. TablesTrue
  BY DEF TablesTrue, TruthOf
<1>3. LoopsTrue
  BY DEF LoopsTrue, Looping
<1>4. DumpsTrue /\ ImportTrue
  BY DEF DumpsTrue, ImportTrue
<1> QED BY <1>1, <1>2, <1>3, <1>4 DEF MigrationsIInv

\* The invariant holds for ever.
LEMMA MigrationsAlways == MigrationsSpec => []MigrationsIInv
<1>1. MigrationsInit => MigrationsIInv
  BY MigrationsInitHolds
<1>2. MigrationsIInv /\ [MigrationsNext]_migrationsVars => MigrationsIInv'
  BY MigrationsNextKeeps
<1> QED BY <1>1, <1>2, PTL DEF MigrationsSpec

-----------------------------------------------------------------------------

\* The schema, the bookkeeping, the loops and the dumps have their types.
THEOREM MigrationTypes == MigrationsSpec => []MigrationsTypeOK
<1>1. MigrationsIInv => MigrationsTypeOK
  BY DEF MigrationsIInv
<1> QED BY <1>1, MigrationsAlways, PTL

\* Whatever loops run at once, are killed or are started from another release,
\* and whatever dump was imported undisturbed: a version that is recorded has
\* been applied to its last statement, after every script before it.
THEOREM RecordsAreTrue == MigrationsSpec => []RecordedIsApplied
<1>1. MigrationsIInv => RecordedIsApplied
  BY DEF MigrationsIInv, TablesTrue, TruthOf, RecordedIsApplied
<1> QED BY <1>1, MigrationsAlways, PTL

-----------------------------------------------------------------------------
(* ConfigApply: the inductive invariant.                                   *)

SettingsVersions == 0..MaxSettings
RunPCs == {"stopped", "prepare", "draft", "read", "render", "install",
           "proxy", "open", "fill", "rename", "reload", "done", "failed"}
Runs == [pc : RunPCs, seen : SettingsVersions, left : Seq(Mail \cup Proxy),
         quiet : BOOLEAN, skipped : BOOLEAN]

Rendering == {"draft", "render", "install"}
Writing == {"open", "fill", "rename"}
FileContents == SettingsVersions \cup {Nothing, Blank, Mixed}

ConfigTypes ==
    /\ settings \in SettingsVersions /\ runs \in 0..MaxRuns
    /\ generated \in [Mail -> SettingsVersions \cup {Nothing}]
    /\ temp \in [Proxy -> FileContents]
    /\ live \in [Mail \cup Proxy -> FileContents]
    /\ loaded \in [Mail \cup Proxy -> FileContents]
    /\ runner \in [Runners -> Runs]

\* What is left to a run is of the kind it works at.
LeftIsOf(pc, todo) ==
    /\ pc \in Rendering => todo \in Seq(Mail)
    /\ pc \in Writing => todo \in Seq(Proxy)
    /\ pc \in {"fill", "rename"} => todo # << >>
LeftsFit == \A p \in Runners : LeftIsOf(runner[p].pc, runner[p].left)

\* Beside a quiet run nobody runs.
QuietIsAlone ==
    \A p \in Runners : runner[p].quiet => \A q \in Runners \ {p} : ~RunnerBusy(q)

\* The mail files are installed and loaded, and the files of nginx are written.
MailCurrent == \A f \in Mail : live[f] = settings /\ loaded[f] = settings
ProxyWritten(p) == \A f \in Proxy : f \in ToSet(runner[p].left) \/ live[f] = runner[p].seen
ProxyCurrent(p) ==
    /\ runner[p].skipped \/ \A f \in Proxy : live[f] = settings
    /\ \A f \in Proxy : loaded[f] = live[f]

\* Where a run has applied the mail files, and where it has applied the proxy's.
MailApplied(p) ==
    IF p \in TlsWorkers THEN {"done"} ELSE {"proxy", "reload", "done"} \cup Writing
ProxyApplied(p) ==
    IF p \in TlsWorkers THEN {"prepare", "read", "done"} \cup Rendering ELSE {"done"}

\* What run p has done, if it is quiet.
Stage(p) ==
    /\ runner[p].pc = "render" =>
         /\ runner[p].seen = settings
         /\ \A f \in Mail : f \in ToSet(runner[p].left) \/ generated[f] = settings
    /\ runner[p].pc = "install" =>
         /\ \A f \in Mail : generated[f] = settings
         /\ \A f \in Mail : f \in ToSet(runner[p].left) \/ live[f] = settings
    /\ runner[p].pc \in MailApplied(p) => MailCurrent
    /\ runner[p].pc \in ProxyApplied(p) => ProxyCurrent(p)
    /\ runner[p].pc \in Writing =>
         /\ runner[p].skipped \/ runner[p].seen = settings
         /\ ProxyWritten(p)
    /\ runner[p].pc = "fill" => temp[Head(runner[p].left)] = Blank
    /\ runner[p].pc = "rename" => temp[Head(runner[p].left)] = runner[p].seen
    /\ runner[p].pc = "reload" => runner[p].skipped \/ \A f \in Proxy : live[f] = settings

QuietIsOnTrack == \A p \in Runners : runner[p].quiet => Stage(p)

ConfigIInv == ConfigTypes /\ LeftsFit /\ QuietIsAlone /\ QuietIsOnTrack

-----------------------------------------------------------------------------
(* ConfigApply: the lists of files, and the step of one run.               *)

\* The lists of files are lists of files, and the two kinds are apart.
LEMMA ListsOfFiles ==
  /\ MailFiles \in Seq(Mail) /\ ProxyFiles \in Seq(Proxy) /\ Mail \cap Proxy = {}
  /\ Seq(Mail) \subseteq Seq(Mail \cup Proxy) /\ Seq(Proxy) \subseteq Seq(Mail \cup Proxy)
  /\ Nothing \notin Nat /\ Blank \notin Nat /\ Nothing # Blank
BY ConfigApplyAssumptions DEF ConfigApplyAssumptions, Mail, Proxy

\* Run p has become the run that has these fields, and no other has moved.
RunIs(p, pc, seen, todo, quiet, skipped) ==
    /\ runner' \in [Runners -> Runs]
    /\ \A q \in Runners \ {p} : runner'[q] = runner[q]
    /\ runner'[p].pc = pc /\ runner'[p].seen = seen /\ runner'[p].left = todo
    /\ runner'[p].quiet = quiet /\ runner'[p].skipped = skipped

\* A run that goes on keeps what it has seen.
LEMMA RunGoesOn ==
  ASSUME runner \in [Runners -> Runs], NEW p \in Runners, NEW pc \in RunPCs,
         NEW todo \in Seq(Mail \cup Proxy), NextRunStep(p, pc, todo)
  PROVE  RunIs(p, pc, runner[p].seen, todo, runner[p].quiet, runner[p].skipped)
BY DEF RunIs, NextRunStep, Runs

\* What a busy run does is no concern of a quiet one: there is none beside it.
LEMMA RunKeeps ==
  ASSUME ConfigIInv, NEW p \in Runners, RunnerBusy(p),
         NEW pc, NEW seen, NEW todo, NEW skipped,
         RunIs(p, pc, seen, todo, runner[p].quiet, skipped),
         LeftIsOf(pc, todo),
         runner[p].quiet => Stage(p)'
  PROVE  LeftsFit' /\ QuietIsAlone' /\ QuietIsOnTrack'
<1>1. \A q \in Runners \ {p} : runner'[q] = runner[q] /\ ~runner[q].quiet
  BY DEF RunIs, ConfigIInv, QuietIsAlone
<1>2. /\ runner'[p].pc = pc /\ runner'[p].left = todo /\ runner'[p].quiet = runner[p].quiet
  BY DEF RunIs
<1>3. LeftsFit'
  BY <1>1, <1>2 DEF ConfigIInv, LeftsFit
<1>4. QuietIsAlone'
  BY <1>1, <1>2 DEF ConfigIInv, QuietIsAlone, RunnerBusy
<1>5. QuietIsOnTrack'
  BY <1>1, <1>2 DEF QuietIsOnTrack
<1> QED BY <1>3, <1>4, <1>5

-----------------------------------------------------------------------------
(* ConfigApply: the steps.                                                 *)

\* When somebody acts who is not a run, no run is quiet any more.
LEMMA DisturbedKeeps ==
  ASSUME ConfigIInv
  PROVE  /\ Disturbed(runner) \in [Runners -> Runs]
         /\ \A p \in Runners : /\ ~Disturbed(runner)[p].quiet
                               /\ Disturbed(runner)[p].pc = runner[p].pc
                               /\ Disturbed(runner)[p].left = runner[p].left
BY DEF ConfigIInv, ConfigTypes, Disturbed, Runs

\* A change of the settings.
LEMMA UpdateSettingsKeeps ==
  ASSUME ConfigIInv, UpdateMailServerSettings
  PROVE  ConfigIInv'
<1>1. runner' = Disturbed(runner)
  BY DEF UpdateMailServerSettings
<1>2. ConfigTypes'
  BY <1>1, DisturbedKeeps, ConfigApplyAssumptions
     DEF UpdateMailServerSettings, ConfigIInv, ConfigTypes, SettingsVersions, FileContents,
         ConfigApplyAssumptions
<1>3. LeftsFit'
  BY <1>1, DisturbedKeeps DEF ConfigIInv, LeftsFit
<1>4. QuietIsAlone' /\ QuietIsOnTrack'
  BY <1>1, DisturbedKeeps DEF QuietIsAlone, QuietIsOnTrack
<1> QED BY <1>2, <1>3, <1>4 DEF ConfigIInv

\* A request changes no file and no run.
LEMMA RequestConfigKeeps ==
  ASSUME ConfigIInv, ApplyConfigDrift \/ UNCHANGED configVars
  PROVE  ConfigIInv'
<1>1. UNCHANGED <<settings, generated, temp, live, loaded, runner, runs>>
  BY DEF ApplyConfigDrift, configVars
<1> QED BY <1>1 DEF ConfigIInv, ConfigTypes, LeftsFit, QuietIsAlone, RunnerBusy,
                    QuietIsOnTrack, Stage, MailCurrent, ProxyWritten, ProxyCurrent

\* A run that starts is quiet if it is alone, and every other is quiet no more.
LEMMA StartRunKeeps ==
  ASSUME ConfigIInv, NEW p \in Runners, Start(p)
  PROVE  ConfigIInv'
<1>1. PICK quiet \in BOOLEAN : quiet = (\A q \in Runners \ {p} : ~RunnerBusy(q))
  OBVIOUS
<1> DEFINE entered == [Stopped EXCEPT !.pc = BeginsWith(p), !.quiet = quiet]
<1>2. /\ entered \in Runs /\ entered.pc = BeginsWith(p) /\ entered.quiet = quiet
      /\ runner' = [Disturbed(runner) EXCEPT ![p] = entered]
  <2>1. 0 \in SettingsVersions
    BY ConfigApplyAssumptions DEF SettingsVersions, ConfigApplyAssumptions
  <2>2. Stopped \in Runs /\ BeginsWith(p) \in RunPCs
    BY <2>1 DEF Stopped, Runs, RunPCs, BeginsWith
  <2>3. entered \in Runs /\ entered.pc = BeginsWith(p) /\ entered.quiet = quiet
    BY <1>1, <2>2 DEF Runs
  <2>4. runner' = [Disturbed(runner) EXCEPT ![p] = entered]
    BY <1>1 DEF Start
  <2> QED BY <2>3, <2>4
<1> HIDE DEF entered
<1>3. /\ runner' \in [Runners -> Runs] /\ runner'[p] = entered
      /\ \A q \in Runners \ {p} : /\ ~runner'[q].quiet /\ runner'[q].pc = runner[q].pc
                                  /\ runner'[q].left = runner[q].left
  BY <1>2, DisturbedKeeps
<1>4. ConfigTypes'
  BY <1>3, ConfigApplyAssumptions DEF Start, ConfigIInv, ConfigTypes, ConfigApplyAssumptions
<1>5. LeftsFit'
  BY <1>2, <1>3 DEF ConfigIInv, LeftsFit, LeftIsOf, Rendering, Writing, BeginsWith
<1>6. QuietIsAlone'
  BY <1>1, <1>2, <1>3 DEF QuietIsAlone, RunnerBusy
<1>7. QuietIsOnTrack'
  <2> SUFFICES Stage(p)'
    BY <1>3 DEF QuietIsOnTrack
  <2> QED BY <1>2, <1>3
          DEF Stage, Rendering, Writing, MailApplied, ProxyApplied, BeginsWith
<1> QED BY <1>4, <1>5, <1>6, <1>7 DEF ConfigIInv

\* The settings are read.
LEMMA ReadSettingsKeeps ==
  ASSUME ConfigIInv, NEW p \in Runners, ReadSettings(p)
  PROVE  ConfigIInv'
<1> USE DEF ConfigIInv
<1>1. UNCHANGED <<settings, requested, generated, temp, live, loaded, runs>>
  BY DEF ReadSettings
<1>2. PICK pc \in {"draft", "render"} :
        RunIs(p, pc, settings, MailFiles, runner[p].quiet, runner[p].skipped)
  BY ListsOfFiles DEF ReadSettings, RunIs, ConfigTypes, Runs, RunPCs
<1>3. ConfigTypes'
  BY <1>1, <1>2 DEF ConfigTypes, RunIs
<1>4. ASSUME runner[p].quiet
      PROVE  Stage(p)'
  <2>1. p \in TlsWorkers => ProxyCurrent(p)
    BY <1>4 DEF ReadSettings, QuietIsOnTrack, Stage, ProxyApplied
  <2>2. p \in TlsWorkers => ProxyCurrent(p)'
    BY <1>1, <1>2, <2>1 DEF RunIs, ProxyCurrent
  <2> QED BY <1>1, <1>2, <2>2 DEF RunIs, Stage, Rendering, Writing, MailApplied, ProxyApplied, Mail
<1>5. RunnerBusy(p)
  BY DEF ReadSettings, RunnerBusy
<1>6. LeftIsOf(pc, MailFiles)
  BY <1>1, ListsOfFiles DEF LeftIsOf, Rendering, Writing
<1>7. LeftsFit' /\ QuietIsAlone' /\ QuietIsOnTrack'
  BY <1>2, <1>4, <1>5, <1>6, RunKeeps
<1> QED BY <1>3, <1>7

\* A file is rendered.
LEMMA RenderKeeps ==
  ASSUME ConfigIInv, NEW p \in Runners, RenderMailFile(p)
  PROVE  ConfigIInv'
<1> USE DEF ConfigIInv
<1> DEFINE f == Head(runner[p].left)
           rest == Tail(runner[p].left)
<1>1. /\ UNCHANGED <<settings, requested, temp, live, loaded, runs>>
      /\ runner[p].pc \in {"draft", "render"}
      /\ generated' = [generated EXCEPT ![f] = Rendered(p, f)]
  BY DEF RenderMailFile
<1>2. /\ f \in Mail /\ rest \in Seq(Mail)
      /\ \A x \in ToSet(runner[p].left) : x = f \/ x \in ToSet(rest)
  BY HeadOrTail DEF RenderMailFile, LeftsFit, LeftIsOf, Rendering
<1>3. RunIs(p, runner[p].pc, runner[p].seen, rest, runner[p].quiet, runner[p].skipped)
  <2>1. /\ NextRunStep(p, runner[p].pc, rest) /\ rest \in Seq(Mail \cup Proxy)
        /\ runner[p].pc \in RunPCs
    BY <1>1, <1>2, ListsOfFiles DEF RenderMailFile, RunPCs
  <2> QED BY <2>1, RunGoesOn DEF ConfigTypes
<1>4. Rendered(p, f) \in SettingsVersions
  BY DEF Rendered, ConfigTypes, Runs
<1> HIDE DEF f, rest
<1>5. ConfigTypes'
  BY <1>1, <1>3, <1>4 DEF ConfigTypes, RunIs
<1>6. ASSUME runner[p].quiet
      PROVE  Stage(p)'
  <2>1. runner[p].pc = "render" =>
          /\ runner[p].seen = settings
          /\ \A x \in Mail : x \in ToSet(runner[p].left) \/ generated[x] = settings
    BY <1>1, <1>6 DEF QuietIsOnTrack, Stage
  <2>2. runner[p].pc = "render" => Rendered(p, f) = settings
    BY <2>1 DEF Rendered
  <2>3. runner[p].pc = "render" => \A x \in Mail : x \in ToSet(rest) \/ generated'[x] = settings
    BY <1>1, <1>2, <2>1, <2>2 DEF ConfigTypes
  <2>4. p \in TlsWorkers => ProxyCurrent(p)'
    BY <1>1, <1>3, <1>6 DEF QuietIsOnTrack, Stage, Rendering, ProxyApplied, ProxyCurrent, RunIs
  <2> QED BY <1>1, <1>3, <2>1, <2>3, <2>4 DEF Stage, RunIs, Rendering, Writing, MailApplied, ProxyApplied
<1>7. RunnerBusy(p)
  BY <1>1 DEF RunnerBusy
<1>8. LeftIsOf(runner[p].pc, rest)
  BY <1>1, <1>2 DEF LeftIsOf, Rendering, Writing
<1>9. LeftsFit' /\ QuietIsAlone' /\ QuietIsOnTrack'
  BY <1>2, <1>3, <1>6, <1>7, <1>8, RunKeeps
<1> QED BY <1>5, <1>9

\* The worker's own render is over.
LEMMA EndRenderKeeps ==
  ASSUME ConfigIInv, NEW p \in Runners, EndRender(p)
  PROVE  ConfigIInv'
<1> USE DEF ConfigIInv
<1>1. /\ UNCHANGED <<settings, requested, generated, temp, live, loaded, runs>>
      /\ runner[p].pc = "draft" /\ runner[p].left = << >>
  BY DEF EndRender
<1>2. RunIs(p, "read", runner[p].seen, << >>, runner[p].quiet, runner[p].skipped)
  <2>1. << >> \in Seq(Mail \cup Proxy) /\ NextRunStep(p, "read", << >>) /\ "read" \in RunPCs
    BY DEF EndRender, RunPCs
  <2> QED BY <2>1, RunGoesOn DEF ConfigTypes
<1>3. ConfigTypes'
  BY <1>1, <1>2 DEF ConfigTypes, RunIs
<1>4. ASSUME runner[p].quiet
      PROVE  Stage(p)'
  <2>1. p \in TlsWorkers => ProxyCurrent(p)'
    BY <1>1, <1>2, <1>4 DEF QuietIsOnTrack, Stage, Rendering, ProxyApplied, ProxyCurrent, RunIs
  <2> QED BY <1>2, <2>1 DEF RunIs, Stage, Rendering, Writing, MailApplied, ProxyApplied
<1>5. RunnerBusy(p)
  BY <1>1 DEF RunnerBusy
<1>6. LeftIsOf("read", << >>)
  BY <1>1 DEF LeftIsOf, Rendering, Writing
<1>7. LeftsFit' /\ QuietIsAlone' /\ QuietIsOnTrack'
  BY <1>2, <1>4, <1>5, <1>6, RunKeeps
<1> QED BY <1>3, <1>7

\* The rendered files begin to be installed.
LEMMA BeginInstallKeeps ==
  ASSUME ConfigIInv, NEW p \in Runners, BeginInstall(p)
  PROVE  ConfigIInv'
<1> USE DEF ConfigIInv
<1>1. /\ UNCHANGED <<settings, requested, generated, temp, live, loaded, runs>>
      /\ runner[p].pc = "render" /\ runner[p].left = << >>
  BY DEF BeginInstall
<1>2. RunIs(p, "install", runner[p].seen, MailFiles, runner[p].quiet, runner[p].skipped)
  BY ListsOfFiles, RunGoesOn DEF BeginInstall, ConfigTypes, RunPCs
<1>3. ConfigTypes'
  BY <1>1, <1>2 DEF ConfigTypes, RunIs
<1>4. ASSUME runner[p].quiet
      PROVE  Stage(p)'
  <2>1. \A f \in Mail : generated[f] = settings
    BY <1>1, <1>4 DEF QuietIsOnTrack, Stage, ToSet
  <2>2. p \in TlsWorkers => ProxyCurrent(p)'
    BY <1>1, <1>2, <1>4 DEF QuietIsOnTrack, Stage, Rendering, ProxyApplied, ProxyCurrent, RunIs
  <2> QED BY <1>1, <1>2, <2>1, <2>2
          DEF RunIs, Stage, Rendering, Writing, MailApplied, ProxyApplied, Mail
<1>5. RunnerBusy(p)
  BY <1>1 DEF RunnerBusy
<1>6. LeftIsOf("install", MailFiles)
  BY <1>1, ListsOfFiles DEF LeftIsOf, Rendering, Writing
<1>7. LeftsFit' /\ QuietIsAlone' /\ QuietIsOnTrack'
  BY <1>2, <1>4, <1>5, <1>6, RunKeeps
<1> QED BY <1>3, <1>7

\* A file is installed.
LEMMA InstallKeeps ==
  ASSUME ConfigIInv, NEW p \in Runners, InstallMailFile(p)
  PROVE  ConfigIInv'
<1> USE DEF ConfigIInv
<1> DEFINE f == Head(runner[p].left)
           rest == Tail(runner[p].left)
<1>1. /\ UNCHANGED <<settings, requested, generated, temp, loaded, runs>>
      /\ runner[p].pc = "install" /\ live' = [live EXCEPT ![f] = generated[f]]
  BY DEF InstallMailFile, Install
<1>2. /\ f \in Mail /\ rest \in Seq(Mail)
      /\ \A x \in ToSet(runner[p].left) : x = f \/ x \in ToSet(rest)
  BY HeadOrTail DEF InstallMailFile, LeftsFit, LeftIsOf, Rendering
<1>3. RunIs(p, "install", runner[p].seen, rest, runner[p].quiet, runner[p].skipped)
  <2>1. NextRunStep(p, "install", rest) /\ rest \in Seq(Mail \cup Proxy) /\ "install" \in RunPCs
    BY <1>2, ListsOfFiles DEF InstallMailFile, RunPCs
  <2> QED BY <2>1, RunGoesOn DEF ConfigTypes
<1> HIDE DEF f, rest
<1>4. ConfigTypes'
  BY <1>1, <1>2, <1>3 DEF ConfigTypes, RunIs, FileContents
<1>5. ASSUME runner[p].quiet
      PROVE  Stage(p)'
  <2>1. /\ \A x \in Mail : generated[x] = settings
        /\ \A x \in Mail : x \in ToSet(runner[p].left) \/ live[x] = settings
    BY <1>1, <1>5 DEF QuietIsOnTrack, Stage
  <2>2. \A x \in Mail : x \in ToSet(rest) \/ live'[x] = settings
    BY <1>1, <1>2, <2>1 DEF ConfigTypes
  <2>3. p \in TlsWorkers => ProxyCurrent(p)
    BY <1>1, <1>5 DEF QuietIsOnTrack, Stage, Rendering, ProxyApplied
  <2>4. \A x \in Proxy : live'[x] = live[x]
    BY <1>1, <1>2, ListsOfFiles DEF ConfigTypes
  <2>5. p \in TlsWorkers => ProxyCurrent(p)'
    BY <1>1, <1>3, <2>3, <2>4 DEF ProxyCurrent, RunIs
  <2> QED BY <1>1, <1>3, <2>1, <2>2, <2>5
          DEF Stage, RunIs, Rendering, Writing, MailApplied, ProxyApplied
<1>6. RunnerBusy(p)
  BY <1>1 DEF RunnerBusy
<1>7. LeftIsOf("install", rest)
  BY <1>1, <1>2 DEF LeftIsOf, Rendering, Writing
<1>8. LeftsFit' /\ QuietIsAlone' /\ QuietIsOnTrack'
  BY <1>2, <1>3, <1>5, <1>6, <1>7, RunKeeps
<1> QED BY <1>4, <1>8

\* The mail services restart with the files as they are.
LEMMA RestartKeeps ==
  ASSUME ConfigIInv, NEW p \in Runners, RestartMail(p)
  PROVE  ConfigIInv'
<1> USE DEF ConfigIInv
<1>1. /\ UNCHANGED <<settings, requested, generated, temp, live, runs>>
      /\ runner[p].pc = "install" /\ runner[p].left = << >>
      /\ loaded' = [f \in DOMAIN loaded |-> IF f \in Mail THEN live[f] ELSE loaded[f]]
  BY DEF RestartMail
<1>2. RunIs(p, AfterMail(p), runner[p].seen, << >>, runner[p].quiet, runner[p].skipped)
  <2>1. /\ << >> \in Seq(Mail \cup Proxy) /\ NextRunStep(p, AfterMail(p), << >>)
        /\ AfterMail(p) \in RunPCs
    BY DEF RestartMail, RunPCs, AfterMail
  <2> QED BY <2>1, RunGoesOn DEF ConfigTypes
<1>3. loaded' \in [Mail \cup Proxy -> FileContents] /\ \A f \in Mail : loaded'[f] = live[f]
  BY <1>1 DEF ConfigTypes
<1>4. ConfigTypes'
  BY <1>1, <1>2, <1>3 DEF ConfigTypes, RunIs
<1>5. ASSUME runner[p].quiet
      PROVE  Stage(p)'
  <2>1. \A f \in Mail : live[f] = settings
    BY <1>1, <1>5 DEF QuietIsOnTrack, Stage, ToSet
  <2>2. MailCurrent'
    BY <1>1, <1>3, <2>1 DEF MailCurrent
  <2>3. p \in TlsWorkers => ProxyCurrent(p)
    BY <1>1, <1>5 DEF QuietIsOnTrack, Stage, Rendering, ProxyApplied
  <2>4. \A x \in Proxy : loaded'[x] = loaded[x]
    BY <1>1, ListsOfFiles DEF ConfigTypes
  <2>5. p \in TlsWorkers => ProxyCurrent(p)'
    BY <1>1, <1>2, <2>3, <2>4 DEF ProxyCurrent, RunIs
  <2> QED BY <1>2, <2>2, <2>5
          DEF RunIs, Stage, Rendering, Writing, MailApplied, ProxyApplied, AfterMail
<1>6. RunnerBusy(p)
  BY <1>1 DEF RunnerBusy
<1>7. LeftIsOf(AfterMail(p), << >>)
  BY <1>1 DEF LeftIsOf, Rendering, Writing, AfterMail
<1>8. LeftsFit' /\ QuietIsAlone' /\ QuietIsOnTrack'
  BY <1>2, <1>5, <1>6, <1>7, RunKeeps
<1> QED BY <1>4, <1>8

\* The settings are read for the proxy, or not.
LEMMA LoadProxyKeeps ==
  ASSUME ConfigIInv, NEW p \in Runners, LoadProxyMailServerSettings(p)
  PROVE  ConfigIInv'
<1> USE DEF ConfigIInv
<1>1. /\ UNCHANGED <<settings, requested, generated, temp, live, loaded, runs>>
      /\ runner[p].pc = "proxy"
  BY DEF LoadProxyMailServerSettings
<1>2. PICK skipped \in BOOLEAN :
        runner' = [runner EXCEPT ![p].pc = "open", ![p].skipped = skipped,
                                 ![p].seen = IF skipped THEN 0 ELSE settings,
                                 ![p].left = ProxyFiles]
  BY DEF LoadProxyMailServerSettings
<1>3. PICK seen : seen = IF skipped THEN 0 ELSE settings
  OBVIOUS
<1>4. seen \in SettingsVersions /\ (skipped \/ seen = settings)
  BY <1>3, ConfigApplyAssumptions
     DEF ConfigTypes, SettingsVersions, ConfigApplyAssumptions
<1>5. RunIs(p, "open", seen, ProxyFiles, runner[p].quiet, skipped)
  <2>1. "open" \in RunPCs /\ ProxyFiles \in Seq(Mail \cup Proxy)
    BY ListsOfFiles DEF RunPCs
  <2>2. runner \in [Runners -> Runs] /\ runner[p] \in Runs
    BY DEF ConfigTypes
  <2> DEFINE r == [[[[runner[p] EXCEPT !.pc = "open"] EXCEPT !.skipped = skipped]
                       EXCEPT !.seen = seen] EXCEPT !.left = ProxyFiles]
  <2>3. runner' = [runner EXCEPT ![p] = r]
    BY <1>2, <1>3, <2>2
  <2>4. /\ r \in Runs /\ r.pc = "open" /\ r.seen = seen /\ r.left = ProxyFiles
        /\ r.quiet = runner[p].quiet /\ r.skipped = skipped
    BY <1>4, <2>1, <2>2 DEF Runs
  <2> HIDE DEF r
  <2> QED BY <2>2, <2>3, <2>4 DEF RunIs
<1>6. ConfigTypes'
  BY <1>1, <1>5 DEF ConfigTypes, RunIs
<1>7. ASSUME runner[p].quiet
      PROVE  Stage(p)'
  <2>1. p \in TlsWorkers \/ MailCurrent'
    BY <1>1, <1>7 DEF QuietIsOnTrack, Stage, MailCurrent, MailApplied
  <2>2. ProxyWritten(p)'
    BY <1>5 DEF ProxyWritten, RunIs, Proxy
  <2> QED BY <1>1, <1>4, <1>5, <2>1, <2>2
          DEF RunIs, Stage, Rendering, Writing, MailApplied, ProxyApplied
<1>8. RunnerBusy(p)
  BY <1>1 DEF RunnerBusy
<1>9. LeftIsOf("open", ProxyFiles)
  BY <1>1, ListsOfFiles DEF LeftIsOf, Rendering, Writing
<1>10. LeftsFit' /\ QuietIsAlone' /\ QuietIsOnTrack'
  BY <1>5, <1>7, <1>8, <1>9, RunKeeps
<1> QED BY <1>6, <1>10

\* The temporary file of the next file is truncated.
LEMMA OpenKeeps ==
  ASSUME ConfigIInv, NEW p \in Runners, OpenTemp(p)
  PROVE  ConfigIInv'
<1> USE DEF ConfigIInv
<1>1. /\ UNCHANGED <<settings, requested, generated, live, loaded, runs>>
      /\ runner[p].pc = "open" /\ runner[p].left # << >>
      /\ temp' = [temp EXCEPT ![Head(runner[p].left)] = Blank]
  BY DEF OpenTemp
<1>2. runner[p].left \in Seq(Proxy) /\ Head(runner[p].left) \in Proxy
  BY <1>1, HeadOrTail DEF LeftsFit, LeftIsOf, Writing
<1>3. RunIs(p, "fill", runner[p].seen, runner[p].left, runner[p].quiet, runner[p].skipped)
  <2>1. /\ NextRunStep(p, "fill", runner[p].left) /\ "fill" \in RunPCs
        /\ runner[p].left \in Seq(Mail \cup Proxy)
    BY <1>2, ListsOfFiles DEF OpenTemp, RunPCs
  <2> QED BY <2>1, RunGoesOn DEF ConfigTypes
<1>4. ConfigTypes'
  BY <1>1, <1>3 DEF ConfigTypes, RunIs, FileContents
<1>5. ASSUME runner[p].quiet
      PROVE  Stage(p)'
  <2>1. /\ p \in TlsWorkers \/ MailCurrent
        /\ ProxyWritten(p)
        /\ runner[p].skipped \/ runner[p].seen = settings
    BY <1>1, <1>5 DEF QuietIsOnTrack, Stage, Writing, MailApplied
  <2>2. (p \in TlsWorkers \/ MailCurrent') /\ ProxyWritten(p)'
    BY <1>1, <1>3, <2>1 DEF MailCurrent, ProxyWritten, RunIs
  <2>3. temp'[Head(runner[p].left)] = Blank
    BY <1>1, <1>2 DEF ConfigTypes
  <2> QED BY <1>1, <1>3, <2>1, <2>2, <2>3
          DEF RunIs, Stage, Rendering, Writing, MailApplied, ProxyApplied
<1>6. RunnerBusy(p)
  BY <1>1 DEF RunnerBusy
<1>7. LeftIsOf("fill", runner[p].left)
  BY <1>1, <1>2 DEF LeftIsOf, Rendering, Writing
<1>8. LeftsFit' /\ QuietIsAlone' /\ QuietIsOnTrack'
  BY <1>2, <1>3, <1>5, <1>6, <1>7, RunKeeps
<1> QED BY <1>4, <1>8

\* It is written: unless another run was faster, it is there and is blank.
LEMMA FillKeeps ==
  ASSUME ConfigIInv, NEW p \in Runners, FillTemp(p)
  PROVE  ConfigIInv'
<1> USE DEF ConfigIInv
<1> DEFINE f == Head(runner[p].left)
           Onto(old) == IF old = Blank \/ old = runner[p].seen THEN runner[p].seen ELSE Mixed
<1>1. /\ UNCHANGED <<settings, requested, generated, loaded, runs>>
      /\ runner[p].pc = "fill"
      /\ IF temp[f] = Nothing
         THEN live' = [live EXCEPT ![f] = Onto(@)] /\ temp' = temp
         ELSE temp' = [temp EXCEPT ![f] = Onto(@)] /\ live' = live
  BY DEF FillTemp
<1>2. runner[p].left \in Seq(Proxy) /\ runner[p].left # << >> /\ f \in Proxy
  BY <1>1, HeadOrTail DEF LeftsFit, LeftIsOf, Writing
<1>3. RunIs(p, "rename", runner[p].seen, runner[p].left, runner[p].quiet, runner[p].skipped)
  <2>1. /\ NextRunStep(p, "rename", runner[p].left) /\ "rename" \in RunPCs
        /\ runner[p].left \in Seq(Mail \cup Proxy)
    BY <1>2, ListsOfFiles DEF FillTemp, RunPCs
  <2> QED BY <2>1, RunGoesOn DEF ConfigTypes
<1>4. \A old : Onto(old) \in FileContents
  BY DEF ConfigTypes, Runs, FileContents
<1>5. /\ live' \in [Mail \cup Proxy -> FileContents]
      /\ temp' \in [Proxy -> FileContents]
  BY <1>1, <1>4 DEF ConfigTypes
<1>6. ConfigTypes'
  BY <1>1, <1>3, <1>5 DEF ConfigTypes, RunIs
<1>7. ASSUME runner[p].quiet
      PROVE  Stage(p)'
  <2>1. /\ p \in TlsWorkers \/ MailCurrent
        /\ ProxyWritten(p)
        /\ runner[p].skipped \/ runner[p].seen = settings
        /\ temp[f] = Blank
    BY <1>1, <1>7 DEF QuietIsOnTrack, Stage, Writing, MailApplied
  <2>2. live' = live /\ temp'[f] = runner[p].seen
    BY <1>1, <1>2, <2>1, ListsOfFiles DEF ConfigTypes
  <2>3. (p \in TlsWorkers \/ MailCurrent') /\ ProxyWritten(p)'
    BY <1>1, <1>3, <2>1, <2>2 DEF MailCurrent, ProxyWritten, RunIs
  <2> QED BY <1>1, <1>3, <2>1, <2>2, <2>3
          DEF RunIs, Stage, Rendering, Writing, MailApplied, ProxyApplied
<1>8. RunnerBusy(p)
  BY <1>1 DEF RunnerBusy
<1>9. LeftIsOf("rename", runner[p].left)
  BY <1>1, <1>2 DEF LeftIsOf, Rendering, Writing
<1>10. LeftsFit' /\ QuietIsAlone' /\ QuietIsOnTrack'
  BY <1>2, <1>3, <1>7, <1>8, <1>9, RunKeeps
<1> QED BY <1>6, <1>10

\* It takes the place of the live file.
LEMMA RenameKeeps ==
  ASSUME ConfigIInv, NEW p \in Runners, RenameTemp(p)
  PROVE  ConfigIInv'
<1> USE DEF ConfigIInv
<1> DEFINE f == Head(runner[p].left)
           rest == Tail(runner[p].left)
<1>1. /\ UNCHANGED <<settings, requested, generated, loaded, runs>>
      /\ runner[p].pc = "rename"
      /\ live' = [live EXCEPT ![f] = temp[f]] /\ temp' = [temp EXCEPT ![f] = Nothing]
  BY DEF RenameTemp
<1>2. /\ f \in Proxy /\ rest \in Seq(Proxy)
      /\ \A x \in ToSet(runner[p].left) : x = f \/ x \in ToSet(rest)
  BY <1>1, HeadOrTail DEF LeftsFit, LeftIsOf, Writing
<1>3. RunIs(p, "open", runner[p].seen, rest, runner[p].quiet, runner[p].skipped)
  <2>1. NextRunStep(p, "open", rest) /\ rest \in Seq(Mail \cup Proxy) /\ "open" \in RunPCs
    BY <1>2, ListsOfFiles DEF RenameTemp, RunPCs
  <2> QED BY <2>1, RunGoesOn DEF ConfigTypes
<1>4. runner[p].quiet => temp[f] = runner[p].seen
  BY <1>1 DEF QuietIsOnTrack, Stage
<1> HIDE DEF f, rest
<1>5. ConfigTypes'
  BY <1>1, <1>2, <1>3 DEF ConfigTypes, RunIs, FileContents
<1>6. ASSUME runner[p].quiet
      PROVE  Stage(p)'
  <2>1. /\ p \in TlsWorkers \/ MailCurrent
        /\ ProxyWritten(p)
        /\ runner[p].skipped \/ runner[p].seen = settings
    BY <1>1, <1>6 DEF QuietIsOnTrack, Stage, Writing, MailApplied
  <2>2. p \in TlsWorkers \/ MailCurrent'
    BY <1>1, <1>2, <2>1, ListsOfFiles DEF MailCurrent, ConfigTypes
  <2>3. \A x \in Proxy : x \in ToSet(rest) \/ live'[x] = runner[p].seen
    BY <1>1, <1>2, <1>4, <1>6, <2>1 DEF ProxyWritten, ConfigTypes
  <2> QED BY <1>1, <1>3, <2>1, <2>2, <2>3
          DEF RunIs, Stage, ProxyWritten, Rendering, Writing, MailApplied, ProxyApplied
<1>7. RunnerBusy(p)
  BY <1>1 DEF RunnerBusy
<1>8. LeftIsOf("open", rest)
  BY <1>1, <1>2 DEF LeftIsOf, Rendering, Writing
<1>9. LeftsFit' /\ QuietIsAlone' /\ QuietIsOnTrack'
  BY <1>2, <1>3, <1>6, <1>7, <1>8, RunKeeps
<1> QED BY <1>5, <1>9

\* nginx finds its files well formed.
LEMMA TestKeeps ==
  ASSUME ConfigIInv, NEW p \in Runners, TestNginx(p)
  PROVE  ConfigIInv'
<1> USE DEF ConfigIInv
<1>1. /\ UNCHANGED <<settings, requested, generated, temp, live, loaded, runs>>
      /\ runner[p].pc = "open" /\ runner[p].left = << >>
  BY DEF TestNginx
<1>2. RunIs(p, "reload", runner[p].seen, << >>, runner[p].quiet, runner[p].skipped)
  <2>1. << >> \in Seq(Mail \cup Proxy) /\ NextRunStep(p, "reload", << >>) /\ "reload" \in RunPCs
    BY DEF TestNginx, RunPCs
  <2> QED BY <2>1, RunGoesOn DEF ConfigTypes
<1>3. ConfigTypes'
  BY <1>1, <1>2 DEF ConfigTypes, RunIs
<1>4. ASSUME runner[p].quiet
      PROVE  Stage(p)'
  <2>1. /\ p \in TlsWorkers \/ MailCurrent'
        /\ runner[p].skipped \/ \A f \in Proxy : live[f] = settings
    BY <1>1, <1>4
       DEF QuietIsOnTrack, Stage, Writing, MailApplied, MailCurrent, ProxyWritten, ToSet
  <2> QED BY <1>1, <1>2, <2>1 DEF RunIs, Stage, Rendering, Writing, MailApplied, ProxyApplied
<1>5. RunnerBusy(p)
  BY <1>1 DEF RunnerBusy
<1>6. LeftIsOf("reload", << >>)
  BY <1>1 DEF LeftIsOf, Rendering, Writing
<1>7. LeftsFit' /\ QuietIsAlone' /\ QuietIsOnTrack'
  BY <1>2, <1>4, <1>5, <1>6, RunKeeps
<1> QED BY <1>3, <1>7

\* nginx loads them.
LEMMA ReloadKeeps ==
  ASSUME ConfigIInv, NEW p \in Runners, ReloadNginx(p)
  PROVE  ConfigIInv'
<1> USE DEF ConfigIInv
<1>1. /\ UNCHANGED <<settings, requested, generated, temp, live, runs>>
      /\ runner[p].pc = "reload"
      /\ loaded' = [f \in DOMAIN loaded |-> IF f \in Proxy THEN live[f] ELSE loaded[f]]
  BY DEF ReloadNginx
<1>2. RunIs(p, AfterProxy(p), runner[p].seen, << >>, runner[p].quiet, runner[p].skipped)
  <2>1. /\ << >> \in Seq(Mail \cup Proxy) /\ NextRunStep(p, AfterProxy(p), << >>)
        /\ AfterProxy(p) \in RunPCs
    BY DEF ReloadNginx, RunPCs, AfterProxy
  <2> QED BY <2>1, RunGoesOn DEF ConfigTypes
<1>3. /\ loaded' \in [Mail \cup Proxy -> FileContents]
      /\ \A f \in Proxy : loaded'[f] = live[f]
      /\ \A f \in Mail : loaded'[f] = loaded[f]
  BY <1>1, ListsOfFiles DEF ConfigTypes
<1>4. ConfigTypes'
  BY <1>1, <1>2, <1>3 DEF ConfigTypes, RunIs
<1>5. ASSUME runner[p].quiet
      PROVE  Stage(p)'
  <2>1. /\ p \in TlsWorkers \/ MailCurrent'
        /\ runner[p].skipped \/ \A f \in Proxy : live[f] = settings
    BY <1>1, <1>3, <1>5 DEF QuietIsOnTrack, Stage, MailCurrent, MailApplied
  <2>2. ProxyCurrent(p)'
    BY <1>1, <1>2, <1>3, <2>1 DEF ProxyCurrent, RunIs
  <2> QED BY <1>2, <2>1, <2>2
          DEF RunIs, Stage, Rendering, Writing, MailApplied, ProxyApplied, AfterProxy
<1>6. RunnerBusy(p)
  BY <1>1 DEF RunnerBusy
<1>7. LeftIsOf(AfterProxy(p), << >>)
  BY <1>1 DEF LeftIsOf, Rendering, Writing, AfterProxy
<1>8. LeftsFit' /\ QuietIsAlone' /\ QuietIsOnTrack'
  BY <1>2, <1>5, <1>6, <1>7, RunKeeps
<1> QED BY <1>4, <1>8

\* A run that fails promises nothing.
LEMMA FailRunKeeps ==
  ASSUME ConfigIInv, NEW p \in Runners, FailRun(p)
  PROVE  ConfigIInv'
<1> USE DEF ConfigIInv
<1>1. UNCHANGED <<settings, requested, generated, temp, live, loaded, runs>>
  BY DEF FailRun
<1>2. RunIs(p, "failed", runner[p].seen, << >>, runner[p].quiet, runner[p].skipped)
  <2>1. << >> \in Seq(Mail \cup Proxy) /\ NextRunStep(p, "failed", << >>) /\ "failed" \in RunPCs
    BY DEF FailRun, RunPCs
  <2> QED BY <2>1, RunGoesOn DEF ConfigTypes
<1>3. ConfigTypes'
  BY <1>1, <1>2 DEF ConfigTypes, RunIs
<1>4. runner[p].quiet => Stage(p)'
  BY <1>2 DEF RunIs, Stage, Rendering, Writing, MailApplied, ProxyApplied
<1>5. RunnerBusy(p)
  BY DEF FailRun
<1>6. LeftIsOf("failed", << >>)
  BY <1>1 DEF LeftIsOf, Rendering, Writing
<1>7. LeftsFit' /\ QuietIsAlone' /\ QuietIsOnTrack'
  BY <1>2, <1>4, <1>5, <1>6, RunKeeps
<1> QED BY <1>3, <1>7

-----------------------------------------------------------------------------
(* ConfigApply: the theorem.                                               *)

\* Before the first run nothing is installed and nobody is busy.
LEMMA ConfigInitHolds == ConfigInit => ConfigIInv
<1> SUFFICES ASSUME ConfigInit
             PROVE  ConfigIInv
  OBVIOUS
<1> USE DEF ConfigInit
<1>1. 0 \in SettingsVersions /\ 0 \in 0..MaxRuns
  BY ConfigApplyAssumptions DEF SettingsVersions, ConfigApplyAssumptions
<1>2. Stopped \in Runs /\ Stopped.pc = "stopped" /\ ~Stopped.quiet
  BY <1>1 DEF Stopped, Runs, RunPCs
<1>3. ConfigTypes
  BY <1>1, <1>2 DEF ConfigTypes, FileContents
<1>4. LeftsFit /\ QuietIsAlone /\ QuietIsOnTrack
  BY <1>2 DEF LeftsFit, LeftIsOf, QuietIsAlone, QuietIsOnTrack, Rendering, Writing
<1> QED BY <1>3, <1>4 DEF ConfigIInv

\* Every step keeps the invariant.
LEMMA ConfigNextKeeps == ConfigIInv /\ [ConfigNext]_configVars => ConfigIInv'
BY UpdateSettingsKeeps, RequestConfigKeeps, StartRunKeeps, ReadSettingsKeeps, RenderKeeps,
   EndRenderKeeps, BeginInstallKeeps, InstallKeeps, RestartKeeps, LoadProxyKeeps, OpenKeeps, FillKeeps,
   RenameKeeps, TestKeeps, ReloadKeeps, FailRunKeeps
   DEF ConfigNext

\* The settings, the files and the runs have their types.
THEOREM ConfigurationTypes == ConfigSpec => []ConfigTypeOK
<1>1. ConfigIInv => ConfigTypeOK
  BY DEF ConfigIInv, ConfigTypes, ConfigTypeOK, SettingsVersions, FileContents
<1> QED BY <1>1, ConfigInitHolds, ConfigNextKeeps, PTL DEF ConfigSpec

\* A run of the helper that ended well, alone and with no change of the settings
\* since it began, leaves files without drift and services that run them,
\* whatever runs that failed, were killed or ran together left behind.
THEOREM QuietRunWorks == ConfigSpec => []QuietRunIsCurrent
<1>1. ConfigIInv => QuietRunIsCurrent
  <2> SUFFICES ASSUME ConfigIInv, NEW p \in Runners, runner[p].pc = "done", runner[p].quiet
               PROVE  /\ \A f \in Mail : CompareOne(f, settings) = "match"
                      /\ runner[p].skipped \/ Report = "ok"
                      /\ loaded = live
    BY DEF QuietRunIsCurrent
  <2>1. /\ MailCurrent
        /\ runner[p].skipped \/ \A f \in Proxy : live[f] = settings
        /\ \A f \in Proxy : loaded[f] = live[f]
    BY DEF ConfigIInv, QuietIsOnTrack, Stage, MailApplied, ProxyApplied, ProxyCurrent
  <2>2. settings # Nothing
    BY ListsOfFiles, ConfigApplyAssumptions
       DEF ConfigIInv, ConfigTypes, SettingsVersions, ConfigApplyAssumptions
  <2>3. \A f : live[f] = settings => CompareOne(f, settings) = "match"
    BY <2>2 DEF CompareOne
  <2>4. loaded = live
    BY <2>1 DEF MailCurrent, ConfigIInv, ConfigTypes
  <2> QED BY <2>1, <2>3, <2>4 DEF MailCurrent, Report
<1> QED BY <1>1, ConfigInitHolds, ConfigNextKeeps, PTL DEF ConfigSpec

-----------------------------------------------------------------------------
(* LiveRestore: the inductive invariant.                                   *)

PartContents == 0..MaxChanges \cup {Absent, Cut}
Servers == [Parts -> PartContents]
Archives == [content : Servers, quiet : BOOLEAN, began : Servers]

\* While the services that a restore stops are down.
Down == {"copy", "fill", "import", "permissions"}
RestorePCs == {"none", "stop", "done", "failed"} \cup Down

RestoreTypes ==
    /\ server \in Servers /\ server[Database] # Absent
    /\ services \in BOOLEAN
    /\ packing \in [pc : {"idle", "add"}, left : Seq(Files), quiet : BOOLEAN,
                    got : {<< >>} \cup UNION {[D -> PartContents] : D \in SUBSET Parts},
                    began : {<< >>} \cup Servers]
    /\ packed \in Seq(Archives)
    /\ restore \in [pc : RestorePCs, from : {0} \cup DOMAIN packed, overwrite : BOOLEAN,
                    control : BOOLEAN, import : BOOLEAN, left : Seq(Files), alone : BOOLEAN]
    /\ changes \in 0..MaxChanges /\ restores \in 0..MaxRestores

\* An archive has the database; if nothing changed while it was packed, what
\* it has is the server of that time.
ArchiveTrue(r) ==
    /\ r.content[Database] # Absent
    /\ r.quiet => \A p \in Parts : r.content[p] # Absent => r.content[p] = r.began[p]

ArchivesTrue == \A a \in DOMAIN packed : ArchiveTrue(packed[a])

\* What a backup has added.
PackingTrue ==
    packing.pc = "add" =>
      /\ packing.began \in Servers
      /\ packing.got \in UNION {[D -> PartContents] : D \in SUBSET Parts}
      /\ Database \in DOMAIN packing.got /\ packing.got[Database] # Absent
      /\ \A f \in Files : f \in DOMAIN packing.got \/ f \in ToSet(packing.left)
      /\ packing.quiet =>
           /\ packing.began = server /\ restore.pc \notin Down
           /\ \A p \in DOMAIN packing.got :
                packing.got[p] # Absent => packing.got[p] = server[p]

\* A part that is as the archive has it, if it has it.
Restored(p) == Content(p) = Absent \/ server[p] = Content(p)

\* How far a restore is.
RestoreOnTrack ==
    /\ restore.pc \in {"stop", "done"} \cup Down => restore.from \in DOMAIN packed
    /\ restore.pc = "stop" => restore.left = Sources
    /\ restore.pc = "fill" => restore.left # << >>
    /\ restore.pc \in {"import", "permissions", "done"} => restore.left = << >>

\* What a restore with nobody beside it has done.
AloneHasRestored ==
    restore.alone =>
      /\ restore.control /\ restore.pc \in Down => ~services
      /\ restore.control /\ restore.pc = "failed" => ~services \/ restore.left = Sources
      /\ restore.pc \in {"done"} \cup Down =>
           \A f \in Files : f \in ToSet(restore.left) \/ Restored(f)
      /\ restore.pc \in {"permissions", "done"} /\ restore.import => Restored(Database)

RestoreIInv == /\ RestoreTypes /\ ArchivesTrue /\ PackingTrue
               /\ RestoreOnTrack /\ AloneHasRestored

-----------------------------------------------------------------------------
(* LiveRestore: what is used of the assumptions, and steps that leave      *)
(* something alone.                                                        *)

\* Parts, contents and the list of the sources.
LEMMA SourceFacts ==
  /\ Sources \in Seq(Files) /\ ToSet(Sources) = Files
  /\ Files \subseteq Parts /\ Database \in Parts /\ Database \notin Files
  /\ MaxChanges \in Nat /\ MaxRestores \in Nat
  /\ Absent \notin Nat /\ Absent # Cut
  /\ {Absent, Cut} \subseteq PartContents /\ 0 \in PartContents
  /\ \A n \in Nat : n < MaxChanges => n + 1 \in PartContents /\ n + 1 \in 0..MaxChanges
BY LiveRestoreAssumptions DEF LiveRestoreAssumptions, Files, Parts, PartContents

\* An element of a sequence.
LEMMA ArchiveType ==
  ASSUME packed \in Seq(Archives), NEW a \in DOMAIN packed
  PROVE  /\ packed[a] \in Archives /\ packed[a].content \in Servers
         /\ packed[a].began \in Servers /\ packed[a].quiet \in BOOLEAN
<1>1. packed[a] \in Archives
  OBVIOUS
<1> QED BY <1>1 DEF Archives

\* A backup stays as true as it is while the server is the same, or if it has
\* been disturbed.
LEMMA PackingStays ==
  ASSUME PackingTrue, packing' = packing,
         packing.pc = "add" /\ packing.quiet =>
           server' = server /\ restore'.pc \notin Down
  PROVE  PackingTrue'
BY DEF PackingTrue

\* A backup that is no longer quiet promises only its shape.
LEMMA PackingDisturbed ==
  ASSUME RestoreTypes, PackingTrue, packing' = [packing EXCEPT !.quiet = FALSE]
  PROVE  PackingTrue'
<1>1. /\ packing'.pc = packing.pc /\ packing'.got = packing.got /\ packing'.left = packing.left
      /\ packing'.began = packing.began /\ packing'.quiet = FALSE
  BY DEF RestoreTypes
<1> QED BY <1>1 DEF PackingTrue

\* No backup.
LEMMA NoBackupTrue ==
  /\ NoBackup \in [pc : {"idle", "add"}, left : Seq(Files), quiet : BOOLEAN,
                   got : {<< >>} \cup UNION {[D -> PartContents] : D \in SUBSET Parts},
                   began : {<< >>} \cup Servers]
  /\ NoBackup.pc = "idle"
BY DEF NoBackup

\* A backup that ends, or goes on, touches no restore.
LEMMA RestoreStays ==
  ASSUME RestoreTypes, RestoreOnTrack, AloneHasRestored,
         UNCHANGED <<server, services, restore>>,
         DOMAIN packed \subseteq DOMAIN packed',
         \A a \in DOMAIN packed : packed'[a] = packed[a]
  PROVE  RestoreOnTrack' /\ AloneHasRestored'
<1>1. RestoreOnTrack'
  BY DEF RestoreOnTrack
<1>2. restore.from \in DOMAIN packed => \A p \in Parts : Content(p)' = Content(p)
  BY DEF Content
<1>3. restore.pc \in {"done"} \cup Down => restore.from \in DOMAIN packed
  BY DEF RestoreOnTrack
<1>4. restore.pc \in {"done"} \cup Down => \A p \in Parts : Restored(p) => Restored(p)'
  BY <1>2, <1>3 DEF Restored
<1>5. AloneHasRestored'
  <2>1. restore.pc \in {"permissions", "done"} => restore.pc \in {"done"} \cup Down
    BY DEF Down
  <2> QED BY <1>4, <2>1, SourceFacts DEF AloneHasRestored
<1> QED BY <1>1, <1>5

\* A restore that is no longer alone promises only how far it is.
LEMMA RestoreDisturbed ==
  ASSUME RestoreTypes, RestoreOnTrack,
         restore' = [restore EXCEPT !.alone = FALSE], packed' = packed
  PROVE  /\ RestoreOnTrack' /\ AloneHasRestored' /\ restore'.pc = restore.pc
         /\ restore' \in [pc : RestorePCs, from : {0} \cup DOMAIN packed, overwrite : BOOLEAN,
                    control : BOOLEAN, import : BOOLEAN, left : Seq(Files), alone : BOOLEAN]
<1>1. /\ restore'.pc = restore.pc /\ restore'.from = restore.from
      /\ restore'.left = restore.left /\ restore'.alone = FALSE
      /\ restore' \in [pc : RestorePCs, from : {0} \cup DOMAIN packed, overwrite : BOOLEAN,
                    control : BOOLEAN, import : BOOLEAN, left : Seq(Files), alone : BOOLEAN]
  BY DEF RestoreTypes
<1>2. RestoreOnTrack'
  BY <1>1 DEF RestoreOnTrack
<1>3. AloneHasRestored'
  BY <1>1 DEF AloneHasRestored
<1> QED BY <1>1, <1>2, <1>3

-----------------------------------------------------------------------------
(* LiveRestore: the server lives on.                                       *)

\* Nothing changes.
LEMMA RestoreStutters ==
  ASSUME RestoreIInv, UNCHANGED liveRestoreVars
  PROVE  RestoreIInv'
BY DEF RestoreIInv, liveRestoreVars, RestoreTypes, ArchivesTrue, PackingTrue, RestoreOnTrack,
       AloneHasRestored, Restored, Content

\* A file or the database is rewritten, or a file removed.
LEMMA RewriteKeeps ==
  ASSUME RestoreIInv, Rewrite
  PROVE  RestoreIInv'
<1> USE DEF RestoreIInv
<1>1. /\ changes < MaxChanges /\ changes' = changes + 1
      /\ packing' = [packing EXCEPT !.quiet = FALSE]
      /\ restore' = [restore EXCEPT !.alone = FALSE]
      /\ UNCHANGED <<services, packed, restores>>
  BY DEF Rewrite, DisturbCopies
<1>2. PICK p \in Parts, c \in {changes + 1, Absent} :
        /\ p = Database => c # Absent
        /\ server' = [server EXCEPT ![p] = c]
  BY DEF Rewrite
<1>3. changes \in Nat /\ changes + 1 \in PartContents /\ changes' \in 0..MaxChanges
  BY <1>1, SourceFacts DEF RestoreTypes
<1>4. server' \in Servers /\ server'[Database] # Absent
  BY <1>2, <1>3, SourceFacts DEF RestoreTypes, Servers
<1>5. packing' \in [pc : {"idle", "add"}, left : Seq(Files), quiet : BOOLEAN,
                    got : {<< >>} \cup UNION {[D -> PartContents] : D \in SUBSET Parts},
                    began : {<< >>} \cup Servers]
  BY <1>1 DEF RestoreTypes
<1>6. RestoreTypes'
  BY <1>1, <1>3, <1>4, <1>5, RestoreDisturbed DEF RestoreTypes
<1>7. ArchivesTrue'
  BY <1>1 DEF ArchivesTrue
<1>8. PackingTrue'
  BY <1>1, PackingDisturbed
<1> QED BY <1>1, <1>6, <1>7, <1>8, RestoreDisturbed

\* Somebody starts the services.
LEMMA StartServicesKeeps ==
  ASSUME RestoreIInv, StartServices
  PROVE  RestoreIInv'
<1> USE DEF RestoreIInv
<1>1. /\ services' = TRUE
      /\ packing' = [packing EXCEPT !.quiet = FALSE]
      /\ restore' = [restore EXCEPT !.alone = FALSE]
      /\ UNCHANGED <<server, packed, changes, restores>>
  BY DEF StartServices, DisturbCopies
<1>2. packing' \in [pc : {"idle", "add"}, left : Seq(Files), quiet : BOOLEAN,
                    got : {<< >>} \cup UNION {[D -> PartContents] : D \in SUBSET Parts},
                    began : {<< >>} \cup Servers]
  BY <1>1 DEF RestoreTypes
<1>3. RestoreTypes'
  BY <1>1, <1>2, RestoreDisturbed DEF RestoreTypes
<1>4. ArchivesTrue'
  BY <1>1 DEF ArchivesTrue
<1>5. PackingTrue'
  BY <1>1, PackingDisturbed
<1> QED BY <1>1, <1>3, <1>4, <1>5, RestoreDisturbed

\* The server is set up anew: archives are all that is left.
LEMMA RebuildKeeps ==
  ASSUME RestoreIInv, Rebuild
  PROVE  RestoreIInv'
<1> USE DEF RestoreIInv
<1>1. /\ changes < MaxChanges /\ changes' = changes + 1
      /\ server' = [p \in Parts |-> IF p = Database THEN changes + 1 ELSE Absent]
      /\ services' = FALSE /\ packing' = NoBackup /\ restore' = NoRestore
      /\ UNCHANGED <<packed, restores>>
  BY DEF Rebuild
<1>2. changes \in Nat /\ changes + 1 \in PartContents /\ changes' \in 0..MaxChanges
  BY <1>1, SourceFacts DEF RestoreTypes
<1>3. server' \in Servers
  BY <1>1, <1>2, SourceFacts DEF Servers
<1>4. server'[Database] # Absent
  BY <1>1, <1>2, SourceFacts
<1>5. /\ NoRestore \in [pc : RestorePCs, from : {0} \cup DOMAIN packed, overwrite : BOOLEAN,
                    control : BOOLEAN, import : BOOLEAN, left : Seq(Files), alone : BOOLEAN]
      /\ NoRestore.pc = "none" /\ NoRestore.alone = FALSE
  BY DEF NoRestore, RestorePCs
<1>6. RestoreTypes'
  BY <1>1, <1>2, <1>3, <1>4, <1>5, NoBackupTrue DEF RestoreTypes
<1>7. ArchivesTrue' /\ PackingTrue' /\ RestoreOnTrack' /\ AloneHasRestored'
  BY <1>1, <1>5, NoBackupTrue
     DEF ArchivesTrue, PackingTrue, RestoreOnTrack, AloneHasRestored, Down
<1> QED BY <1>6, <1>7

-----------------------------------------------------------------------------
(* LiveRestore: a backup.                                                  *)

\* The database is dumped.
LEMMA DumpToKeeps ==
  ASSUME RestoreIInv, DumpDatabaseTo
  PROVE  RestoreIInv'
<1> USE DEF RestoreIInv
<1> DEFINE got == [p \in {Database} |-> server[p]]
<1>1. UNCHANGED <<server, services, packed, restore, changes, restores>>
  BY DEF DumpDatabaseTo
<1>2. PICK quiet \in BOOLEAN : quiet = ~Restoring
  OBVIOUS
<1>3. packing' = [pc |-> "add", got |-> got, left |-> Sources, quiet |-> quiet,
                  began |-> server]
  BY <1>2 DEF DumpDatabaseTo
<1>4. got \in [{Database} -> PartContents] /\ {Database} \in SUBSET Parts
  BY SourceFacts DEF RestoreTypes, Servers
<1>5. DOMAIN got = {Database} /\ got[Database] = server[Database]
  OBVIOUS
<1> HIDE DEF got
<1>6. got \in UNION {[D -> PartContents] : D \in SUBSET Parts}
  BY <1>4
<1>7. /\ packing' \in [pc : {"idle", "add"}, left : Seq(Files), quiet : BOOLEAN,
                    got : {<< >>} \cup UNION {[D -> PartContents] : D \in SUBSET Parts},
                    began : {<< >>} \cup Servers]
      /\ packing'.pc = "add" /\ packing'.got = got /\ packing'.left = Sources
      /\ packing'.quiet = quiet /\ packing'.began = server
  BY <1>2, <1>3, <1>6, SourceFacts DEF RestoreTypes
<1>8. RestoreTypes'
  BY <1>1, <1>7 DEF RestoreTypes
<1>9. PackingTrue'
  <2>1. quiet => restore.pc \notin Down
    BY <1>2 DEF Restoring, Down
  <2>2. server \in Servers /\ server[Database] # Absent
    BY DEF RestoreTypes
  <2> QED BY <1>1, <1>2, <1>5, <1>6, <1>7, <2>1, <2>2, SourceFacts DEF PackingTrue
<1>10. ArchivesTrue'
  BY <1>1 DEF ArchivesTrue
<1> QED BY <1>1, <1>8, <1>9, <1>10, RestoreStays

\* A file is added.
LEMMA AddKeeps ==
  ASSUME RestoreIInv, AddPath
  PROVE  RestoreIInv'
<1> USE DEF RestoreIInv
<1>1. /\ UNCHANGED <<server, services, packed, restore, changes, restores>>
      /\ packing.pc = "add" /\ packing.left # << >>
  BY DEF AddPath
<1>2. PICK f : f = Head(packing.left)
  OBVIOUS
<1>3. PICK rest : rest = Tail(packing.left)
  OBVIOUS
<1>4. PICK content : content = IF f \in Links THEN Absent ELSE server[f]
  OBVIOUS
<1>5. PICK got : got = [p \in DOMAIN packing.got \cup {f} |->
                          IF p = f THEN content ELSE packing.got[p]]
  OBVIOUS
<1>6. packing.left \in Seq(Files)
  BY DEF RestoreTypes
<1>7. /\ f \in Files /\ rest \in Seq(Files)
      /\ \A x \in ToSet(packing.left) : x = f \/ x \in ToSet(rest)
  BY <1>1, <1>2, <1>3, <1>6, HeadOrTail
<1>8. /\ packing' = [packing EXCEPT !.left = rest, !.got = got]
  BY <1>2, <1>3, <1>4, <1>5 DEF AddPath, RestoreTypes
<1>9. content \in PartContents /\ (content # Absent => content = server[f])
  BY <1>4, <1>7, SourceFacts DEF RestoreTypes, Servers
<1>10. PICK D \in SUBSET Parts : packing.got \in [D -> PartContents]
  BY <1>1 DEF PackingTrue
<1>11. DOMAIN packing.got = D /\ D \cup {f} \in SUBSET Parts
  BY <1>7, <1>10, SourceFacts
<1>12. /\ DOMAIN got = D \cup {f} /\ got[f] = content
       /\ \A p \in D : p # f => got[p] = packing.got[p]
       /\ got \in [D \cup {f} -> PartContents]
  BY <1>5, <1>9, <1>10, <1>11
<1>13. got \in UNION {[E -> PartContents] : E \in SUBSET Parts}
  BY <1>11, <1>12
<1>14. /\ packing' \in [pc : {"idle", "add"}, left : Seq(Files), quiet : BOOLEAN,
                    got : {<< >>} \cup UNION {[E -> PartContents] : E \in SUBSET Parts},
                    began : {<< >>} \cup Servers]
       /\ packing'.pc = "add" /\ packing'.got = got /\ packing'.left = rest
       /\ packing'.quiet = packing.quiet /\ packing'.began = packing.began
  BY <1>1, <1>7, <1>8, <1>13 DEF RestoreTypes
<1>15. RestoreTypes'
  BY <1>1, <1>14 DEF RestoreTypes
<1>16. PackingTrue'
  <2>1. Database \in DOMAIN got /\ got[Database] # Absent
    BY <1>1, <1>7, <1>11, <1>12, SourceFacts DEF PackingTrue
  <2>2. \A x \in Files : x \in DOMAIN got \/ x \in ToSet(rest)
    BY <1>1, <1>7, <1>11, <1>12 DEF PackingTrue
  <2>3. packing.quiet => \A p \in DOMAIN got : got[p] # Absent => got[p] = server[p]
    BY <1>1, <1>9, <1>11, <1>12 DEF PackingTrue
  <2>4. /\ packing.began \in Servers
        /\ packing.quiet => packing.began = server /\ restore.pc \notin Down
    BY <1>1 DEF PackingTrue
  <2> QED BY <1>1, <1>13, <1>14, <2>1, <2>2, <2>3, <2>4 DEF PackingTrue
<1>17. ArchivesTrue'
  BY <1>1 DEF ArchivesTrue
<1> QED BY <1>1, <1>15, <1>16, <1>17, RestoreStays

\* The archive is written.
LEMMA FinishKeeps ==
  ASSUME RestoreIInv, FinishBackup
  PROVE  RestoreIInv'
<1> USE DEF RestoreIInv
<1> DEFINE archive == [content |-> packing.got, quiet |-> packing.quiet,
                       began |-> packing.began]
<1>1. /\ UNCHANGED <<server, services, restore, changes, restores>>
      /\ packing.pc = "add" /\ packing.left = << >>
      /\ packed' = Append(packed, archive) /\ packing' = NoBackup
  BY DEF FinishBackup
<1>2. PICK D \in SUBSET Parts : packing.got \in [D -> PartContents]
  BY <1>1 DEF PackingTrue
<1>3. D = Parts
  BY <1>1, <1>2, SourceFacts DEF PackingTrue, ToSet, Parts
<1>4. /\ packing.got \in Servers /\ packing.began \in Servers /\ packing.quiet \in BOOLEAN
  BY <1>1, <1>2, <1>3 DEF PackingTrue, Servers, RestoreTypes
<1>5. archive \in Archives
  BY <1>4 DEF Archives
<1>6. ArchiveTrue(archive)
  BY <1>1, <1>2, <1>3 DEF ArchiveTrue, PackingTrue
<1> HIDE DEF archive
<1>7. /\ packed \in Seq(Archives) /\ packed' \in Seq(Archives)
      /\ DOMAIN packed' = DOMAIN packed \cup {Len(packed) + 1}
      /\ \A a \in DOMAIN packed : packed'[a] = packed[a]
      /\ packed'[Len(packed) + 1] = archive
  BY <1>1, <1>5 DEF RestoreTypes
<1>8. RestoreTypes'
  BY <1>1, <1>7, NoBackupTrue DEF RestoreTypes
<1>9. ArchivesTrue'
  BY <1>6, <1>7 DEF ArchivesTrue
<1>10. PackingTrue'
  BY <1>1, NoBackupTrue DEF PackingTrue
<1> QED BY <1>1, <1>7, <1>8, <1>9, <1>10, RestoreStays

\* A backup fails.
LEMMA FailBackupKeeps ==
  ASSUME RestoreIInv, FailBackup
  PROVE  RestoreIInv'
<1> USE DEF RestoreIInv
<1>1. /\ UNCHANGED <<server, services, packed, restore, changes, restores>>
      /\ packing' = NoBackup
  BY DEF FailBackup
<1>2. RestoreTypes'
  BY <1>1, NoBackupTrue DEF RestoreTypes
<1>3. ArchivesTrue' /\ PackingTrue'
  BY <1>1, NoBackupTrue DEF ArchivesTrue, PackingTrue
<1> QED BY <1>1, <1>2, <1>3, RestoreStays

-----------------------------------------------------------------------------
(* LiveRestore: a restore.                                                 *)

RestoreRecords == [pc : RestorePCs, from : {0} \cup DOMAIN packed, overwrite : BOOLEAN,
                   control : BOOLEAN, import : BOOLEAN, left : Seq(Files), alone : BOOLEAN]

\* The restore has become the one with these fields.
RestoreIs(pc, todo) ==
    /\ restore' \in RestoreRecords /\ restore'.pc = pc /\ restore'.left = todo
    /\ restore'.from = restore.from /\ restore'.control = restore.control
    /\ restore'.import = restore.import /\ restore'.alone = restore.alone

\* A restore that goes on: to another step, with what is left, or both.
LEMMA RestoreGoesOn ==
  ASSUME RestoreTypes, NEW pc \in RestorePCs, restore' = [restore EXCEPT !.pc = pc]
  PROVE  RestoreIs(pc, restore.left)
BY DEF RestoreTypes, RestoreIs, RestoreRecords

LEMMA RestoreGoesOnWith ==
  ASSUME RestoreTypes, NEW todo \in Seq(Files), restore' = [restore EXCEPT !.left = todo]
  PROVE  RestoreIs(restore.pc, todo)
BY DEF RestoreTypes, RestoreIs, RestoreRecords

LEMMA RestoreTakesNext ==
  ASSUME RestoreTypes, NEW pc \in RestorePCs, NEW todo \in Seq(Files),
         restore' = [restore EXCEPT !.pc = pc, !.left = todo]
  PROVE  RestoreIs(pc, todo)
BY DEF RestoreTypes, RestoreIs, RestoreRecords

\* The places a restore can be at.
LEMMA RestorePlaces == {"copy", "fill", "import", "permissions", "done"} \subseteq RestorePCs
BY DEF RestorePCs, Down

\* A step of the restore from the first file on.
LEMMA DownKeeps ==
  ASSUME RestoreIInv, UNCHANGED <<packing, packed, changes, restores>>,
         restore.pc \in Down,
         server' \in Servers, server'[Database] # Absent, services' \in BOOLEAN,
         restore' \in RestoreRecords,
         RestoreOnTrack', AloneHasRestored'
  PROVE  RestoreIInv'
<1> USE DEF RestoreIInv
<1>1. RestoreTypes'
  BY DEF RestoreTypes, RestoreRecords
<1>2. ArchivesTrue'
  BY DEF ArchivesTrue
<1>3. PackingTrue'
  <2>1. ~(packing.pc = "add" /\ packing.quiet)
    BY DEF PackingTrue
  <2> QED BY <2>1, PackingStays
<1> QED BY <1>1, <1>2, <1>3

\* The archive that a running restore copies from.
LEMMA SourceArchive ==
  ASSUME RestoreIInv, restore.pc \in Down
  PROVE  /\ restore.from \in DOMAIN packed
         /\ \A p \in Parts : Content(p) \in PartContents
         /\ Content(Database) # Absent
<1>1. restore.from \in DOMAIN packed
  BY DEF RestoreIInv, RestoreOnTrack
<1>2. /\ packed[restore.from].content \in Servers /\ ArchiveTrue(packed[restore.from])
  BY <1>1, ArchiveType DEF RestoreIInv, RestoreTypes, ArchivesTrue
<1> QED BY <1>1, <1>2 DEF Content, Servers, ArchiveTrue

\* A restore begins.
LEMMA BeginRestoreKeeps ==
  ASSUME RestoreIInv, RestoreWithKey
  PROVE  RestoreIInv'
<1> USE DEF RestoreIInv
<1>1. /\ UNCHANGED <<server, services, packing, packed, changes>>
      /\ restores < MaxRestores /\ restores' = restores + 1
  BY DEF RestoreWithKey
<1>2. PICK a \in DOMAIN packed, overwrite \in BOOLEAN, control \in BOOLEAN, import \in BOOLEAN :
         restore' = [pc |-> "stop", from |-> a, overwrite |-> overwrite, control |-> control,
                     import |-> import, left |-> Sources, alone |-> TRUE]
  BY DEF RestoreWithKey
<1>3. /\ restore' \in RestoreRecords /\ restore'.pc = "stop" /\ restore'.left = Sources
      /\ restore'.from \in DOMAIN packed
  BY <1>2, SourceFacts DEF RestoreRecords, RestorePCs
<1>4. restores' \in 0..MaxRestores
  BY <1>1, SourceFacts DEF RestoreTypes
<1>5. RestoreTypes'
  BY <1>1, <1>3, <1>4 DEF RestoreTypes, RestoreRecords
<1>6. ArchivesTrue'
  BY <1>1 DEF ArchivesTrue
<1>7. PackingTrue'
  <2>1. restore'.pc \notin Down
    BY <1>3 DEF Down
  <2> QED BY <1>1, <2>1, PackingStays
<1>8. RestoreOnTrack' /\ AloneHasRestored'
  BY <1>1, <1>3 DEF RestoreOnTrack, AloneHasRestored, Down
<1> QED BY <1>5, <1>6, <1>7, <1>8

\* The services are stopped, if the restore is to.
LEMMA StopServicesKeeps ==
  ASSUME RestoreIInv, StopServices
  PROVE  RestoreIInv'
<1> USE DEF RestoreIInv
<1>1. /\ UNCHANGED <<server, packed, changes, restores>>
      /\ restore.pc = "stop" /\ services' = (services /\ ~restore.control)
      /\ packing' = [packing EXCEPT !.quiet = FALSE]
      /\ restore' = [restore EXCEPT !.pc = "copy"]
  BY DEF StopServices
<1>2. RestoreIs("copy", restore.left)
  BY <1>1, RestoreGoesOn, RestorePlaces
<1>3. restore.left = Sources /\ restore.from \in DOMAIN packed
  BY <1>1 DEF RestoreOnTrack
<1>4. packing' \in [pc : {"idle", "add"}, left : Seq(Files), quiet : BOOLEAN,
                    got : {<< >>} \cup UNION {[D -> PartContents] : D \in SUBSET Parts},
                    began : {<< >>} \cup Servers]
  BY <1>1 DEF RestoreTypes
<1>5. services' \in BOOLEAN /\ (restore.control => ~services')
  BY <1>1 DEF RestoreTypes
<1>6. RestoreTypes'
  BY <1>1, <1>2, <1>4, <1>5 DEF RestoreTypes, RestoreIs, RestoreRecords
<1>7. ArchivesTrue'
  BY <1>1 DEF ArchivesTrue
<1>8. PackingTrue'
  BY <1>1, PackingDisturbed
<1>9. RestoreOnTrack'
  BY <1>1, <1>2, <1>3 DEF RestoreOnTrack, RestoreIs
<1>10. AloneHasRestored'
  BY <1>2, <1>3, <1>5, SourceFacts DEF AloneHasRestored, RestoreIs
<1> QED BY <1>6, <1>7, <1>8, <1>9, <1>10

\* A file that the archive does not have is passed over.
LEMMA SkipMappingKeeps ==
  ASSUME RestoreIInv, SkipMapping
  PROVE  RestoreIInv'
<1> USE DEF RestoreIInv
<1> DEFINE f == Head(restore.left)
           rest == Tail(restore.left)
<1>1. /\ UNCHANGED <<server, services, packing, packed, changes, restores>>
      /\ restore.pc = "copy" /\ restore.left # << >> /\ Content(f) = Absent
      /\ restore' = [restore EXCEPT !.left = rest]
  BY DEF SkipMapping
<1>2. /\ f \in Files /\ rest \in Seq(Files)
      /\ \A x \in ToSet(restore.left) : x = f \/ x \in ToSet(rest)
  BY <1>1, HeadOrTail DEF RestoreTypes
<1> HIDE DEF f, rest
<1>3. RestoreIs("copy", rest)
  BY <1>1, <1>2, RestoreGoesOnWith
<1>4. RestoreOnTrack'
  BY <1>1, <1>3 DEF RestoreOnTrack, RestoreIs, Down
<1>5. \A x \in Parts : Content(x)' = Content(x) /\ (Restored(x) => Restored(x)')
  BY <1>1, <1>3 DEF Content, Restored, RestoreIs
<1>6. AloneHasRestored'
  <2>1. Restored(f)
    BY <1>1 DEF Restored
  <2> QED BY <1>1, <1>2, <1>3, <1>5, <2>1, SourceFacts DEF AloneHasRestored, RestoreIs, Down
<1> QED BY <1>1, <1>3, <1>4, <1>6, DownKeeps DEF RestoreTypes, RestoreIs, Down

\* A target is opened: it is cut, and it is left to be written.
LEMMA OpenTargetKeeps ==
  ASSUME RestoreIInv, OpenTarget
  PROVE  RestoreIInv'
<1> USE DEF RestoreIInv
<1> DEFINE f == Head(restore.left)
<1>1. /\ UNCHANGED <<services, packing, packed, changes, restores>>
      /\ restore.pc = "copy" /\ restore.left # << >>
      /\ server' = [server EXCEPT ![f] = Cut]
      /\ restore' = [restore EXCEPT !.pc = "fill"]
  BY DEF OpenTarget, NextRestoreStep
<1>2. f \in Files /\ f \in ToSet(restore.left)
  BY <1>1, HeadOrTail DEF RestoreTypes
<1> HIDE DEF f
<1>3. RestoreIs("fill", restore.left)
  BY <1>1, RestoreGoesOn, RestorePlaces
<1>4. RestoreOnTrack'
  BY <1>1, <1>3 DEF RestoreOnTrack, RestoreIs, Down
<1>5. server' \in Servers /\ server'[Database] = server[Database]
  BY <1>1, <1>2, SourceFacts DEF RestoreTypes, Servers
<1>6. \A x \in Parts : x # f /\ Restored(x) => Restored(x)'
  BY <1>1, <1>3 DEF Content, Restored, RestoreIs, RestoreTypes, Servers
<1>7. AloneHasRestored'
  BY <1>1, <1>2, <1>3, <1>6, SourceFacts DEF AloneHasRestored, RestoreIs, Down
<1> QED BY <1>1, <1>3, <1>4, <1>5, <1>7, DownKeeps DEF RestoreTypes, RestoreIs, Down

\* It is written: it is as the archive has it.
LEMMA CopyFileKeeps ==
  ASSUME RestoreIInv, CopyFile
  PROVE  RestoreIInv'
<1> USE DEF RestoreIInv
<1> DEFINE rest == Tail(restore.left)
<1>0. PICK f : f = Head(restore.left)
  OBVIOUS
<1>1. /\ UNCHANGED <<services, packing, packed, changes, restores>>
      /\ restore.pc = "fill"
      /\ server' = [server EXCEPT ![f] = Content(f)]
      /\ restore' = [restore EXCEPT !.pc = "copy", !.left = rest]
  BY <1>0 DEF CopyFile
<1>2. restore.left # << >>
  BY <1>1 DEF RestoreOnTrack
<1>3. /\ f \in Files /\ rest \in Seq(Files)
      /\ \A x \in ToSet(restore.left) : x = f \/ x \in ToSet(rest)
  BY <1>0, <1>2, HeadOrTail DEF RestoreTypes
<1> HIDE DEF rest
<1>4. RestoreIs("copy", rest)
  BY <1>1, <1>3, RestoreTakesNext, RestorePlaces
<1>5. RestoreOnTrack'
  BY <1>1, <1>4 DEF RestoreOnTrack, RestoreIs, Down
<1>6. restore.pc \in Down
  BY <1>1 DEF Down
<1>7. server' \in Servers /\ server'[Database] = server[Database] /\ server'[f] = Content(f)
  BY <1>1, <1>3, <1>6, SourceArchive, SourceFacts DEF RestoreTypes, Servers
<1>8. /\ \A x \in Parts : Restored(x) => Restored(x)'
      /\ Restored(f)'
  <2>1. \A x : Content(x)' = Content(x)
    BY <1>1, <1>4 DEF Content, RestoreIs
  <2>2. Restored(f)'
    BY <1>7, <2>1 DEF Restored
  <2>3. \A x \in Parts : x # f => server'[x] = server[x]
    BY <1>1 DEF RestoreTypes, Servers
  <2> QED BY <2>1, <2>2, <2>3 DEF Restored
<1>9. AloneHasRestored'
  BY <1>1, <1>3, <1>4, <1>8, SourceFacts DEF AloneHasRestored, RestoreIs, Down
<1> QED BY <1>1, <1>4, <1>5, <1>6, <1>7, <1>9, DownKeeps DEF RestoreTypes, RestoreIs

\* After the last file the database is begun, or passed over.
LEMMA BeginImportDatabaseKeeps ==
  ASSUME RestoreIInv, BeginImportDatabase
  PROVE  RestoreIInv'
<1> USE DEF RestoreIInv
<1>1. /\ UNCHANGED <<services, packing, packed, changes, restores>>
      /\ restore.pc = "copy" /\ restore.left = << >>
  BY DEF BeginImportDatabase, AllMapped
<1>2. restore.pc \in Down
  BY <1>1 DEF Down
<1>3. \A f \in Files : f \notin ToSet(restore.left)
  BY <1>1 DEF ToSet
<1>4. CASE restore.import
  <2>1. /\ server' = [server EXCEPT ![Database] = Cut]
        /\ restore' = [restore EXCEPT !.pc = "import"]
    BY <1>4 DEF BeginImportDatabase, NextRestoreStep
  <2>2. RestoreIs("import", << >>)
    BY <1>1, <2>1, RestoreGoesOn, RestorePlaces
  <2>3. RestoreOnTrack'
    BY <1>1, <1>2, <2>2 DEF RestoreOnTrack, RestoreIs
  <2>4. server' \in Servers /\ server'[Database] # Absent
    BY <2>1, SourceFacts DEF RestoreTypes, Servers
  <2>5. \A x \in Files : Restored(x) => Restored(x)'
    BY <1>1, <2>1, <2>2, SourceFacts DEF Content, Restored, RestoreIs, RestoreTypes, Servers
  <2>6. AloneHasRestored'
    BY <1>1, <1>2, <1>3, <2>2, <2>5 DEF AloneHasRestored, RestoreIs
  <2> QED BY <1>1, <1>2, <2>2, <2>3, <2>4, <2>6, DownKeeps DEF RestoreTypes, RestoreIs
<1>5. CASE ~restore.import
  <2>1. server' = server /\ restore' = [restore EXCEPT !.pc = "permissions"]
    BY <1>5 DEF BeginImportDatabase, NextRestoreStep
  <2>2. RestoreIs("permissions", << >>)
    BY <1>1, <2>1, RestoreGoesOn, RestorePlaces
  <2>3. RestoreOnTrack'
    BY <1>1, <1>2, <2>2 DEF RestoreOnTrack, RestoreIs
  <2>4. \A x \in Files : Restored(x) => Restored(x)'
    BY <1>1, <2>1, <2>2 DEF Content, Restored, RestoreIs
  <2>5. AloneHasRestored'
    BY <1>1, <1>2, <1>3, <1>5, <2>2, <2>4 DEF AloneHasRestored, RestoreIs
  <2> QED BY <1>1, <1>2, <2>1, <2>2, <2>3, <2>5, DownKeeps DEF RestoreTypes, RestoreIs
<1> QED BY <1>4, <1>5

\* The database is imported.
LEMMA ImportDatabaseKeeps ==
  ASSUME RestoreIInv, ImportDatabase
  PROVE  RestoreIInv'
<1> USE DEF RestoreIInv
<1>1. /\ UNCHANGED <<services, packing, packed, changes, restores>>
      /\ restore.pc = "import"
      /\ server' = [server EXCEPT ![Database] = Content(Database)]
      /\ restore' = [restore EXCEPT !.pc = "permissions"]
  BY DEF ImportDatabase, NextRestoreStep
<1>2. restore.pc \in Down /\ restore.left = << >>
  BY <1>1 DEF Down, RestoreOnTrack
<1>3. RestoreIs("permissions", << >>)
  BY <1>1, <1>2, RestoreGoesOn, RestorePlaces
<1>4. RestoreOnTrack'
  BY <1>1, <1>2, <1>3 DEF RestoreOnTrack, RestoreIs
<1>5. /\ server' \in Servers /\ server'[Database] # Absent
      /\ server'[Database] = Content(Database)
  BY <1>1, <1>2, SourceArchive, SourceFacts DEF RestoreTypes, Servers
<1>6. /\ \A x \in Files : Restored(x) => Restored(x)'
      /\ Restored(Database)'
  BY <1>1, <1>3, <1>5, SourceFacts DEF Content, Restored, RestoreIs, RestoreTypes, Servers
<1>7. AloneHasRestored'
  BY <1>1, <1>2, <1>3, <1>6 DEF AloneHasRestored, RestoreIs
<1> QED BY <1>1, <1>2, <1>3, <1>4, <1>5, <1>7, DownKeeps DEF RestoreTypes, RestoreIs

\* Owners and modes are set, and the services start.
LEMMA PermissionsKeep ==
  ASSUME RestoreIInv, ApplyPermissions
  PROVE  RestoreIInv'
<1> USE DEF RestoreIInv
<1>1. /\ UNCHANGED <<server, packing, packed, changes, restores>>
      /\ restore.pc = "permissions" /\ services' = (services \/ restore.control)
      /\ restore' = [restore EXCEPT !.pc = "done"]
  BY DEF ApplyPermissions, NextRestoreStep
<1>2. restore.pc \in Down /\ restore.left = << >> /\ "done" \notin Down
  BY <1>1 DEF Down, RestoreOnTrack
<1>3. RestoreIs("done", << >>)
  BY <1>1, <1>2, RestoreGoesOn, RestorePlaces
<1>4. RestoreOnTrack'
  BY <1>1, <1>2, <1>3 DEF RestoreOnTrack, RestoreIs
<1>5. services' \in BOOLEAN
  BY <1>1 DEF RestoreTypes
<1>6. \A x \in Parts : Restored(x) => Restored(x)'
  BY <1>1, <1>3 DEF Content, Restored, RestoreIs
<1>7. AloneHasRestored'
  BY <1>1, <1>2, <1>3, <1>6, SourceFacts DEF AloneHasRestored, RestoreIs
<1> QED BY <1>1, <1>2, <1>3, <1>4, <1>5, <1>7, DownKeeps DEF RestoreTypes, RestoreIs

\* A restore that fails leaves the services as they are.
LEMMA FailRestoreKeeps ==
  ASSUME RestoreIInv, FailRestore
  PROVE  RestoreIInv'
<1> USE DEF RestoreIInv
<1>1. /\ UNCHANGED <<server, services, packing, packed, changes, restores>>
      /\ restore' = [NoRestore EXCEPT !.pc = "failed", !.control = restore.control,
                       !.left = restore.left, !.alone = restore.alone]
      /\ restore.pc \notin {"none", "done", "failed"}
  BY DEF FailRestore, Restoring
<1>2. restore.pc \in {"stop"} \cup Down
  BY <1>1 DEF RestoreTypes, RestorePCs
<1>3. NoRestore \in RestoreRecords /\ "failed" \in RestorePCs /\ "failed" \notin Down
  BY DEF NoRestore, RestoreRecords, RestorePCs, Down
<1>4. /\ restore' \in RestoreRecords /\ restore'.pc = "failed"
      /\ restore'.control = restore.control /\ restore'.left = restore.left
      /\ restore'.alone = restore.alone
  BY <1>1, <1>3 DEF RestoreTypes, RestoreRecords
<1>5. RestoreTypes'
  BY <1>1, <1>4 DEF RestoreTypes, RestoreRecords
<1>6. ArchivesTrue'
  BY <1>1 DEF ArchivesTrue
<1>7. PackingTrue'
  BY <1>1, <1>3, <1>4, PackingStays
<1>8. RestoreOnTrack'
  BY <1>3, <1>4 DEF RestoreOnTrack
<1>9. AloneHasRestored'
  BY <1>1, <1>2, <1>3, <1>4 DEF AloneHasRestored, RestoreOnTrack
<1> QED BY <1>5, <1>6, <1>7, <1>8, <1>9

-----------------------------------------------------------------------------
(* LiveRestore: the theorems.                                              *)

\* A server that nobody has changed, backed up or restored.
LEMMA RestoreInitHolds == LiveRestoreInit => RestoreIInv
<1> SUFFICES ASSUME LiveRestoreInit
             PROVE  RestoreIInv
  OBVIOUS
<1> USE DEF LiveRestoreInit
<1>1. server \in Servers /\ server[Database] # Absent
  BY SourceFacts DEF Servers
<1>2. NoRestore \in RestoreRecords /\ NoRestore.pc = "none" /\ NoRestore.alone = FALSE
  BY DEF NoRestore, RestoreRecords, RestorePCs
<1>3. packed \in Seq(Archives) /\ DOMAIN packed = {}
  OBVIOUS
<1>4. 0 \in 0..MaxChanges /\ 0 \in 0..MaxRestores
  BY SourceFacts
<1>5. RestoreTypes
  BY <1>1, <1>2, <1>3, <1>4, NoBackupTrue DEF RestoreTypes, RestoreRecords
<1>6. ArchivesTrue /\ PackingTrue /\ RestoreOnTrack /\ AloneHasRestored
  BY <1>2, <1>3, NoBackupTrue
     DEF ArchivesTrue, PackingTrue, RestoreOnTrack, AloneHasRestored, Down
<1> QED BY <1>5, <1>6 DEF RestoreIInv

\* Every step keeps the invariant.
LEMMA RestoreNextKeeps == RestoreIInv /\ [LiveRestoreNext]_liveRestoreVars => RestoreIInv'
BY RestoreStutters, RewriteKeeps, StartServicesKeeps, RebuildKeeps, DumpToKeeps, AddKeeps,
   FinishKeeps, FailBackupKeeps, BeginRestoreKeeps, StopServicesKeeps, SkipMappingKeeps,
   OpenTargetKeeps, CopyFileKeeps, BeginImportDatabaseKeeps, ImportDatabaseKeeps,
   PermissionsKeep, FailRestoreKeeps
   DEF LiveRestoreNext

\* The server, the archives, the backup and the restore have their types.
THEOREM LiveRestoreTypes == LiveRestoreSpec => []LiveRestoreTypeOK
<1>1. RestoreIInv => LiveRestoreTypeOK
  <2> SUFFICES ASSUME RestoreIInv
               PROVE  LiveRestoreTypeOK
    OBVIOUS
  <2>1. \A a \in DOMAIN packed : DOMAIN packed[a].content = Parts
    BY ArchiveType DEF RestoreIInv, RestoreTypes, Servers
  <2> QED BY <2>1 DEF RestoreIInv, RestoreTypes, LiveRestoreTypeOK, Servers, PartContents
<1> QED BY <1>1, RestoreInitHolds, RestoreNextKeeps, PTL DEF LiveRestoreSpec

\* A restore that ended well with nobody beside it left every part as the
\* archive has it, whatever failed restores, rebuilt servers and disturbed
\* backups came before; and what is half restored is not served.
THEOREM RestoresAreWhole == LiveRestoreSpec => []RestoreIsWhole
<1>1. RestoreIInv => RestoreIsWhole
  <2> SUFFICES ASSUME RestoreIInv, restore.alone
               PROVE  /\ restore.pc = "done" =>
                           \A p \in Parts :
                             Content(p) # Absent /\ (p = Database => restore.import)
                               => /\ server[p] = Content(p)
                                  /\ packed[restore.from].quiet =>
                                       server[p] = packed[restore.from].began[p]
                      /\ restore.control /\ restore.pc \notin {"none", "stop", "done"}
                           => ~services \/ restore.left = Sources
    BY DEF RestoreIsWhole
  <2>1. ASSUME restore.pc = "done", NEW p \in Parts, Content(p) # Absent,
               p = Database => restore.import
        PROVE  /\ server[p] = Content(p)
               /\ packed[restore.from].quiet => server[p] = packed[restore.from].began[p]
    <3>1. restore.from \in DOMAIN packed /\ restore.left = << >>
      BY <2>1 DEF RestoreIInv, RestoreOnTrack
    <3>2. Restored(p)
      <4>1. CASE p \in Files
        BY <2>1, <3>1, <4>1 DEF RestoreIInv, AloneHasRestored, ToSet
      <4>2. CASE p = Database
        BY <2>1, <4>2 DEF RestoreIInv, AloneHasRestored
      <4> QED BY <4>1, <4>2 DEF Parts
    <3>3. server[p] = Content(p)
      BY <2>1, <3>2 DEF Restored
    <3>4. ArchiveTrue(packed[restore.from])
      BY <3>1 DEF RestoreIInv, ArchivesTrue
    <3> QED BY <2>1, <3>3, <3>4 DEF ArchiveTrue, Content
  <2>2. ASSUME restore.control, restore.pc \notin {"none", "stop", "done"}
        PROVE  ~services \/ restore.left = Sources
    BY <2>2 DEF RestoreIInv, AloneHasRestored, RestoreTypes, RestorePCs
  <2> QED BY <2>1, <2>2
<1> QED BY <1>1, RestoreInitHolds, RestoreNextKeeps, PTL DEF LiveRestoreSpec

-----------------------------------------------------------------------------
(* Directory: the inductive invariant.                                     *)

TenantsOK == tenantRows \in Seq(TenantRow) /\ Len(tenantRows) <= MaxTenants

DomainsOK == /\ domainRows \in Seq(DomainRow) /\ Len(domainRows) <= MaxDomains
             /\ \A d \in Domains : domainRows[d].tenant \in Tenants

UsersOK == /\ userRows \in Seq(UserRow)
           /\ \A u \in Users : userRows[u].tenant \in Tenants /\ userRows[u].domain \in Domains

RoutesOK == /\ aliasRows \subseteq AliasRow /\ catchRows \subseteq CatchRow
            /\ shareRows \subseteq ShareRow /\ grantRows \subseteq GrantRow

\* What is still to be inserted belongs to a domain that is.
CreatingOK == /\ creating \in [domain : Nat, tenant : Nat, left : Seq(Locals)]
              /\ creating.left # << >> => creating.domain \in Domains /\ creating.tenant \in Tenants

RestOK == /\ mailOf \subseteq Addresses \X Users /\ renamed \subseteq Addresses
          /\ edits \in 0..MaxEdits

\* The unique keys of the tables.
NamesUnique == \A d, e \in Domains : domainRows[d].name = domainRows[e].name => d = e

LocalsUnique ==
    \A u, v \in Users :
        userRows[u].domain = userRows[v].domain /\ userRows[u].local = userRows[v].local
            => u = v

\* A directory that no change of name has left holds the mail of the account
\* at its address.
MailAtAddress == \A m \in mailOf : m[1] \notin renamed => m[1] = AddressOf(m[2])

DirectoryIInv == /\ TenantsOK /\ DomainsOK /\ UsersOK /\ RoutesOK /\ CreatingOK /\ RestOK
                 /\ NamesUnique /\ LocalsUnique /\ MailAtAddress

-----------------------------------------------------------------------------
(* What the inserts and updates of the tables keep.                        *)

LEMMA DirectoryNumbers == /\ MaxTenants \in Nat \ {0} /\ MaxDomains \in Nat \ {0}
                          /\ MaxEdits \in Nat /\ SystemLocals \in Seq(Locals)
BY DirectoryAssumptions

\* The tables only grow: what referred to their rows still does.
LEMMA TenantsGrow ==
    ASSUME DirectoryIInv, TenantsOK', Tenants \subseteq Tenants',
           UNCHANGED <<domainRows, userRows, routes, creating, mailOf, renamed>>,
           edits' \in 0..MaxEdits
    PROVE  DirectoryIInv'
<1>1. Domains' = Domains /\ Users' = Users
    BY DEF Domains, Users
<1>2. UNCHANGED <<aliasRows, catchRows, shareRows, grantRows>>
    BY DEF routes
<1>3. DomainsOK' /\ UsersOK' /\ CreatingOK' /\ RestOK'
    BY <1>1 DEF DirectoryIInv, DomainsOK, UsersOK, CreatingOK, RestOK
<1>4. RoutesOK'
    BY <1>1, <1>2 DEF DirectoryIInv, RoutesOK, AliasRow, CatchRow, ShareRow, GrantRow
<1>5. NamesUnique' /\ LocalsUnique'
    BY <1>1 DEF DirectoryIInv, NamesUnique, LocalsUnique
<1>6. MailAtAddress'
    BY DEF DirectoryIInv, MailAtAddress, AddressOf
<1> QED BY <1>3, <1>4, <1>5, <1>6 DEF DirectoryIInv

\* An edit of the routes.
LEMMA RoutesChange ==
    ASSUME DirectoryIInv, UNCHANGED accounts, RoutesOK', edits' \in 0..MaxEdits
    PROVE  DirectoryIInv'
<1>1. UNCHANGED <<tenantRows, domainRows, userRows, creating, mailOf, renamed>>
    BY DEF accounts
<1>2. Tenants' = Tenants /\ Domains' = Domains /\ Users' = Users
    BY <1>1 DEF Tenants, Domains, Users
<1>3. TenantsOK' /\ DomainsOK' /\ UsersOK' /\ CreatingOK' /\ RestOK'
    BY <1>1, <1>2 DEF DirectoryIInv, TenantsOK, DomainsOK, UsersOK, CreatingOK, RestOK
<1>4. NamesUnique' /\ LocalsUnique'
    BY <1>1, <1>2 DEF DirectoryIInv, NamesUnique, LocalsUnique
<1>5. MailAtAddress'
    BY <1>1 DEF DirectoryIInv, MailAtAddress, AddressOf
<1> QED BY <1>3, <1>4, <1>5 DEF DirectoryIInv

\* Rows of users: an insert, or a new row in the place of one, under a free
\* address; who moves leaves the directory behind.
LEMMA UserInserted ==
    ASSUME DirectoryIInv, NEW row \in UserRow, InsertUser(row),
           UNCHANGED <<tenantRows, domainRows, routes, mailOf, renamed>>,
           CreatingOK', edits' \in 0..MaxEdits
    PROVE  DirectoryIInv'
<1>1. /\ userRows \in Seq(UserRow) /\ userRows' = Append(userRows, row)
      /\ row.tenant \in Tenants /\ row.domain \in Domains
      /\ AddressFree(row.domain, row.local, 0)
    BY DEF InsertUser, DirectoryIInv, UsersOK
<1>2. /\ Len(userRows) \in Nat /\ Users = 1..Len(userRows)
      /\ Users' = 1..(Len(userRows) + 1)
      /\ \A u \in Users : userRows'[u] = userRows[u]
      /\ userRows'[Len(userRows) + 1] = row
    BY <1>1 DEF Users
<1>3. \A u \in Users' : u \in Users \/ u = Len(userRows) + 1
    BY <1>2
<1>4. UNCHANGED <<aliasRows, catchRows, shareRows, grantRows>>
    BY DEF routes
<1>5. Tenants' = Tenants /\ Domains' = Domains /\ Users \subseteq Users'
    BY <1>2 DEF Tenants, Domains
<1>6. TenantsOK' /\ DomainsOK'
    BY <1>5 DEF DirectoryIInv, TenantsOK, DomainsOK
<1>7. UsersOK'
    <2>1. userRows' \in Seq(UserRow)
        BY <1>1
    <2> QED BY <1>1, <1>2, <1>3, <1>5, <2>1 DEF DirectoryIInv, UsersOK
<1>8. RoutesOK'
    BY <1>4, <1>5 DEF DirectoryIInv, RoutesOK, AliasRow, CatchRow, ShareRow, GrantRow
<1>9. RestOK'
    BY <1>5 DEF DirectoryIInv, RestOK
<1>10. NamesUnique'
    BY <1>5 DEF DirectoryIInv, NamesUnique
<1>11. LocalsUnique'
    <2>1. ASSUME NEW u \in Users
          PROVE  ~(userRows[u].domain = row.domain /\ userRows[u].local = row.local)
        <3>1. u \in Users \ {0}
            BY <1>2
        <3>2. <<userRows[u].domain, userRows[u].local>> # <<row.domain, row.local>>
            BY <1>1, <3>1 DEF AddressFree
        <3> QED BY <3>2
    <2>2. ASSUME NEW u \in Users', NEW v \in Users',
                 userRows'[u].domain = userRows'[v].domain,
                 userRows'[u].local = userRows'[v].local
          PROVE  u = v
        <3>1. CASE u \in Users /\ v \in Users
            <4>1. userRows'[u] = userRows[u] /\ userRows'[v] = userRows[v]
                BY <1>2, <3>1
            <4> QED BY <2>2, <3>1, <4>1 DEF DirectoryIInv, LocalsUnique
        <3>2. CASE u \in Users /\ v = Len(userRows) + 1
            BY <1>2, <2>1, <2>2, <3>2
        <3>3. CASE v \in Users /\ u = Len(userRows) + 1
            BY <1>2, <2>1, <2>2, <3>3
        <3> QED BY <1>3, <3>1, <3>2, <3>3
    <2> QED BY <2>2 DEF LocalsUnique
<1>12. MailAtAddress'
    <2>1. \A u \in Users : AddressOf(u)' = AddressOf(u)
        BY <1>2 DEF AddressOf
    <2>2. \A m \in mailOf : m[2] \in Users
        BY DEF DirectoryIInv, RestOK
    <2>3. \A m \in mailOf : m[1] \notin renamed => m[1] = AddressOf(m[2])'
        BY <2>1, <2>2 DEF DirectoryIInv, MailAtAddress
    <2> QED BY <2>3 DEF MailAtAddress
<1> QED BY <1>6, <1>7, <1>8, <1>9, <1>10, <1>11, <1>12 DEF DirectoryIInv

LEMMA UserReplaced ==
    ASSUME DirectoryIInv, NEW u \in Users, NEW row \in UserRow,
           row.tenant \in Tenants, row.domain \in Domains,
           AddressFree(row.domain, row.local, u),
           userRows' = [userRows EXCEPT ![u] = row],
           renamed' = renamed \/ renamed' = renamed \cup {AddressOf(u)},
           \/ renamed' = renamed \cup {AddressOf(u)}
           \/ row.domain = userRows[u].domain /\ row.local = userRows[u].local,
           UNCHANGED <<tenantRows, domainRows, routes, creating, mailOf>>,
           edits' \in 0..MaxEdits
    PROVE  DirectoryIInv'
<1>1. userRows \in Seq(UserRow) /\ Users = 1..Len(userRows) /\ Len(userRows) \in Nat
    BY DEF DirectoryIInv, UsersOK, Users
<1>2. /\ userRows' \in Seq(UserRow) /\ DOMAIN userRows' = DOMAIN userRows
      /\ userRows'[u] = row
      /\ \A v \in Users \ {u} : userRows'[v] = userRows[v]
    BY <1>1 DEF Users
<1>3. UNCHANGED <<aliasRows, catchRows, shareRows, grantRows>>
    BY DEF routes
<1>4. Tenants' = Tenants /\ Domains' = Domains /\ Users' = Users
    BY <1>2 DEF Tenants, Domains, Users
<1>5. TenantsOK' /\ DomainsOK' /\ CreatingOK'
    BY <1>4 DEF DirectoryIInv, TenantsOK, DomainsOK, CreatingOK
<1>6. UsersOK'
    BY <1>2, <1>4 DEF DirectoryIInv, UsersOK
<1>7. RoutesOK'
    BY <1>3, <1>4 DEF DirectoryIInv, RoutesOK, AliasRow, CatchRow, ShareRow, GrantRow
<1>8. AddressOf(u) \in Addresses
    <2>1. userRows[u] \in UserRow /\ userRows[u].domain \in Domains
        BY <1>1 DEF DirectoryIInv, UsersOK
    <2>2. domainRows[userRows[u].domain] \in DomainRow
        BY <2>1 DEF DirectoryIInv, DomainsOK, Domains
    <2> QED BY <2>1, <2>2 DEF AddressOf, Addresses, UserRow, DomainRow
<1>9. RestOK'
    BY <1>4, <1>8 DEF DirectoryIInv, RestOK
<1>10. NamesUnique'
    BY <1>4 DEF DirectoryIInv, NamesUnique
<1>11. LocalsUnique'
    <2>1. ASSUME NEW v \in Users \ {u}
          PROVE  ~(userRows[v].domain = row.domain /\ userRows[v].local = row.local)
        <3>1. <<userRows[v].domain, userRows[v].local>> # <<row.domain, row.local>>
            BY DEF AddressFree
        <3> QED BY <3>1
    <2>2. ASSUME NEW x \in Users, NEW y \in Users,
                 userRows'[x].domain = userRows'[y].domain,
                 userRows'[x].local = userRows'[y].local
          PROVE  x = y
        <3>1. CASE x # u /\ y # u
            BY <1>2, <2>2, <3>1 DEF DirectoryIInv, LocalsUnique
        <3>2. CASE x = u /\ y # u
            BY <1>2, <2>1, <2>2, <3>2
        <3>3. CASE x # u /\ y = u
            BY <1>2, <2>1, <2>2, <3>3
        <3> QED BY <3>1, <3>2, <3>3
    <2> QED BY <1>4, <2>2 DEF LocalsUnique
<1>12. MailAtAddress'
    <2>1. ASSUME NEW m \in mailOf, m[1] \notin renamed'
          PROVE  m[1] = AddressOf(m[2])'
        <3>1. m[2] \in Users /\ m[1] = AddressOf(m[2])
            BY <2>1 DEF DirectoryIInv, RestOK, MailAtAddress
        <3>2. CASE m[2] # u
            BY <1>2, <3>1, <3>2 DEF AddressOf
        <3>3. CASE m[2] = u
            BY <1>2, <2>1, <3>1, <3>3 DEF AddressOf
        <3> QED BY <3>2, <3>3
    <2> QED BY <2>1 DEF MailAtAddress
<1> QED BY <1>5, <1>6, <1>7, <1>9, <1>10, <1>11, <1>12 DEF DirectoryIInv

\* Rows of domains, the same.
LEMMA DomainInserted ==
    ASSUME DirectoryIInv, NEW t \in Tenants, NEW name \in DomainNames, InsertDomain(t, name),
           creating' = [domain |-> Len(domainRows) + 1, tenant |-> t, left |-> SystemLocals],
           UNCHANGED <<tenantRows, userRows, routes, mailOf, renamed>>,
           edits' \in 0..MaxEdits
    PROVE  DirectoryIInv'
<1> DEFINE row == [tenant |-> t, name |-> name, status |-> "active"]
           n == Len(domainRows) + 1
<1>1. /\ domainRows \in Seq(DomainRow) /\ domainRows' = Append(domainRows, row)
      /\ Len(domainRows) < MaxDomains /\ NameFree(name, 0)
    BY DEF InsertDomain, DirectoryIInv, DomainsOK
<1>2. row \in DomainRow /\ t \in Nat
    <2>1. t \in 1..Len(tenantRows) /\ Len(tenantRows) \in Nat /\ Len(tenantRows) <= MaxTenants
        BY DEF DirectoryIInv, TenantsOK, Tenants
    <2>2. t \in 1..MaxTenants
        BY <2>1, DirectoryNumbers
    <2> QED BY <2>1, <2>2 DEF DomainRow
<1>3. row.tenant = t /\ row.name = name
    OBVIOUS
<1> HIDE DEF row
<1>4. /\ Len(domainRows) \in Nat /\ Domains = 1..Len(domainRows)
      /\ Domains' = 1..n
      /\ \A d \in Domains : domainRows'[d] = domainRows[d]
      /\ domainRows'[n] = row
      /\ domainRows' \in Seq(DomainRow) /\ Len(domainRows') = n
    BY <1>1, <1>2 DEF Domains
<1>5. \A d \in Domains' : d \in Domains \/ d = n
    BY <1>4
<1>6. UNCHANGED <<aliasRows, catchRows, shareRows, grantRows>>
    BY DEF routes
<1>7. Tenants' = Tenants /\ Users' = Users /\ Domains \subseteq Domains' /\ n \in Domains' /\ n \in Nat
    BY <1>4 DEF Tenants, Users
<1>8. TenantsOK' /\ RestOK'
    BY <1>7 DEF DirectoryIInv, TenantsOK, RestOK
<1>9. DomainsOK'
    <2>1. n <= MaxDomains
        BY <1>1, <1>4, DirectoryNumbers
    <2>2. \A d \in Domains' : domainRows'[d].tenant \in Tenants'
        BY <1>3, <1>4, <1>5, <1>7 DEF DirectoryIInv, DomainsOK
    <2> QED BY <1>4, <2>1, <2>2 DEF DomainsOK
<1>10. UsersOK'
    BY <1>7 DEF DirectoryIInv, UsersOK
<1>11. RoutesOK'
    BY <1>6, <1>7 DEF DirectoryIInv, RoutesOK, AliasRow, CatchRow, ShareRow, GrantRow
<1>12. CreatingOK'
    <2>1. creating' \in [domain : Nat, tenant : Nat, left : Seq(Locals)]
        BY <1>2, <1>7, DirectoryNumbers
    <2>2. creating'.domain = n /\ creating'.tenant = t
        OBVIOUS
    <2> QED BY <1>7, <2>1, <2>2 DEF CreatingOK
<1>13. NamesUnique'
    <2>1. ASSUME NEW d \in Domains PROVE domainRows[d].name # name
        <3>1. d \in Domains \ {0}
            BY <1>4
        <3> QED BY <1>1, <3>1 DEF NameFree
    <2>2. ASSUME NEW d \in Domains', NEW e \in Domains', domainRows'[d].name = domainRows'[e].name
          PROVE  d = e
        <3>1. CASE d \in Domains /\ e \in Domains
            BY <1>4, <2>2, <3>1 DEF DirectoryIInv, NamesUnique
        <3>2. CASE d \in Domains /\ e = n
            BY <1>3, <1>4, <2>1, <2>2, <3>2
        <3>3. CASE e \in Domains /\ d = n
            BY <1>3, <1>4, <2>1, <2>2, <3>3
        <3> QED BY <1>5, <3>1, <3>2, <3>3
    <2> QED BY <2>2 DEF NamesUnique
<1>14. LocalsUnique'
    BY <1>7 DEF DirectoryIInv, LocalsUnique
<1>15. MailAtAddress'
    <2>1. \A u \in Users : AddressOf(u)' = AddressOf(u)
        BY <1>4 DEF AddressOf, DirectoryIInv, UsersOK
    <2>2. \A m \in mailOf : m[2] \in Users
        BY DEF DirectoryIInv, RestOK
    <2>3. \A m \in mailOf : m[1] \notin renamed => m[1] = AddressOf(m[2])'
        BY <2>1, <2>2 DEF DirectoryIInv, MailAtAddress
    <2> QED BY <2>3 DEF MailAtAddress
<1> QED BY <1>8, <1>9, <1>10, <1>11, <1>12, <1>13, <1>14, <1>15 DEF DirectoryIInv

LEMMA DomainReplaced ==
    ASSUME DirectoryIInv, NEW d \in Domains, NEW row \in DomainRow, row.tenant \in Tenants,
           NameFree(row.name, d),
           domainRows' = [domainRows EXCEPT ![d] = row],
           renamed' = IF row.name = domainRows[d].name THEN renamed
                      ELSE renamed \cup {AddressOf(u) : u \in {v \in Users : userRows[v].domain = d}},
           UNCHANGED <<tenantRows, userRows, routes, creating, mailOf>>,
           edits' \in 0..MaxEdits
    PROVE  DirectoryIInv'
<1>1. domainRows \in Seq(DomainRow) /\ Domains = 1..Len(domainRows) /\ Len(domainRows) \in Nat
    BY DEF DirectoryIInv, DomainsOK, Domains
<1>2. /\ domainRows' \in Seq(DomainRow) /\ DOMAIN domainRows' = DOMAIN domainRows
      /\ Len(domainRows') = Len(domainRows)
      /\ domainRows'[d] = row
      /\ \A e \in Domains \ {d} : domainRows'[e] = domainRows[e]
    BY <1>1 DEF Domains
<1>3. UNCHANGED <<aliasRows, catchRows, shareRows, grantRows>>
    BY DEF routes
<1>4. Tenants' = Tenants /\ Domains' = Domains /\ Users' = Users
    BY <1>2 DEF Tenants, Domains, Users
<1>5. TenantsOK' /\ CreatingOK' /\ UsersOK'
    BY <1>4 DEF DirectoryIInv, TenantsOK, CreatingOK, UsersOK
<1>6. DomainsOK'
    BY <1>2, <1>4 DEF DirectoryIInv, DomainsOK
<1>7. RoutesOK'
    BY <1>3, <1>4 DEF DirectoryIInv, RoutesOK, AliasRow, CatchRow, ShareRow, GrantRow
<1>8. \A u \in Users : AddressOf(u) \in Addresses /\ userRows[u].domain \in Domains
    <2> TAKE u \in Users
    <2>1. userRows[u] \in UserRow /\ userRows[u].domain \in Domains
        BY DEF DirectoryIInv, UsersOK, Users
    <2>2. domainRows[userRows[u].domain] \in DomainRow
        BY <2>1 DEF DirectoryIInv, DomainsOK, Domains
    <2> QED BY <2>1, <2>2 DEF AddressOf, Addresses, UserRow, DomainRow
<1>9. RestOK'
    <2>1. renamed' \subseteq Addresses
        BY <1>8 DEF DirectoryIInv, RestOK
    <2> QED BY <1>4, <2>1 DEF DirectoryIInv, RestOK
<1>10. NamesUnique'
    <2>1. \A e \in Domains \ {d} : domainRows[e].name # row.name
        BY DEF NameFree
    <2>2. ASSUME NEW x \in Domains, NEW y \in Domains, domainRows'[x].name = domainRows'[y].name
          PROVE  x = y
        <3>1. CASE x # d /\ y # d
            BY <1>2, <2>2, <3>1 DEF DirectoryIInv, NamesUnique
        <3>2. CASE x = d /\ y # d
            BY <1>2, <2>1, <2>2, <3>2
        <3>3. CASE x # d /\ y = d
            BY <1>2, <2>1, <2>2, <3>3
        <3> QED BY <3>1, <3>2, <3>3
    <2> QED BY <1>4, <2>2 DEF NamesUnique
<1>11. LocalsUnique'
    BY <1>4 DEF DirectoryIInv, LocalsUnique
<1>12. MailAtAddress'
    <2>1. ASSUME NEW m \in mailOf, m[1] \notin renamed'
          PROVE  m[1] = AddressOf(m[2])'
        <3>1. m[2] \in Users /\ m[1] = AddressOf(m[2])
            BY <2>1 DEF DirectoryIInv, RestOK, MailAtAddress
        <3>2. AddressOf(m[2])' = <<userRows[m[2]].local, domainRows'[userRows[m[2]].domain].name>>
            BY DEF AddressOf
        <3>3. CASE userRows[m[2]].domain # d
            BY <1>2, <1>8, <3>1, <3>2, <3>3 DEF AddressOf
        <3>4. CASE userRows[m[2]].domain = d
            <4>1. row.name = domainRows[d].name
                BY <2>1, <3>1, <3>4
            <4> QED BY <1>2, <3>1, <3>2, <3>4, <4>1 DEF AddressOf
        <3> QED BY <3>3, <3>4
    <2> QED BY <2>1 DEF MailAtAddress
<1> QED BY <1>5, <1>6, <1>7, <1>9, <1>10, <1>11, <1>12 DEF DirectoryIInv

-----------------------------------------------------------------------------
(* Every request keeps the invariant.                                      *)

LEMMA RequestCounts ==
    ASSUME DirectoryIInv, NEW who, Request(who)
    PROVE  edits' \in 0..MaxEdits
BY DirectoryNumbers DEF Request, DirectoryIInv, RestOK

LEMMA TenantRequestsKeep ==
    ASSUME DirectoryIInv, NEW who,
           CreateTenant(who) \/ UpdateTenant(who) \/ DeleteTenant(who) \/ UpdateTenantPolicy(who),
           UNCHANGED <<domainRows, userRows, routes, creating, mailOf, renamed>>
    PROVE  DirectoryIInv'
<1>1. edits' \in 0..MaxEdits
    BY RequestCounts DEF CreateTenant, UpdateTenant, DeleteTenant, UpdateTenantPolicy
<1>2. tenantRows \in Seq(TenantRow) /\ Len(tenantRows) <= MaxTenants /\ Len(tenantRows) \in Nat
    BY DEF DirectoryIInv, TenantsOK
<1>3. ASSUME NEW row \in TenantRow, Len(tenantRows) < MaxTenants, tenantRows' = Append(tenantRows, row)
      PROVE  TenantsOK' /\ Tenants \subseteq Tenants'
    <2>1. tenantRows' \in Seq(TenantRow) /\ Len(tenantRows') = Len(tenantRows) + 1
        BY <1>2, <1>3
    <2>2. Len(tenantRows') <= MaxTenants
        BY <1>2, <1>3, <2>1, DirectoryNumbers
    <2>3. DOMAIN tenantRows \subseteq DOMAIN tenantRows'
        BY <1>2, <1>3
    <2> QED BY <2>1, <2>2, <2>3 DEF TenantsOK, Tenants
<1>4. ASSUME NEW t \in Tenants, NEW row \in TenantRow, tenantRows' = [tenantRows EXCEPT ![t] = row]
      PROVE  TenantsOK' /\ Tenants \subseteq Tenants'
    <2>1. /\ tenantRows' \in Seq(TenantRow) /\ Len(tenantRows') = Len(tenantRows)
          /\ DOMAIN tenantRows' = DOMAIN tenantRows
        BY <1>2, <1>4 DEF Tenants
    <2> QED BY <1>2, <2>1 DEF TenantsOK, Tenants
<1>5. CASE CreateTenant(who)
    <2>1. PICK policy \in BOOLEAN : /\ Len(tenantRows) < MaxTenants
                                    /\ tenantRows' = Append(tenantRows,
                                            [status |-> "active", policy |-> policy])
        BY <1>5 DEF CreateTenant, InsertTenant
    <2>2. [status |-> "active", policy |-> policy] \in TenantRow
        BY DEF TenantRow
    <2> QED BY <1>1, <1>3, <2>1, <2>2, TenantsGrow
<1>6. ASSUME NEW t \in Tenants, NEW status \in {"active", "suspended"}, SetTenantStatus(t, status)
      PROVE  DirectoryIInv'
    <2> DEFINE row == [tenantRows[t] EXCEPT !.status = status]
    <2>1. tenantRows[t] \in TenantRow
        BY <1>2 DEF Tenants
    <2>2. row \in TenantRow
        BY <2>1 DEF TenantRow
    <2>3. tenantRows' = [tenantRows EXCEPT ![t] = row]
        BY <1>6 DEF SetTenantStatus
    <2> HIDE DEF row
    <2> QED BY <1>1, <1>4, <2>2, <2>3, TenantsGrow
<1>7. ASSUME NEW t \in Tenants, UpsertPolicy(t)
      PROVE  DirectoryIInv'
    <2> DEFINE row == [tenantRows[t] EXCEPT !.policy = TRUE]
    <2>1. tenantRows[t] \in TenantRow
        BY <1>2 DEF Tenants
    <2>2. row \in TenantRow
        BY <2>1 DEF TenantRow
    <2>3. tenantRows' = [tenantRows EXCEPT ![t] = row]
        BY <1>7 DEF UpsertPolicy
    <2> HIDE DEF row
    <2> QED BY <1>1, <1>4, <2>2, <2>3, TenantsGrow
<1> QED BY <1>5, <1>6, <1>7 DEF UpdateTenant, DeleteTenant, UpdateTenantPolicy

LEMMA CreateDomainKeeps ==
    ASSUME DirectoryIInv, NEW who, CreateDomain(who),
           UNCHANGED <<tenantRows, userRows, routes, mailOf, renamed>>
    PROVE  DirectoryIInv'
<1>1. edits' \in 0..MaxEdits
    BY RequestCounts DEF CreateDomain
<1>2. PICK t \in Tenants, name \in DomainNames :
          /\ InsertDomain(t, name)
          /\ creating' = [domain |-> Len(domainRows) + 1, tenant |-> t, left |-> SystemLocals]
    BY DEF CreateDomain
<1> QED BY <1>1, <1>2, DomainInserted

LEMMA CreateSystemMailboxKeeps ==
    ASSUME DirectoryIInv, CreateSystemMailbox,
           UNCHANGED <<tenantRows, domainRows, routes, mailOf, renamed, edits>>
    PROVE  DirectoryIInv'
<1>1. /\ creating \in [domain : Nat, tenant : Nat, left : Seq(Locals)] /\ creating.left # << >>
      /\ creating.domain \in Domains /\ creating.tenant \in Tenants
    BY DEF DirectoryIInv, CreatingOK, CreateSystemMailbox
<1> DEFINE row == [tenant |-> creating.tenant, domain |-> creating.domain,
                   local |-> Head(creating.left), kind |-> "shared",
                   status |-> "active", password |-> FALSE]
<1>2. Head(creating.left) \in Locals /\ Tail(creating.left) \in Seq(Locals)
    BY <1>1
<1>3. creating.domain \in 1..MaxDomains /\ creating.tenant \in 1..MaxTenants
    <2>1. Domains = 1..Len(domainRows) /\ Len(domainRows) \in Nat /\ Len(domainRows) <= MaxDomains
        BY DEF DirectoryIInv, DomainsOK, Domains
    <2>2. Tenants = 1..Len(tenantRows) /\ Len(tenantRows) \in Nat /\ Len(tenantRows) <= MaxTenants
        BY DEF DirectoryIInv, TenantsOK, Tenants
    <2> QED BY <1>1, <2>1, <2>2, DirectoryNumbers
<1>4. row \in UserRow
    BY <1>2, <1>3 DEF UserRow
<1>5. InsertUser(row) /\ creating' = [creating EXCEPT !.left = Tail(creating.left)]
    BY DEF CreateSystemMailbox
<1> HIDE DEF row
<1>6. CreatingOK'
    <2>1. creating' \in [domain : Nat, tenant : Nat, left : Seq(Locals)]
        BY <1>1, <1>2, <1>5
    <2>2. creating'.domain = creating.domain /\ creating'.tenant = creating.tenant
        BY <1>1, <1>5
    <2>3. Domains' = Domains /\ Tenants' = Tenants
        BY DEF Domains, Tenants
    <2> QED BY <1>1, <2>1, <2>2, <2>3 DEF CreatingOK
<1>7. edits' \in 0..MaxEdits
    BY DEF DirectoryIInv, RestOK
<1> QED BY <1>4, <1>5, <1>6, <1>7, UserInserted

LEMMA CreateDomainReturnsKeeps ==
    ASSUME DirectoryIInv, CreateDomainReturns
    PROVE  DirectoryIInv'
<1>1. /\ UNCHANGED <<tenantRows, domainRows, userRows, routes, mailOf, renamed, edits>>
      /\ creating' = NoDomain
    BY DEF CreateDomainReturns
<1>2. UNCHANGED <<aliasRows, catchRows, shareRows, grantRows>>
    BY <1>1 DEF routes
<1>3. Tenants' = Tenants /\ Domains' = Domains /\ Users' = Users
    BY <1>1 DEF Tenants, Domains, Users
<1>4. TenantsOK' /\ DomainsOK' /\ UsersOK' /\ RestOK'
    BY <1>1, <1>3 DEF DirectoryIInv, TenantsOK, DomainsOK, UsersOK, RestOK
<1>5. RoutesOK'
    BY <1>2, <1>3 DEF DirectoryIInv, RoutesOK, AliasRow, CatchRow, ShareRow, GrantRow
<1>6. CreatingOK'
    <2>1. << >> \in Seq(Locals)
        OBVIOUS
    <2>2. NoDomain \in [domain : Nat, tenant : Nat, left : Seq(Locals)] /\ NoDomain.left = << >>
        BY <2>1 DEF NoDomain
    <2> QED BY <1>1, <2>2 DEF CreatingOK
<1>7. NamesUnique' /\ LocalsUnique'
    BY <1>1, <1>3 DEF DirectoryIInv, NamesUnique, LocalsUnique
<1>8. MailAtAddress'
    BY <1>1 DEF DirectoryIInv, MailAtAddress, AddressOf
<1> QED BY <1>4, <1>5, <1>6, <1>7, <1>8 DEF DirectoryIInv

LEMMA DomainRequestsKeep ==
    ASSUME DirectoryIInv, NEW who, UpdateDomain(who) \/ DeleteDomain(who),
           UNCHANGED <<tenantRows, userRows, routes, creating, mailOf>>
    PROVE  DirectoryIInv'
<1>1. edits' \in 0..MaxEdits
    BY RequestCounts DEF UpdateDomain, DeleteDomain
<1>2. CASE UpdateDomain(who)
    <2>1. PICK d \in Domains, row \in DomainRow : row.tenant \in Tenants /\ SetDomain(d, row)
        BY <1>2 DEF UpdateDomain
    <2> QED BY <1>1, <2>1, DomainReplaced DEF SetDomain
<1>3. CASE DeleteDomain(who)
    <2>1. PICK d \in Domains : DisableDomain(d)
        BY <1>3 DEF DeleteDomain
    <2> DEFINE row == [domainRows[d] EXCEPT !.status = "disabled"]
    <2>2. domainRows[d] \in DomainRow /\ domainRows[d].tenant \in Tenants
        BY DEF DirectoryIInv, DomainsOK, Domains
    <2>3. /\ row \in DomainRow
          /\ row.name = domainRows[d].name /\ row.tenant = domainRows[d].tenant
        BY <2>2 DEF DomainRow
    <2>4. domainRows' = [domainRows EXCEPT ![d] = row] /\ renamed' = renamed
        BY <2>1 DEF DisableDomain
    <2> HIDE DEF row
    <2>5. NameFree(row.name, d)
        BY <2>3 DEF NameFree, DirectoryIInv, NamesUnique
    <2> QED BY <1>1, <2>2, <2>3, <2>4, <2>5, DomainReplaced
<1> QED BY <1>2, <1>3

LEMMA UserRequestsKeep ==
    ASSUME DirectoryIInv, NEW who, CreateUser(who) \/ UpdateUser(who) \/ DeleteUser(who),
           UNCHANGED <<tenantRows, domainRows, routes, creating, mailOf>>
    PROVE  DirectoryIInv'
<1>1. edits' \in 0..MaxEdits
    BY RequestCounts DEF CreateUser, UpdateUser, DeleteUser
<1>2. CASE CreateUser(who)
    <2>1. PICK row \in UserRow : InsertUser(row)
        BY <1>2 DEF CreateUser
    <2>2. CreatingOK' /\ renamed' = renamed
        BY <1>2 DEF CreateUser, DirectoryIInv, CreatingOK, Domains, Tenants
    <2> QED BY <1>1, <2>1, <2>2, UserInserted
<1>3. CASE UpdateUser(who)
    <2>1. PICK u \in Users, row \in UserRow : SetUser(u, row)
        BY <1>3 DEF UpdateUser
    <2>2. PICK b \in BOOLEAN : b = NewPassword(u, row)
        BY DEF NewPassword
    <2> DEFINE new == [row EXCEPT !.password = b]
    <2>3. /\ new \in UserRow /\ new.tenant = row.tenant
          /\ new.domain = row.domain /\ new.local = row.local
        BY DEF UserRow
    <2>4. userRows' = [userRows EXCEPT ![u] = new]
        BY <2>1, <2>2 DEF SetUser
    <2>5. /\ row.tenant \in Tenants /\ row.domain \in Domains
          /\ AddressFree(row.domain, row.local, u)
        BY <2>1 DEF SetUser
    <2>6. \/ renamed' = renamed \cup {AddressOf(u)}
          \/ /\ renamed' = renamed
             /\ row.domain = userRows[u].domain /\ row.local = userRows[u].local
        BY <2>1 DEF SetUser
    <2> HIDE DEF new
    <2> QED BY <1>1, <2>3, <2>4, <2>5, <2>6, UserReplaced
<1>4. CASE DeleteUser(who)
    <2>1. PICK u \in Users : DisableUser(u)
        BY <1>4 DEF DeleteUser
    <2> DEFINE new == [userRows[u] EXCEPT !.status = "disabled"]
    <2>2. userRows[u] \in UserRow /\ userRows[u].tenant \in Tenants /\ userRows[u].domain \in Domains
        BY DEF DirectoryIInv, UsersOK, Users
    <2>3. /\ new \in UserRow /\ new.tenant = userRows[u].tenant
          /\ new.domain = userRows[u].domain /\ new.local = userRows[u].local
        BY <2>2 DEF UserRow
    <2>4. userRows' = [userRows EXCEPT ![u] = new] /\ renamed' = renamed
        BY <2>1 DEF DisableUser
    <2> HIDE DEF new
    <2>5. AddressFree(new.domain, new.local, u)
        BY <2>3 DEF AddressFree, DirectoryIInv, LocalsUnique
    <2> QED BY <1>1, <2>2, <2>3, <2>4, <2>5, UserReplaced
<1> QED BY <1>2, <1>3, <1>4

LEMMA RouteRequestsKeep ==
    ASSUME DirectoryIInv, NEW who,
           \/ /\ CreateAlias(who) \/ UpdateAlias(who) \/ DeleteAlias(who)
              /\ UNCHANGED <<catchRows, shareRows, grantRows, accounts>>
           \/ /\ \/ CreateCatchAllRoute(who) \/ UpdateCatchAllRoute(who)
                 \/ DeleteCatchAllRoute(who)
              /\ UNCHANGED <<aliasRows, shareRows, grantRows, accounts>>
           \/ /\ \/ CreateSharedMailboxPermission(who) \/ UpdateSharedMailboxPermission(who)
                 \/ DeleteSharedMailboxPermission(who)
              /\ UNCHANGED <<aliasRows, catchRows, grantRows, accounts>>
           \/ /\ CreateTenantAdmin(who) \/ DeleteTenantAdmin(who)
              /\ UNCHANGED <<aliasRows, catchRows, shareRows, accounts>>
    PROVE  DirectoryIInv'
<1>1. edits' \in 0..MaxEdits
    BY RequestCounts DEF CreateAlias, UpdateAlias, DeleteAlias, CreateCatchAllRoute,
       UpdateCatchAllRoute, DeleteCatchAllRoute, CreateSharedMailboxPermission,
       UpdateSharedMailboxPermission, DeleteSharedMailboxPermission,
       CreateTenantAdmin, DeleteTenantAdmin
<1>2. UNCHANGED accounts
    OBVIOUS
<1>3. Tenants' = Tenants /\ Domains' = Domains /\ Users' = Users
    BY <1>2 DEF accounts, Tenants, Domains, Users
<1>4. /\ AliasRow' = AliasRow /\ CatchRow' = CatchRow
      /\ ShareRow' = ShareRow /\ GrantRow' = GrantRow
    BY <1>3 DEF AliasRow, CatchRow, ShareRow, GrantRow
<1>5. ASSUME aliasRows' \subseteq AliasRow, catchRows' \subseteq CatchRow,
             shareRows' \subseteq ShareRow, grantRows' \subseteq GrantRow
      PROVE  DirectoryIInv'
    BY <1>1, <1>2, <1>4, <1>5, RoutesChange DEF RoutesOK
<1>6. CASE /\ CreateAlias(who) \/ UpdateAlias(who) \/ DeleteAlias(who)
           /\ UNCHANGED <<catchRows, shareRows, grantRows, accounts>>
    <2>1. aliasRows' \subseteq AliasRow
        BY <1>6 DEF CreateAlias, UpdateAlias, DeleteAlias, InsertAlias, ReplaceAlias,
           DirectoryIInv, RoutesOK
    <2> QED BY <1>5, <1>6, <2>1 DEF DirectoryIInv, RoutesOK
<1>7. CASE /\ \/ CreateCatchAllRoute(who) \/ UpdateCatchAllRoute(who)
              \/ DeleteCatchAllRoute(who)
           /\ UNCHANGED <<aliasRows, shareRows, grantRows, accounts>>
    <2>1. ASSUME NEW c \in CatchRow PROVE [c EXCEPT !.status = "active"] \in CatchRow
        BY DEF CatchRow
    <2>2. catchRows' \subseteq CatchRow
        <3>1. CASE CreateCatchAllRoute(who)
            BY <2>1, <3>1 DEF CreateCatchAllRoute, UpsertCatchAll, DirectoryIInv, RoutesOK
        <3>2. CASE UpdateCatchAllRoute(who) \/ DeleteCatchAllRoute(who)
            BY <3>2 DEF UpdateCatchAllRoute, DeleteCatchAllRoute, ReplaceCatchAll,
               DirectoryIInv, RoutesOK
        <3> QED BY <1>7, <3>1, <3>2
    <2> QED BY <1>5, <1>7, <2>2 DEF DirectoryIInv, RoutesOK
<1>8. CASE /\ \/ CreateSharedMailboxPermission(who) \/ UpdateSharedMailboxPermission(who)
              \/ DeleteSharedMailboxPermission(who)
           /\ UNCHANGED <<aliasRows, catchRows, grantRows, accounts>>
    <2>1. shareRows' \subseteq ShareRow
        BY <1>8 DEF CreateSharedMailboxPermission, UpdateSharedMailboxPermission,
           DeleteSharedMailboxPermission, UpsertShare, ReplaceShare, DirectoryIInv, RoutesOK
    <2> QED BY <1>5, <1>8, <2>1 DEF DirectoryIInv, RoutesOK
<1>9. CASE /\ CreateTenantAdmin(who) \/ DeleteTenantAdmin(who)
           /\ UNCHANGED <<aliasRows, catchRows, shareRows, accounts>>
    <2>1. grantRows' \subseteq GrantRow
        BY <1>9 DEF CreateTenantAdmin, DeleteTenantAdmin, UpsertGrant, DirectoryIInv, RoutesOK
    <2> QED BY <1>5, <1>9, <2>1 DEF DirectoryIInv, RoutesOK
<1> QED BY <1>6, <1>7, <1>8, <1>9

LEMMA DeliverKeeps ==
    ASSUME DirectoryIInv, Deliver
    PROVE  DirectoryIInv'
<1>1. UNCHANGED <<tenantRows, domainRows, userRows, routes, creating, renamed, edits>>
    BY DEF Deliver
<1>2. UNCHANGED <<aliasRows, catchRows, shareRows, grantRows>>
    BY <1>1 DEF routes
<1>3. Tenants' = Tenants /\ Domains' = Domains /\ Users' = Users
    BY <1>1 DEF Tenants, Domains, Users
<1>4. PICK a \in Addresses : mailOf' = mailOf \cup {<<a, u>> : u \in MailboxMap(a)}
    BY DEF Deliver
<1>5. \A u \in MailboxMap(a) : u \in Users /\ AddressOf(u) = a
    BY DEF MailboxMap
<1>6. TenantsOK' /\ DomainsOK' /\ UsersOK' /\ CreatingOK'
    BY <1>1, <1>3 DEF DirectoryIInv, TenantsOK, DomainsOK, UsersOK, CreatingOK
<1>7. RestOK'
    BY <1>1, <1>3, <1>4, <1>5 DEF DirectoryIInv, RestOK
<1>8. RoutesOK'
    BY <1>2, <1>3 DEF DirectoryIInv, RoutesOK, AliasRow, CatchRow, ShareRow, GrantRow
<1>9. NamesUnique' /\ LocalsUnique'
    BY <1>1, <1>3 DEF DirectoryIInv, NamesUnique, LocalsUnique
<1>10. MailAtAddress'
    <2>1. \A u : AddressOf(u)' = AddressOf(u)
        BY <1>1 DEF AddressOf
    <2>2. ASSUME NEW m \in mailOf', m[1] \notin renamed PROVE m[1] = AddressOf(m[2])
        <3>1. CASE m \in mailOf
            BY <2>2, <3>1 DEF DirectoryIInv, MailAtAddress
        <3>2. CASE m \in {<<a, u>> : u \in MailboxMap(a)}
            BY <1>5, <3>2
        <3> QED BY <1>4, <3>1, <3>2
    <2> QED BY <1>1, <2>1, <2>2 DEF MailAtAddress
<1> QED BY <1>6, <1>7, <1>8, <1>9, <1>10 DEF DirectoryIInv

LEMMA DirectoryStepKeeps == DirectoryIInv /\ [DirectoryNext]_directoryVars => DirectoryIInv'
<1> SUFFICES ASSUME DirectoryIInv, [DirectoryNext]_directoryVars PROVE DirectoryIInv'
    OBVIOUS
<1>1. CASE UNCHANGED directoryVars
    <2>1. UNCHANGED accounts /\ UNCHANGED routes /\ UNCHANGED edits
        BY <1>1 DEF directoryVars
    <2>2. UNCHANGED <<aliasRows, catchRows, shareRows, grantRows>>
        BY <2>1 DEF routes
    <2>3. Tenants' = Tenants /\ Domains' = Domains /\ Users' = Users
        BY <2>1 DEF accounts, Tenants, Domains, Users
    <2>4. RoutesOK'
        BY <2>2, <2>3 DEF DirectoryIInv, RoutesOK, AliasRow, CatchRow, ShareRow, GrantRow
    <2> QED BY <2>1, <2>4, RoutesChange DEF DirectoryIInv, RestOK
<1>2. CASE DirectoryNext
    BY <1>2, TenantRequestsKeep, CreateDomainKeeps, CreateSystemMailboxKeeps,
       CreateDomainReturnsKeeps, DomainRequestsKeep, UserRequestsKeep, RouteRequestsKeep,
       DeliverKeeps DEF DirectoryNext
<1> QED BY <1>1, <1>2

LEMMA RowsAreSequence ==
    ASSUME NEW X, NEW n \in Nat, NEW f \in [1..n -> X]
    PROVE  f \in Seq(X) /\ Len(f) = n
OBVIOUS

LEMMA DirectoryInitHolds == DirectoryInit => DirectoryIInv
<1> SUFFICES ASSUME DirectoryInit PROVE DirectoryIInv
    OBVIOUS
<1>0. PICK n \in Nat : n = Len(SystemLocals)
    BY DirectoryNumbers
<1>1. /\ n \in Nat /\ DOMAIN SystemLocals = 1..n /\ SystemLocals \in Seq(Locals)
      /\ \A i \in 1..n : SystemLocals[i] \in Locals
      /\ \A i, j \in 1..n : SystemLocals[i] = SystemLocals[j] => i = j
    BY <1>0, DirectoryAssumptions
<1>2. PICK name \in DomainNames : domainRows = <<[tenant |-> 1, name |-> name, status |-> "active"]>>
    BY DEF DirectoryInit
<1>3. PICK local \in Locals \ {SystemLocals[i] : i \in DOMAIN SystemLocals} :
          userRows = Append([i \in DOMAIN SystemLocals |-> FirstRow(SystemLocals[i], FALSE)],
                            FirstRow(local, TRUE))
    BY DEF DirectoryInit
<1>4. TenantsOK /\ Tenants = {1}
    <2>1. [status |-> "active", policy |-> TRUE] \in TenantRow
        BY DEF TenantRow
    <2>2. /\ tenantRows \in Seq(TenantRow) /\ Len(tenantRows) = 1
          /\ DOMAIN tenantRows = {1}
        BY <2>1 DEF DirectoryInit
    <2> QED BY <2>2, DirectoryNumbers DEF TenantsOK, Tenants
<1>5. DomainsOK /\ Domains = {1} /\ domainRows[1].tenant = 1
    <2>1. [tenant |-> 1, name |-> name, status |-> "active"] \in DomainRow
        BY DirectoryNumbers DEF DomainRow
    <2>2. /\ domainRows \in Seq(DomainRow) /\ Len(domainRows) = 1
          /\ DOMAIN domainRows = {1} /\ domainRows[1].tenant = 1
        BY <1>2, <2>1
    <2> QED BY <1>4, <2>2, DirectoryNumbers DEF DomainsOK, Domains
<1>6. \A l \in Locals, b \in BOOLEAN :
          /\ FirstRow(l, b) \in UserRow
          /\ FirstRow(l, b).tenant = 1 /\ FirstRow(l, b).domain = 1 /\ FirstRow(l, b).local = l
    BY DirectoryNumbers DEF FirstRow, UserRow
<1> DEFINE shared == [i \in 1..n |-> FirstRow(SystemLocals[i], FALSE)]
<1>7. /\ shared \in Seq(UserRow) /\ Len(shared) = n
      /\ \A i \in 1..n : shared[i] = FirstRow(SystemLocals[i], FALSE)
    <2>1. \A i \in 1..n : FirstRow(SystemLocals[i], FALSE) \in UserRow
        BY <1>1, <1>6
    <2>2. shared \in [1..n -> UserRow]
        BY <2>1
    <2>3. \A i \in 1..n : shared[i] = FirstRow(SystemLocals[i], FALSE)
        OBVIOUS
    <2> HIDE DEF shared
    <2> QED BY <1>1, <2>2, <2>3, RowsAreSequence
<1>8. userRows = Append(shared, FirstRow(local, TRUE))
    BY <1>1, <1>3
<1> HIDE DEF shared
<1>9. /\ userRows \in Seq(UserRow) /\ Users = 1..(n + 1)
      /\ userRows[n + 1] = FirstRow(local, TRUE)
      /\ \A i \in 1..n : userRows[i] = FirstRow(SystemLocals[i], FALSE)
    <2>1. FirstRow(local, TRUE) \in UserRow
        BY <1>6
    <2>2. PICK X, last : X = UserRow /\ last = FirstRow(local, TRUE)
        OBVIOUS
    <2>3. userRows = Append(shared, last) /\ last \in X /\ shared \in Seq(X)
        BY <1>7, <1>8, <2>1, <2>2
    <2>4. /\ userRows \in Seq(X) /\ DOMAIN userRows = 1..(n + 1)
          /\ userRows[n + 1] = last
          /\ \A i \in 1..n : userRows[i] = shared[i]
        BY <1>1, <1>7, <2>3
    <2> QED BY <1>7, <2>2, <2>4 DEF Users
<1>10. \A u \in Users : u = n + 1 \/ u \in 1..n
    <2> QED BY <1>1, <1>9
<1>11. UsersOK
    <2>1. ASSUME NEW u \in Users PROVE userRows[u].tenant = 1 /\ userRows[u].domain = 1
        <3>1. CASE u = n + 1
            <4>1. userRows[u] = FirstRow(local, TRUE)
                BY <1>9, <3>1
            <4> QED BY ZenonT(40), <1>6, <4>1
        <3>2. CASE u \in 1..n
            <4>1. userRows[u] = FirstRow(SystemLocals[u], FALSE) /\ SystemLocals[u] \in Locals
                BY <1>1, <1>9, <3>2
            <4> QED BY <1>6, <4>1
        <3> QED BY <1>10, <3>1, <3>2
    <2> QED BY <1>4, <1>5, <1>9, <2>1 DEF UsersOK
<1>12. RoutesOK /\ CreatingOK /\ RestOK
    <2>1. << >> \in Seq(Locals)
        OBVIOUS
    <2>2. NoDomain \in [domain : Nat, tenant : Nat, left : Seq(Locals)] /\ NoDomain.left = << >>
        BY <2>1 DEF NoDomain
    <2> QED BY <2>2, DirectoryNumbers DEF DirectoryInit, RoutesOK, CreatingOK, RestOK
<1>13. NamesUnique
    BY <1>5 DEF NamesUnique
<1>14. LocalsUnique
    <2>1. userRows[n + 1].local = local /\ \A i \in 1..n : local # SystemLocals[i]
        BY <1>1, <1>3, <1>6, <1>9
    <2>2. \A i \in 1..n : userRows[i].local = SystemLocals[i]
        BY <1>1, <1>6, <1>9
    <2>3. ASSUME NEW u \in Users, NEW v \in Users, userRows[u].local = userRows[v].local
          PROVE  u = v
        <3>1. CASE u \in 1..n /\ v \in 1..n
            BY <1>1, <2>2, <2>3, <3>1
        <3>2. CASE u = n + 1 /\ v \in 1..n
            BY <2>1, <2>2, <2>3, <3>2
        <3>3. CASE v = n + 1 /\ u \in 1..n
            BY <2>1, <2>2, <2>3, <3>3
        <3> QED BY <1>10, <3>1, <3>2, <3>3
    <2> QED BY <2>3 DEF LocalsUnique
<1>15. MailAtAddress
    BY DEF DirectoryInit, MailAtAddress
<1> QED BY <1>4, <1>5, <1>11, <1>12, <1>13, <1>14, <1>15 DEF DirectoryIInv

-----------------------------------------------------------------------------
(* What the directory promises.                                            *)

\* Every row of the directory refers to rows that exist.
THEOREM DirectoryTypes == DirectorySpec => []DirectoryTypeOK
<1>1. DirectoryIInv => DirectoryTypeOK
    BY DEF DirectoryIInv, DirectoryTypeOK, TenantsOK, DomainsOK, UsersOK, RoutesOK, RestOK
<1> QED BY <1>1, DirectoryInitHolds, DirectoryStepKeeps, PTL DEF DirectorySpec

\* An address names one account, whatever became of its rows.
LEMMA AddressIsUnique ==
    ASSUME DirectoryIInv, NEW u \in Users, NEW v \in Users, AddressOf(u) = AddressOf(v)
    PROVE  u = v
<1>1. /\ userRows[u].local = userRows[v].local
      /\ domainRows[userRows[u].domain].name = domainRows[userRows[v].domain].name
    BY DEF AddressOf
<1>2. userRows[u].domain \in Domains /\ userRows[v].domain \in Domains
    BY DEF DirectoryIInv, UsersOK
<1> QED BY <1>1, <1>2 DEF DirectoryIInv, NamesUnique, LocalsUnique

\* A mailbox directory holds the mail of one account only, unless a change of
\* name left it behind: a disabled account or domain keeps its address taken.
THEOREM OneOwner == DirectorySpec => []OneOwnerPerMailbox
<1>1. DirectoryIInv => OneOwnerPerMailbox
    <2> SUFFICES ASSUME DirectoryIInv, NEW m \in mailOf, NEW k \in mailOf,
                        m[1] = k[1], m[1] \notin renamed
                 PROVE  m[2] = k[2]
        BY DEF OneOwnerPerMailbox
    <2>1. m[2] \in Users /\ k[2] \in Users
        BY DEF DirectoryIInv, RestOK
    <2>2. AddressOf(m[2]) = AddressOf(k[2])
        BY DEF DirectoryIInv, MailAtAddress
    <2> QED BY <2>1, <2>2, AddressIsUnique
<1> QED BY <1>1, DirectoryInitHolds, DirectoryStepKeeps, PTL DEF DirectorySpec

\* The queries of Postfix, Dovecot and webmail agree on who an address is, who
\* may send from it and where its mail goes, in every state of the tables.
THEOREM QueriesAreConsistent == DirectorySpec => []QueriesAgree
<1>1. DirectoryIInv => QueriesAgree
    <2> SUFFICES ASSUME DirectoryIInv PROVE QueriesAgree
        OBVIOUS
    <2>1. \A a \in Addresses : MailboxMap(a) = UserDB(a)
        BY DEF MailboxMap, UserDB
    <2>2. ASSUME NEW a \in Addresses, NEW u \in PassDB(a)
          PROVE  /\ UserDB(a) = {u} /\ MailboxMap(a) = {u}
                 /\ a \in SenderLogins(a)
                 /\ AliasMap(a) = {x.to : x \in {y \in aliasRows : AliasAddress(y) = a}}
                 /\ \A p \in ListMailboxes(u) :
                      "send_as" \in p.rights => a \in SenderLogins(AddressOf(p.mailbox))
        <3>1. /\ u \in Users /\ AddressOf(u) = a
              /\ userRows[u].kind = "user" /\ userRows[u].status = "active"
              /\ LiveDomain(userRows[u].domain)
            BY DEF PassDB
        <3>2. \A v \in Users : AddressOf(v) = a => v = u
            BY <3>1, AddressIsUnique
        <3>3. UserDB(a) = {u} /\ MailboxMap(a) = {u}
            BY <3>1, <3>2 DEF UserDB, MailboxMap
        <3>4. a \in SenderLogins(a)
            BY <3>1, <3>3 DEF SenderLogins, OwnLogin
        <3>5. AliasMap(a) = {x.to : x \in {y \in aliasRows : AliasAddress(y) = a}}
            <4>1. {v \in Users : AddressOf(v) = a /\ userRows[v].status = "active"} # {}
                BY <3>1
            <4> QED BY <4>1 DEF AliasMap
        <3>6. ASSUME NEW p \in ListMailboxes(u), "send_as" \in p.rights
              PROVE  a \in SenderLogins(AddressOf(p.mailbox))
            <4>1. /\ p \in shareRows /\ p.user = u
                  /\ userRows[p.mailbox].kind = "shared" /\ userRows[p.mailbox].status = "active"
                  /\ LiveDomain(userRows[p.mailbox].domain)
                BY DEF ListMailboxes
            <4>2. p.mailbox \in Users
                BY <4>1 DEF DirectoryIInv, RoutesOK, ShareRow
            <4>3. p.mailbox \in MailboxMap(AddressOf(p.mailbox))
                BY <4>1, <4>2 DEF MailboxMap
            <4>4. p.user \in MailboxMap(AddressOf(p.user)) /\ AddressOf(p.user) = a
                BY <3>1, <3>3, <4>1
            <4>5. a \in SharedLogins(AddressOf(p.mailbox))
                BY <3>1, <3>6, <4>1, <4>3, <4>4 DEF SharedLogins
            <4> QED BY <4>5 DEF SenderLogins
        <3> QED BY <3>3, <3>4, <3>5, <3>6
    <2> QED BY <2>1, <2>2 DEF QueriesAgree
<1> QED BY <1>1, DirectoryInitHolds, DirectoryStepKeeps, PTL DEF DirectorySpec

-----------------------------------------------------------------------------
(* Provisioning: the plan.                                                 *)

\* What the list of a zone is like: every record has an id of its own, and the
\* records can stand beside each other.
Lasting(L) == \A e, f \in L : e # f => e.id # f.id /\ Compatible(e.record, f.record)

LEMMA WantedIsApart ==
    ASSUME NEW i \in DOMAIN Wanted, NEW j \in DOMAIN Wanted, i # j
    PROVE  /\ Wanted[i].name = Wanted[j].name =>
                /\ Wanted[i].kind # "CNAME" /\ Wanted[j].kind # "CNAME"
                /\ TypeOf(Wanted[i].kind) # TypeOf(Wanted[j].kind)
           /\ ~StandsInTheWay(Wanted[i], Wanted[j])
<1>1. /\ Compatible(Wanted[i], Wanted[j])
      /\ <<Wanted[i].name, TypeOf(Wanted[i].kind)>> # <<Wanted[j].name, TypeOf(Wanted[j].kind)>>
  BY ProvisioningAssumptions
<1>2. Wanted[i].name = Wanted[j].name =>
        /\ Wanted[i].kind # "CNAME" /\ Wanted[j].kind # "CNAME"
        /\ TypeOf(Wanted[i].kind) # TypeOf(Wanted[j].kind)
  BY <1>1 DEF Compatible
<1> QED BY <1>2 DEF StandsInTheWay

LEMMA KeptIsInTheWay ==
    ASSUME NEW want, NEW touch, touch # {}
    PROVE  /\ Overwritten(want, touch) \subseteq touch
           /\ \A e \in Overwritten(want, touch) : TypeOf(e.record.kind) = TypeOf(want.kind)
BY DEF Overwritten

LEMMA ActionIs ==
    ASSUME NEW want, NEW L
    PROVE  \/ ActionFor(want, L) = "create" /\ RelevantExisting(want, L) = {}
           \/ /\ ActionFor(want, L) = "ok" /\ RelevantExisting(want, L) # {}
              /\ InPlace(want, RelevantExisting(want, L))
           \/ ActionFor(want, L) = "conflict" /\ RelevantExisting(want, L) # {}
<1> DEFINE touch == RelevantExisting(want, L)
<1>1. ActionFor(want, L) = CASE touch = {} -> "create"
                             [] InPlace(want, touch) -> "ok"
                             [] OTHER -> "conflict"
  BY DEF ActionFor
<1>2. InPlace(want, touch) => touch # {}
  BY DEF InPlace
<1> HIDE DEF touch
<1>3. \/ ActionFor(want, L) = "create" /\ touch = {}
      \/ ActionFor(want, L) = "ok" /\ touch # {} /\ InPlace(want, touch)
      \/ ActionFor(want, L) = "conflict" /\ touch # {}
  BY <1>1, <1>2
<1> QED BY <1>3 DEF touch

\* The calls of a plan, by what they are for.
LEMMA PlannedShape ==
    ASSUME NEW L, NEW c \in PlannedCalls(L)
    PROVE  \E i \in DOMAIN Wanted :
             \/ c = Create(i, Wanted[i])
             \/ /\ ActionFor(Wanted[i], L) = "conflict"
                /\ \E e \in Overwritten(Wanted[i], RelevantExisting(Wanted[i], L)) :
                     c = Update(i, e, Wanted[i])
             \/ \E e \in Superfluous(i, L) : c = Delete(i, e)
<1>1. PICK i \in DOMAIN Wanted : c \in CallsFor(i, L)
  BY DEF PlannedCalls
<1>2. CASE ActionFor(Wanted[i], L) = "create"
  BY <1>1, <1>2 DEF CallsFor
<1>3. CASE ActionFor(Wanted[i], L) = "ok"
  BY <1>1, <1>3 DEF CallsFor
<1>4. CASE ActionFor(Wanted[i], L) = "conflict"
  <2>1. c \in Replace(i, L)
    BY <1>1, <1>4 DEF CallsFor
  <2> QED BY <1>4, <2>1 DEF Replace
<1> QED BY <1>2, <1>3, <1>4, ActionIs

LEMMA SuperfluousIsInTheWay ==
    ASSUME NEW L, NEW i, NEW e \in Superfluous(i, L)
    PROVE  /\ ActionFor(Wanted[i], L) = "conflict"
           /\ e \in L /\ StandsInTheWay(Wanted[i], e.record)
           /\ e \notin Overwritten(Wanted[i], RelevantExisting(Wanted[i], L))
BY DEF Superfluous, RelevantExisting

\* A call that changes or deletes a record stands for a wanted record it is in
\* the way of, and the record goes into the backup.
LEMMA TouchedIsInTheWay ==
    ASSUME NEW L, NEW c \in PlannedCalls(L), c.call # "create"
    PROVE  \E i \in DOMAIN Wanted : \E e \in L :
             /\ c.id = e.id /\ c.for = i /\ ActionFor(Wanted[i], L) = "conflict"
             /\ StandsInTheWay(Wanted[i], e.record) /\ e.record \in BackupRecords(L)
             /\ \/ /\ c = Update(i, e, Wanted[i])
                   /\ e \in Overwritten(Wanted[i], RelevantExisting(Wanted[i], L))
                   /\ TypeOf(e.record.kind) = TypeOf(Wanted[i].kind)
                \/ c = Delete(i, e) /\ e \in Superfluous(i, L)
<1>1. PICK i \in DOMAIN Wanted :
         \/ c = Create(i, Wanted[i])
         \/ /\ ActionFor(Wanted[i], L) = "conflict"
            /\ \E e \in Overwritten(Wanted[i], RelevantExisting(Wanted[i], L)) :
                 c = Update(i, e, Wanted[i])
         \/ \E e \in Superfluous(i, L) : c = Delete(i, e)
  BY PlannedShape
<1>2. c # Create(i, Wanted[i])
  BY DEF Create
<1>3. \A e \in RelevantExisting(Wanted[i], L) : ActionFor(Wanted[i], L) = "conflict" =>
         e \in L /\ StandsInTheWay(Wanted[i], e.record) /\ e.record \in BackupRecords(L)
  BY DEF RelevantExisting, BackupRecords, RecordsOf
<1>4. CASE /\ ActionFor(Wanted[i], L) = "conflict"
           /\ \E e \in Overwritten(Wanted[i], RelevantExisting(Wanted[i], L)) :
                c = Update(i, e, Wanted[i])
  <2>1. PICK e \in Overwritten(Wanted[i], RelevantExisting(Wanted[i], L)) : c = Update(i, e, Wanted[i])
    BY <1>4
  <2>2. RelevantExisting(Wanted[i], L) # {}
    BY <1>4, ActionIs
  <2>3. e \in RelevantExisting(Wanted[i], L) /\ TypeOf(e.record.kind) = TypeOf(Wanted[i].kind)
    BY <2>1, <2>2, KeptIsInTheWay
  <2>4. c.id = e.id /\ c.for = i
    BY <2>1 DEF Update
  <2> QED BY <1>3, <1>4, <2>1, <2>3, <2>4
<1>5. CASE \E e \in Superfluous(i, L) : c = Delete(i, e)
  <2>1. PICK e \in Superfluous(i, L) : c = Delete(i, e)
    BY <1>5
  <2>2. e \in RelevantExisting(Wanted[i], L) /\ ActionFor(Wanted[i], L) = "conflict"
    BY <2>1, SuperfluousIsInTheWay DEF RelevantExisting
  <2>3. c.id = e.id /\ c.for = i
    BY <2>1 DEF Delete
  <2> QED BY <1>3, <2>1, <2>2, <2>3
<1> QED BY <1>1, <1>2, <1>4, <1>5

\* No two calls change one record, and none changes what another deletes.
LEMMA OneUpdate ==
    ASSUME NEW L, Lasting(L), NEW c \in PlannedCalls(L), NEW d \in PlannedCalls(L),
           c.call # "create", d.call = "update", c.id = d.id
    PROVE  c = d
<1>1. PICK i \in DOMAIN Wanted, e \in L :
         /\ c.id = e.id /\ StandsInTheWay(Wanted[i], e.record)
         /\ \/ /\ c = Update(i, e, Wanted[i])
               /\ e \in Overwritten(Wanted[i], RelevantExisting(Wanted[i], L))
            \/ c = Delete(i, e) /\ e \in Superfluous(i, L)
  BY TouchedIsInTheWay
<1>2. PICK j \in DOMAIN Wanted, f \in L :
         /\ d.id = f.id /\ StandsInTheWay(Wanted[j], f.record)
         /\ \/ /\ d = Update(j, f, Wanted[j])
               /\ f \in Overwritten(Wanted[j], RelevantExisting(Wanted[j], L))
               /\ TypeOf(f.record.kind) = TypeOf(Wanted[j].kind)
            \/ d = Delete(j, f) /\ f \in Superfluous(j, L)
  BY TouchedIsInTheWay
<1>3. e = f
  BY <1>1, <1>2 DEF Lasting
<1>4. /\ d = Update(j, f, Wanted[j])
      /\ f \in Overwritten(Wanted[j], RelevantExisting(Wanted[j], L))
      /\ TypeOf(f.record.kind) = TypeOf(Wanted[j].kind)
  BY <1>2 DEF Delete
<1>5. CASE i = j
  <2>1. e \notin Superfluous(i, L)
    BY <1>3, <1>4, <1>5, SuperfluousIsInTheWay
  <2> QED BY <1>1, <1>3, <1>4, <1>5, <2>1
<1>6. CASE i # j
  <2>1. Wanted[i].name = Wanted[j].name
    BY <1>1, <1>2, <1>3 DEF StandsInTheWay
  <2>2. /\ Wanted[i].kind # "CNAME" /\ Wanted[j].kind # "CNAME"
        /\ TypeOf(Wanted[i].kind) # TypeOf(Wanted[j].kind)
    BY <1>6, <2>1, WantedIsApart
  <2>3. e.record.kind # "CNAME"
    BY <1>3, <1>4, <2>2 DEF TypeOf
  <2> QED BY <1>1, <1>3, <1>4, <2>2, <2>3 DEF StandsInTheWay
<1> QED BY <1>5, <1>6

\* A plan creates or changes the wanted records that are not in place.
LEMMA WantedIsMade ==
    ASSUME NEW L, NEW c \in PlannedCalls(L), c.call # "delete"
    PROVE  c.for \in DOMAIN Wanted /\ c.record = Wanted[c.for]
<1>1. PICK i \in DOMAIN Wanted :
         \/ c = Create(i, Wanted[i])
         \/ \E e : c = Update(i, e, Wanted[i]) \/ c = Delete(i, e)
  BY PlannedShape
<1> QED BY <1>1 DEF Create, Update, Delete

LEMMA MissingIsMade ==
    ASSUME NEW L, NEW i \in DOMAIN Wanted, ActionFor(Wanted[i], L) # "ok"
    PROVE  \E c \in PlannedCalls(L) : c.call \in {"create", "update"} /\ c.record = Wanted[i]
<1>1. CallsFor(i, L) \subseteq PlannedCalls(L)
  BY DEF PlannedCalls
<1>2. CASE ActionFor(Wanted[i], L) = "create"
  <2>1. Create(i, Wanted[i]) \in CallsFor(i, L)
    BY <1>2 DEF CallsFor
  <2> QED BY <1>1, <2>1 DEF Create
<1>3. CASE ActionFor(Wanted[i], L) = "conflict"
  <2> DEFINE kept == Overwritten(Wanted[i], RelevantExisting(Wanted[i], L))
  <2>1. CallsFor(i, L) = Replace(i, L)
    BY <1>3 DEF CallsFor
  <2>2. CASE kept = {}
    <3>1. Create(i, Wanted[i]) \in Replace(i, L)
      BY <2>2 DEF Replace
    <3> QED BY <1>1, <2>1, <3>1 DEF Create
  <2>3. CASE kept # {}
    <3>1. PICK e \in kept : TRUE
      BY <2>3
    <3>2. Update(i, e, Wanted[i]) \in Replace(i, L)
      BY <3>1 DEF Replace
    <3> QED BY <1>1, <2>1, <3>2 DEF Update
  <2> QED BY <2>2, <2>3
<1> QED BY <1>2, <1>3, ActionIs

\* All that stands in the way is changed or deleted.
LEMMA WayIsCleared ==
    ASSUME NEW L, NEW i \in DOMAIN Wanted, ActionFor(Wanted[i], L) = "conflict",
           NEW e \in RelevantExisting(Wanted[i], L)
    PROVE  \E c \in PlannedCalls(L) : c.call # "create" /\ c.id = e.id
<1> DEFINE kept(j) == Overwritten(Wanted[j], RelevantExisting(Wanted[j], L))
<1>1. CASE e \in kept(i)
  <2>1. Update(i, e, Wanted[i]) \in CallsFor(i, L)
    BY <1>1 DEF CallsFor, Replace
  <2> QED BY <2>1 DEF PlannedCalls, Update
<1>2. CASE e \notin kept(i)
  <2> DEFINE J == {j \in DOMAIN Wanted : e \in Superfluous(j, L)}
  <2>1. i \in J
    BY <1>2 DEF Superfluous
  <2>2. J \subseteq Nat
    BY ProvisioningAssumptions
  <2>3. PICK j \in J : \A k \in J : j <= k
    <3> HIDE DEF J
    <3> QED BY <2>1, <2>2, LeastNumber
  <2>4. \A k \in DOMAIN Wanted : k < j => e \notin Superfluous(k, L)
    BY <2>2, <2>3
  <2>5. ActionFor(Wanted[j], L) = "conflict" /\ e \in Superfluous(j, L)
    BY <2>3, SuperfluousIsInTheWay
  <2>6. Delete(j, e) \in CallsFor(j, L)
    BY <2>4, <2>5 DEF CallsFor, Replace
  <2> QED BY <2>3, <2>6 DEF PlannedCalls, Delete
<1> QED BY <1>1, <1>2

\* A record in place is left alone.
LEMMA InPlaceStays ==
    ASSUME NEW L, Lasting(L), NEW i \in DOMAIN Wanted, NEW e \in L, e.record = Wanted[i],
           ActionFor(Wanted[i], L) = "ok", NEW c \in PlannedCalls(L), c.call # "create"
    PROVE  c.id # e.id
<1> SUFFICES ASSUME c.id = e.id PROVE FALSE
  OBVIOUS
<1>1. PICK j \in DOMAIN Wanted, f \in L :
         /\ c.id = f.id /\ ActionFor(Wanted[j], L) = "conflict"
         /\ StandsInTheWay(Wanted[j], f.record)
  BY TouchedIsInTheWay
<1>2. f = e
  BY <1>1 DEF Lasting
<1>3. i # j
  BY <1>1
<1> QED BY <1>1, <1>2, <1>3, WantedIsApart


-----------------------------------------------------------------------------
(* Provisioning: the zone while a plan is carried out.                     *)

\* The zone z after the calls of made, where L was listed before the first:
\* what a call deleted is gone, what it changed is as it wanted it, what none
\* touched is there as before, what it created is there under a new id, and
\* there is nothing else.
Untouched(e, made) == \A c \in made : c.call # "create" => c.id # e.id

AsPlanned(L, made, z) ==
    /\ \A c \in made : c.call = "delete" => c.id \notin Ids(z)
    /\ \A c \in made : c.call = "update" => [id |-> c.id, record |-> c.record] \in z
    /\ \A e \in L : Untouched(e, made) => e \in z
    /\ \A c \in made : c.call = "create" =>
         \E x \in z : x.id \notin Ids(L) /\ x.record = c.record
    /\ \A x \in z :
         \/ x \in L /\ Untouched(x, made)
         \/ \E c \in made : c.call = "update" /\ x.id = c.id /\ x.record = c.record
         \/ x.id \notin Ids(L) /\ \E c \in made : c.call = "create" /\ x.record = c.record

LEMMA PlannedIsTouched ==
    ASSUME NEW L, NEW c \in PlannedCalls(L)
    PROVE  /\ c.call \in {"create", "update", "delete"}
           /\ c.call # "create" => c.id \in Ids(L)
<1>1. PICK i \in DOMAIN Wanted :
         \/ c = Create(i, Wanted[i])
         \/ \E e : c = Update(i, e, Wanted[i]) \/ c = Delete(i, e)
  BY PlannedShape
<1>2. c.call \in {"create", "update", "delete"}
  BY <1>1 DEF Create, Update, Delete
<1>3. c.call # "create" => c.id \in Ids(L)
  BY TouchedIsInTheWay DEF Ids
<1> QED BY <1>2, <1>3

\* One more call of the plan.
LEMMA CallGoesOn ==
    ASSUME NEW L, Lasting(L), \A e \in L : e.id \in Nat /\ e.id <= created,
           NEW z, \A e \in z : e.id \in Nat /\ e.id <= created,
           created \in Nat,
           NEW made, made \subseteq PlannedCalls(L), AsPlanned(L, made, z),
           NEW c \in PlannedCalls(L), c \notin made
    PROVE  AsPlanned(L, made \cup {c}, AfterCall(c, z))
<1> DEFINE D == made \cup {c}
           y == AfterCall(c, z)
<1>1. /\ c.call \in {"create", "update", "delete"}
      /\ \A d \in made \cup {c} : d.call # "create" => d.id \in Ids(L)
  BY PlannedIsTouched
<1>2. \A d \in made : d.call # "create" /\ c.call = "update" => d.id # c.id
  BY OneUpdate
<1>3. \A d \in made : d.call = "update" /\ c.call # "create" => d.id # c.id
  BY OneUpdate
<1>4. CASE c.call = "create"
  <2> DEFINE new == [id |-> created + 1, record |-> c.record]
  <2>1. y = z \cup {new} /\ new.id = created + 1 /\ new.record = c.record
    BY <1>4 DEF AfterCall
  <2>2. new.id \notin Ids(L)
    BY <2>1 DEF Ids
  <2>3. Ids(y) = Ids(z) \cup {new.id}
    BY <2>1 DEF Ids
  <2>4. \A e : Untouched(e, D) <=> Untouched(e, made)
    BY <1>4 DEF Untouched
  <2> HIDE DEF y, new
  <2>5. \A d \in D : d.call = "delete" => d.id \notin Ids(y)
    BY <1>1, <1>4, <2>2, <2>3 DEF AsPlanned
  <2>6. \A d \in D : d.call = "update" => [id |-> d.id, record |-> d.record] \in y
    BY <1>4, <2>1 DEF AsPlanned
  <2>7. \A e \in L : Untouched(e, D) => e \in y
    BY <2>1, <2>4 DEF AsPlanned
  <2>8. \A d \in D : d.call = "create" => \E x \in y : x.id \notin Ids(L) /\ x.record = d.record
    BY <2>1, <2>2 DEF AsPlanned
  <2>9. \A x \in y :
          \/ x \in L /\ Untouched(x, D)
          \/ \E d \in D : d.call = "update" /\ x.id = d.id /\ x.record = d.record
          \/ x.id \notin Ids(L) /\ \E d \in D : d.call = "create" /\ x.record = d.record
    <3>1. \A x \in z :
            \/ x \in L /\ Untouched(x, D)
            \/ \E d \in D : d.call = "update" /\ x.id = d.id /\ x.record = d.record
            \/ x.id \notin Ids(L) /\ \E d \in D : d.call = "create" /\ x.record = d.record
      BY <2>4 DEF AsPlanned
    <3> QED BY <1>4, <2>1, <2>2, <3>1
  <2> QED BY <2>5, <2>6, <2>7, <2>8, <2>9 DEF AsPlanned, y
<1>5. CASE c.call # "create"
  <2> DEFINE new == [id |-> c.id, record |-> c.record]
  <2>1. \/ c.call = "update" /\ y = Others(c.id, z) \cup {new}
        \/ c.call = "delete" /\ y = Others(c.id, z)
    BY <1>1, <1>5 DEF AfterCall
  <2>2. new.id = c.id /\ new.record = c.record /\ c.id \in Ids(L)
    BY <1>1, <1>5
  <2>3. /\ Others(c.id, z) \subseteq y /\ \A x \in Others(c.id, z) : x \in z /\ x.id # c.id
        /\ \A x \in z : x.id # c.id => x \in y
        /\ c.call = "update" => new \in y
        /\ \A x \in y : x \in Others(c.id, z) \/ (c.call = "update" /\ x = new)
    BY <2>1 DEF Others
  <2>4. \A e : Untouched(e, D) <=> Untouched(e, made) /\ e.id # c.id
    BY <1>5 DEF Untouched
  <2> HIDE DEF y, new
  <2>5. \A d \in D : d.call = "delete" => d.id \notin Ids(y)
    <3> SUFFICES ASSUME NEW d \in D, d.call = "delete", NEW x \in y, x.id = d.id PROVE FALSE
      BY DEF Ids
    <3>1. CASE d = c
      BY <2>3, <3>1
    <3>2. CASE d \in made /\ d # c
      <4>1. d.id \notin Ids(z)
        BY <3>2 DEF AsPlanned
      <4>2. x \notin z
        BY <4>1 DEF Ids
      <4>3. c.call = "update" /\ x.id = c.id
        BY <2>2, <2>3, <4>2
      <4> QED BY <1>2, <3>2, <4>3
    <3> QED BY <3>1, <3>2
  <2>6. \A d \in D : d.call = "update" => [id |-> d.id, record |-> d.record] \in y
    <3> SUFFICES ASSUME NEW d \in D, d.call = "update"
                 PROVE  [id |-> d.id, record |-> d.record] \in y
      OBVIOUS
    <3>1. CASE d = c
      BY <2>3, <3>1 DEF new
    <3>2. CASE d \in made /\ d # c
      <4>1. [id |-> d.id, record |-> d.record] \in z /\ d.id # c.id
        BY <1>3, <1>5, <3>2 DEF AsPlanned
      <4> QED BY <2>3, <4>1
    <3> QED BY <3>1, <3>2
  <2>7. \A e \in L : Untouched(e, D) => e \in y
    BY <2>3, <2>4 DEF AsPlanned
  <2>8. \A d \in D : d.call = "create" => \E x \in y : x.id \notin Ids(L) /\ x.record = d.record
    <3> SUFFICES ASSUME NEW d \in made, d.call = "create"
                 PROVE  \E x \in y : x.id \notin Ids(L) /\ x.record = d.record
      BY <1>5
    <3>1. PICK x \in z : x.id \notin Ids(L) /\ x.record = d.record
      BY DEF AsPlanned
    <3>2. x.id # c.id
      BY <2>2, <3>1
    <3> QED BY <2>3, <3>1, <3>2
  <2>9. \A x \in y :
          \/ x \in L /\ Untouched(x, D)
          \/ \E d \in D : d.call = "update" /\ x.id = d.id /\ x.record = d.record
          \/ x.id \notin Ids(L) /\ \E d \in D : d.call = "create" /\ x.record = d.record
    <3> TAKE x \in y
    <3>1. CASE x \in Others(c.id, z)
      <4>1. x \in z /\ x.id # c.id
        BY <2>3, <3>1
      <4>2. \/ x \in L /\ Untouched(x, made)
            \/ \E d \in made : d.call = "update" /\ x.id = d.id /\ x.record = d.record
            \/ x.id \notin Ids(L) /\ \E d \in made : d.call = "create" /\ x.record = d.record
        BY <4>1 DEF AsPlanned
      <4> QED BY <2>4, <4>1, <4>2
    <3>2. CASE c.call = "update" /\ x = new
      BY <2>2, <3>2
    <3> QED BY <2>3, <3>1, <3>2
  <2> QED BY <2>5, <2>6, <2>7, <2>8, <2>9 DEF AsPlanned, y
<1> QED BY <1>4, <1>5

\* What a call of the plan takes out of the zone is in the backup.
LEMMA RemovedIsKept ==
    ASSUME NEW L, Lasting(L),
           NEW z, NEW made, made \subseteq PlannedCalls(L), AsPlanned(L, made, z),
           NEW c \in PlannedCalls(L), c \notin made
    PROVE  /\ RecordsOf(z) \ RecordsOf(AfterCall(c, z)) \subseteq BackupRecords(L)
           /\ c.call = "create" => RecordsOf(z) \subseteq RecordsOf(AfterCall(c, z))
<1>1. /\ c.call \in {"create", "update", "delete"}
      /\ c.call # "create" => c.id \in Ids(L)
  BY PlannedIsTouched
<1>2. CASE c.call = "create"
  BY <1>2 DEF AfterCall, RecordsOf
<1>3. CASE c.call # "create"
  <2> SUFFICES ASSUME NEW x \in z, x.record \notin RecordsOf(AfterCall(c, z))
               PROVE  x.record \in BackupRecords(L)
    BY <1>3 DEF RecordsOf
  <2>1. x.id = c.id
    <3>1. Others(c.id, z) \subseteq AfterCall(c, z)
      BY <1>1, <1>3 DEF AfterCall
    <3> QED BY <3>1 DEF Others, RecordsOf
  <2>2. \A d \in made : d.call = "update" => d.id # c.id
    BY <1>3, OneUpdate
  <2>3. x \in L
    BY <1>1, <1>3, <2>1, <2>2 DEF AsPlanned
  <2>4. PICK e \in L : c.id = e.id /\ e.record \in BackupRecords(L)
    BY <1>3, TouchedIsInTheWay
  <2> QED BY <2>1, <2>3, <2>4 DEF Lasting
<1> QED BY <1>2, <1>3

\* When all calls are made nothing is left to do.
LEMMA PlanIsCarriedOut ==
    ASSUME NEW L, Lasting(L), NEW z, Lasting(z), AsPlanned(L, PlannedCalls(L), z)
    PROVE  PlanIs(z, {"ok"})
<1> SUFFICES ASSUME NEW i \in DOMAIN Wanted PROVE ActionFor(Wanted[i], z) = "ok"
  BY DEF PlanIs
<1> DEFINE want == Wanted[i]
           touch == RelevantExisting(want, z)
<1>1. \E x \in z : x.record = want
  <2>1. CASE ActionFor(want, L) = "ok"
    <3>1. PICK e \in RelevantExisting(want, L) : e.record = want
      BY <2>1, ActionIs DEF InPlace
    <3>2. e \in L
      BY <3>1 DEF RelevantExisting
    <3>3. Untouched(e, PlannedCalls(L))
      BY <2>1, <3>1, <3>2, InPlaceStays DEF Untouched
    <3> QED BY <3>1, <3>2, <3>3 DEF AsPlanned
  <2>2. CASE ActionFor(want, L) # "ok"
    <3>1. PICK c \in PlannedCalls(L) : c.call \in {"create", "update"} /\ c.record = want
      BY <2>2, MissingIsMade
    <3>2. CASE c.call = "create"
      BY <3>1, <3>2 DEF AsPlanned
    <3>3. CASE c.call = "update"
      <4>1. [id |-> c.id, record |-> c.record] \in z
        BY <3>1, <3>3 DEF AsPlanned
      <4> QED BY <3>1, <4>1
    <3> QED BY <3>1, <3>2, <3>3
  <2> QED BY <2>1, <2>2
<1>2. PICK x \in z : x.record = want
  BY <1>1
<1>3. x \in touch
  BY <1>2 DEF RelevantExisting, StandsInTheWay
<1>4. \A e \in touch : e.record = want
  <2> TAKE e \in touch
  <2>1. e \in z /\ StandsInTheWay(want, e.record)
    BY DEF RelevantExisting
  <2>2. CASE e \in L /\ Untouched(e, PlannedCalls(L))
    <3>1. e \in RelevantExisting(want, L)
      BY <2>1, <2>2 DEF RelevantExisting
    <3>2. ActionFor(want, L) # "conflict"
      BY <2>2, <3>1, WayIsCleared DEF Untouched
    <3>3. InPlace(want, RelevantExisting(want, L))
      BY <3>1, <3>2, ActionIs
    <3> QED BY <3>1, <3>3 DEF InPlace
  <2>3. CASE \E c \in PlannedCalls(L) : c.call \in {"create", "update"} /\ e.record = c.record
    <3>1. PICK c \in PlannedCalls(L) : c.call \in {"create", "update"} /\ e.record = c.record
      BY <2>3
    <3>2. c.for \in DOMAIN Wanted /\ c.record = Wanted[c.for]
      BY <3>1, WantedIsMade
    <3>3. StandsInTheWay(want, Wanted[c.for])
      BY <2>1, <3>1, <3>2
    <3>4. c.for = i
      BY <3>2, <3>3, WantedIsApart
    <3> QED BY <3>1, <3>2, <3>4
  <2> QED BY <2>1, <2>2, <2>3 DEF AsPlanned
<1>5. touch = {x}
  <2>1. \A e \in touch : e = x
    <3> TAKE e \in touch
    <3>1. e \in z /\ e.record = x.record
      BY <1>2, <1>4 DEF RelevantExisting
    <3>2. ~Compatible(e.record, x.record)
      BY <3>1 DEF Compatible
    <3> QED BY <3>1, <3>2 DEF Lasting
  <2> QED BY <1>3, <2>1
<1>6. InPlace(want, touch)
  BY <1>2, <1>5 DEF InPlace
<1> HIDE DEF touch, want
<1>7. ActionFor(want, z) # "conflict" /\ touch # {}
  <2>1. touch # {}
    BY <1>5
  <2> QED BY <1>6, <2>1 DEF ActionFor, touch
<1>8. ActionFor(want, z) = "ok"
  BY <1>7, ActionIs DEF touch
<1> QED BY <1>8 DEF want


-----------------------------------------------------------------------------
(* Provisioning: the inductive invariant.                                  *)

ZoneFormed ==
    /\ IsFiniteSet(zone) /\ Cardinality(zone) <= MaxZone
    /\ zone \subseteq Entry /\ created \in Nat /\ \A id \in Ids(zone) : id <= created
    /\ Lasting(zone)

\* What a request has removed so far is what its plan told; and as long as
\* nobody else changes the zone the plan goes on as it was made.
ApplyFormed(a, z, top) ==
    /\ ~a.replace => a.removed = {} /\ \A c \in a.calls : c.call = "create"
    /\ a.pc = "applied" => a.calls = {} /\ a.backup = BackupRecords(a.listed)
    /\ a.pc \in {"calls", "applied"} /\ ~a.disturbed =>
         /\ Lasting(a.listed) /\ \A e \in a.listed : e.id \in Nat /\ e.id <= top
         /\ a.calls \subseteq PlannedCalls(a.listed)
         /\ AsPlanned(a.listed, PlannedCalls(a.listed) \ a.calls, z)
         /\ a.removed \subseteq BackupRecords(a.listed)

ProvisioningIInv ==
    /\ ZoneFormed
    /\ cloudflare \in CloudflareConfig
    /\ applies \in 0..MaxApplies /\ foreign \in 0..MaxForeign
    /\ apply \in [Appliers -> Apply]
    /\ \A w \in Appliers : ApplyFormed(apply[w], zone, created)

LEMMA ZoneInit ==
    ASSUME ProvisioningInit
    PROVE  ZoneFormed
<1>1. PICK n \in 0..MaxZone : \E z \in [1..n -> Foreign] :
         /\ \A i, j \in 1..n : i # j => Compatible(z[i], z[j])
         /\ zone = {[id |-> i, record |-> z[i]] : i \in 1..n}
  BY DEF ProvisioningInit
<1>2. PICK z \in [1..n -> Foreign] :
         /\ \A i, j \in 1..n : i # j => Compatible(z[i], z[j])
         /\ zone = {[id |-> i, record |-> z[i]] : i \in 1..n}
  BY <1>1
<1>3. MaxZone \in Nat /\ n \in Nat /\ created = MaxZone
  BY ProvisioningAssumptions DEF ProvisioningInit
<1> DEFINE f == [i \in 1..n |-> [id |-> i, record |-> z[i]]]
<1>4. f \in Surjection(1..n, zone)
  BY <1>2 DEF Surjection
<1>5. ExistsSurjection(1..n, zone)
  BY <1>4 DEF ExistsSurjection
<1>6. IsFiniteSet(zone) /\ Cardinality(zone) <= n /\ Cardinality(zone) \in Nat
  BY <1>3, <1>5, FS_NatSurjection, FS_SurjCardinalityBound, FS_CardinalityType
<1>7. \A e \in zone : \E i \in 1..n : e.id = i /\ e.record = z[i] /\ e = [id |-> i, record |-> z[i]]
  BY <1>2
<1>8. zone \subseteq Entry
  BY <1>3, <1>7 DEF Entry, AllRecords
<1>9. \A id \in Ids(zone) : id <= created
  BY <1>1, <1>3, <1>7 DEF Ids
<1>10. Lasting(zone)
  BY <1>2, <1>7 DEF Lasting
<1> QED BY <1>3, <1>6, <1>8, <1>9, <1>10 DEF ZoneFormed

LEMMA ProvisioningInitHolds ==
    ASSUME ProvisioningInit
    PROVE  ProvisioningIInv
<1>1. ZoneFormed
  BY ZoneInit
<1>2. NoApply \in Apply
  BY DEF NoApply, Apply
<1>3. ApplyFormed(NoApply, zone, created)
  BY DEF NoApply, ApplyFormed
<1>4. apply = [w \in Appliers |-> NoApply] /\ applies = 0 /\ foreign = 0
      /\ cloudflare = [token |-> FALSE, status |-> "none"]
  BY DEF ProvisioningInit
<1>5. MaxApplies \in Nat /\ MaxForeign \in Nat
  BY ProvisioningAssumptions
<1> QED BY <1>1, <1>2, <1>3, <1>4, <1>5 DEF ProvisioningIInv, CloudflareConfig

\* A call leaves a zone.
LEMMA ZoneStays ==
    ASSUME ZoneFormed, NEW c \in Call, ChangeZone(c)
    PROVE  ZoneFormed' /\ created' \in Nat /\ created <= created'
<1>1. /\ zone \subseteq Entry /\ created \in Nat /\ Cardinality(zone) \in Nat /\ MaxZone \in Nat
      /\ \A e \in zone : e.id \in Nat /\ e.id <= created
  BY FS_CardinalityType, ProvisioningAssumptions DEF ZoneFormed, Ids, Entry
<1>2. c.id \in Nat /\ c.record \in AllRecords /\ c.call \in {"create", "update", "delete"}
  BY DEF Call
<1>3. /\ CallFits(c, zone) /\ zone' = AfterCall(c, zone)
      /\ created' = IF c.call = "create" THEN created + 1 ELSE created
  BY DEF ChangeZone
<1>4. Others(c.id, zone) \subseteq zone /\ \A e \in Others(c.id, zone) : e.id # c.id
  BY DEF Others
<1>5. IsFiniteSet(Others(c.id, zone)) /\ Cardinality(Others(c.id, zone)) <= Cardinality(zone)
      /\ Cardinality(Others(c.id, zone)) \in Nat
  BY <1>4, FS_Subset, FS_CardinalityType DEF ZoneFormed
<1>6. CASE c.call = "create"
  <2> DEFINE new == [id |-> created + 1, record |-> c.record]
  <2>1. zone' = zone \cup {new} /\ created' = created + 1
    BY <1>3, <1>6 DEF AfterCall
  <2>2. Cardinality(zone) < MaxZone /\ Fits(c.record, zone)
    BY <1>3, <1>6 DEF CallFits
  <2>3. new.id = created + 1 /\ new.record = c.record /\ new \in Entry
    BY <1>1, <1>2 DEF Entry
  <2> HIDE DEF new
  <2>4. IsFiniteSet(zone') /\ Cardinality(zone') <= MaxZone
    <3>1. IsFiniteSet(zone)
      BY DEF ZoneFormed
    <3>2. /\ IsFiniteSet(zone \cup {new})
          /\ Cardinality(zone \cup {new}) \in {Cardinality(zone), Cardinality(zone) + 1}
      BY <3>1, FS_AddElement
    <3> QED BY <1>1, <2>1, <2>2, <3>2
  <2>5. zone' \subseteq Entry /\ created' \in Nat /\ created <= created'
    BY <1>1, <2>1, <2>3
  <2>6. \A id \in Ids(zone)' : id <= created'
    BY <1>1, <2>1, <2>3 DEF Ids
  <2>7. Lasting(zone)'
    <3>1. \A e \in zone : e.id # new.id /\ Compatible(c.record, e.record) /\ Compatible(e.record, c.record)
      BY <1>1, <2>2, <2>3 DEF Fits, Compatible
    <3> QED BY <2>1, <2>3, <3>1 DEF Lasting, ZoneFormed
  <2> QED BY <2>4, <2>5, <2>6, <2>7 DEF ZoneFormed
<1>7. CASE c.call = "update"
  <2> DEFINE new == [id |-> c.id, record |-> c.record]
  <2>1. zone' = Others(c.id, zone) \cup {new} /\ created' = created
    BY <1>3, <1>7 DEF AfterCall
  <2>2. c.id \in Ids(zone) /\ Fits(c.record, Others(c.id, zone))
    BY <1>3, <1>7 DEF CallFits
  <2>3. new.id = c.id /\ new.record = c.record /\ new \in Entry
    BY <1>1, <1>2 DEF Entry
  <2> HIDE DEF new
  <2>4. PICK old \in zone : old.id = c.id
    BY <2>2 DEF Ids
  <2>5. IsFiniteSet(zone') /\ Cardinality(zone') <= MaxZone
    <3>1. IsFiniteSet(zone) /\ Cardinality(zone) <= MaxZone
      BY DEF ZoneFormed
    <3>2. Others(c.id, zone) = zone \ {old}
      BY <2>4 DEF Others, ZoneFormed, Lasting
    <3>3. Cardinality(Others(c.id, zone)) = Cardinality(zone) - 1
      BY <3>1, <3>2, FS_RemoveElement
    <3>4. /\ IsFiniteSet(Others(c.id, zone) \cup {new})
          /\ Cardinality(Others(c.id, zone) \cup {new}) \in
               {Cardinality(Others(c.id, zone)), Cardinality(Others(c.id, zone)) + 1}
      BY <1>5, FS_AddElement
    <3> QED BY <1>1, <2>1, <3>1, <3>3, <3>4
  <2>6. zone' \subseteq Entry /\ created' \in Nat /\ created <= created'
    BY <1>1, <1>4, <2>1, <2>3
  <2>7. \A id \in Ids(zone)' : id <= created'
    BY <1>1, <1>4, <2>1, <2>3, <2>4 DEF Ids
  <2>8. Lasting(zone)'
    <3>1. \A e \in Others(c.id, zone) :
             Compatible(c.record, e.record) /\ Compatible(e.record, c.record)
      BY <2>2 DEF Fits, Compatible
    <3> QED BY <1>4, <2>1, <2>3, <3>1 DEF Lasting, ZoneFormed
  <2> QED BY <2>5, <2>6, <2>7, <2>8 DEF ZoneFormed
<1>8. CASE c.call = "delete"
  <2>1. zone' = Others(c.id, zone) /\ created' = created
    BY <1>3, <1>8 DEF AfterCall
  <2> QED BY <1>1, <1>4, <1>5, <2>1 DEF ZoneFormed, Lasting, Ids
<1> QED BY <1>2, <1>6, <1>7, <1>8

LEMMA PlannedIsTyped ==
    ASSUME NEW L \in SUBSET Entry
    PROVE  PlannedCalls(L) \subseteq Call /\ BackupRecords(L) \subseteq AllRecords
<1>1. \A i \in DOMAIN Wanted : i \in Nat /\ Wanted[i] \in AllRecords
  BY ProvisioningAssumptions
<1>2. \A e \in L : e.id \in Nat /\ e.record \in AllRecords
  BY DEF Entry
<1>3. ASSUME NEW c \in PlannedCalls(L) PROVE c \in Call
  <2>1. CASE c.call = "create"
    <3>1. PICK i \in DOMAIN Wanted :
             \/ c = Create(i, Wanted[i])
             \/ \E e : c = Update(i, e, Wanted[i]) \/ c = Delete(i, e)
      BY <1>3, PlannedShape
    <3>2. c = Create(i, Wanted[i])
      BY <2>1, <3>1 DEF Update, Delete
    <3> QED BY <1>1, <3>2 DEF Create, Call
  <2>2. CASE c.call # "create"
    <3>1. PICK i \in DOMAIN Wanted, e \in L : c = Update(i, e, Wanted[i]) \/ c = Delete(i, e)
      BY <1>3, <2>2, TouchedIsInTheWay
    <3> QED BY <1>1, <1>2, <3>1 DEF Update, Delete, Call
  <2> QED BY <2>1, <2>2
<1>4. BackupRecords(L) \subseteq AllRecords
  BY <1>2 DEF BackupRecords, RecordsOf, RelevantExisting
<1> QED BY <1>3, <1>4

\* Another request is only disturbed.
LEMMA DisturbedIsFormed ==
    ASSUME NEW a \in Apply, ApplyFormed(a, zone, created), NEW b, b = [a EXCEPT !.disturbed = TRUE],
           NEW z, NEW top
    PROVE  b \in Apply /\ ApplyFormed(b, z, top)
<1>1. /\ b.pc = a.pc /\ b.replace = a.replace /\ b.listed = a.listed /\ b.calls = a.calls
      /\ b.backup = a.backup /\ b.removed = a.removed /\ b.disturbed
  BY DEF Apply
<1>2. b \in Apply
  BY DEF Apply
<1>3. ApplyFormed(b, z, top)
  BY <1>1 DEF ApplyFormed
<1> QED BY <1>2, <1>3

LEMMA ApplyIsFormed ==
    ASSUME ProvisioningIInv, NEW w \in Appliers, NEW replace \in BOOLEAN,
           ApplyCloudflareDNS(w, replace)
    PROVE  /\ apply' \in [Appliers -> Apply]
           /\ \A v \in Appliers : ApplyFormed(apply'[v], zone', created')
<1> DEFINE a == [NoApply EXCEPT !.pc = "calls", !.replace = replace, !.listed = zone,
                                !.calls = PlannedCalls(zone)]
<1>1. /\ replace \/ PlanIs(zone, {"ok", "create"})
      /\ apply' = [apply EXCEPT ![w] = a]
      /\ UNCHANGED <<zone, created>>
  BY DEF ApplyCloudflareDNS
<1>2. /\ a.pc = "calls" /\ a.replace = replace /\ a.listed = zone /\ a.calls = PlannedCalls(zone)
      /\ a.backup = {} /\ a.removed = {} /\ a.disturbed = FALSE
  BY DEF NoApply
<1>3. /\ zone \subseteq Entry /\ Lasting(zone)
      /\ \A e \in zone : e.id \in Nat /\ e.id <= created
  BY DEF ProvisioningIInv, ZoneFormed, Ids, Entry
<1>4. a \in Apply
  BY <1>3, PlannedIsTyped DEF NoApply, Apply
<1> HIDE DEF a
<1>5. ~replace => \A c \in PlannedCalls(zone) : c.call = "create"
  <2> SUFFICES ASSUME ~replace, NEW c \in PlannedCalls(zone), c.call # "create" PROVE FALSE
    OBVIOUS
  <2>1. \E i \in DOMAIN Wanted : ActionFor(Wanted[i], zone) = "conflict"
    BY TouchedIsInTheWay
  <2> QED BY <1>1, <2>1 DEF PlanIs
<1>6. AsPlanned(zone, {}, zone)
  BY DEF AsPlanned, Untouched
<1>7. PlannedCalls(zone) \ PlannedCalls(zone) = {}
  OBVIOUS
<1>8. ApplyFormed(a, zone, created)
  BY <1>2, <1>3, <1>5, <1>6, <1>7 DEF ApplyFormed
<1>9. \A v \in Appliers : apply'[v] = IF v = w THEN a ELSE apply[v]
  BY <1>1 DEF ProvisioningIInv
<1>10. \A v \in Appliers : ApplyFormed(apply'[v], zone', created')
  BY <1>1, <1>8, <1>9 DEF ProvisioningIInv
<1> QED BY <1>1, <1>4, <1>10 DEF ProvisioningIInv


LEMMA CreateRemovesNone ==
    ASSUME NEW c, c.call = "create"
    PROVE  RecordsOf(zone) \ RecordsOf(AfterCall(c, zone)) = {}
BY DEF AfterCall, RecordsOf

\* A request after a call of its own, which succeeded or whose answer was lost.
LEMMA OwnCallIsFormed ==
    ASSUME ZoneFormed, NEW a \in Apply, ApplyFormed(a, zone, created), a.pc = "calls", NEW c \in a.calls,
           ChangeZone(c), NEW next,
           next = [a EXCEPT !.calls = @ \ {c}] \/ next = [a EXCEPT !.pc = "failed"],
           NEW b, b = [next EXCEPT !.removed = @ \cup
                         (RecordsOf(zone) \ RecordsOf(AfterCall(c, zone)))]
    PROVE  b \in Apply /\ ApplyFormed(b, zone', created')
<1> DEFINE R == RecordsOf(zone) \ RecordsOf(AfterCall(c, zone))
           L == a.listed
           made == PlannedCalls(L) \ a.calls
<1>1. /\ b.replace = a.replace /\ b.listed = L /\ b.backup = a.backup
      /\ b.removed = a.removed \cup R /\ b.disturbed = a.disturbed
      /\ \/ b.pc = "calls" /\ b.calls = a.calls \ {c}
         \/ b.pc = "failed" /\ b.calls = a.calls
  BY DEF Apply
<1>2. R \subseteq AllRecords
  BY DEF RecordsOf, ZoneFormed, Entry
<1>3. b \in Apply
  <2>1. /\ a.removed \cup R \subseteq AllRecords /\ a.calls \ {c} \subseteq Call
    BY <1>2 DEF Apply
  <2> HIDE DEF R
  <2>2. next \in Apply /\ next.removed = a.removed
    BY <2>1 DEF Apply
  <2>3. b = [next EXCEPT !.removed = a.removed \cup R]
    BY <2>2 DEF R
  <2> QED BY <2>1, <2>2, <2>3 DEF Apply
<1>4. ~b.replace => b.removed = {} /\ \A d \in b.calls : d.call = "create"
  BY <1>1, CreateRemovesNone DEF ApplyFormed
<1>5. CASE a.disturbed \/ b.pc = "failed"
  BY <1>1, <1>3, <1>4, <1>5 DEF ApplyFormed
<1>6. CASE ~a.disturbed /\ b.pc = "calls" /\ b.calls = a.calls \ {c}
  <2>1. /\ Lasting(L) /\ \A e \in L : e.id \in Nat /\ e.id <= created
        /\ a.calls \subseteq PlannedCalls(L) /\ AsPlanned(L, made, zone)
        /\ a.removed \subseteq BackupRecords(L)
    BY <1>1, <1>6 DEF ApplyFormed
  <2>2. c \in Call /\ zone' = AfterCall(c, zone)
    BY DEF Apply, ChangeZone
  <2>3. created \in Nat /\ created' \in Nat /\ created <= created'
    BY <2>2, ZoneStays DEF ZoneFormed
  <2>4. \A e \in zone : e.id \in Nat /\ e.id <= created
    BY DEF ZoneFormed, Entry, Ids
  <2>5. made \subseteq PlannedCalls(L) /\ c \in PlannedCalls(L) /\ c \notin made
    BY <2>1
  <2>6. PlannedCalls(L) \ b.calls = made \cup {c}
    BY <1>6, <2>5
  <2> HIDE DEF L, made, R
  <2>7. AsPlanned(L, made \cup {c}, AfterCall(c, zone))
    BY <2>1, <2>3, <2>4, <2>5, CallGoesOn
  <2>8. R \subseteq BackupRecords(L)
    BY <2>1, <2>5, RemovedIsKept DEF R
  <2>9. \A e \in L : e.id \in Nat /\ e.id <= created'
    BY <2>1, <2>3
  <2>10. b.calls \subseteq PlannedCalls(L) /\ b.removed \subseteq BackupRecords(L)
    BY <1>1, <1>6, <2>1, <2>8
  <2>11. b.pc # "applied" /\ b.listed = L
    BY <1>1, <1>6
  <2>12. AsPlanned(L, PlannedCalls(L) \ b.calls, zone')
    BY <2>2, <2>6, <2>7
  <2> QED BY <1>1, <1>3, <1>4, <1>6, <2>1, <2>9, <2>10, <2>11, <2>12 DEF ApplyFormed
<1> QED BY <1>1, <1>5, <1>6

LEMMA CallIsFormed ==
    ASSUME ProvisioningIInv, NEW w \in Appliers, NEW c \in apply[w].calls, apply[w].pc = "calls",
           NEW next,
           next = [apply[w] EXCEPT !.calls = @ \ {c}] \/ next = [apply[w] EXCEPT !.pc = "failed"],
           Called(w, c, next)
    PROVE  /\ ZoneFormed' /\ apply' \in [Appliers -> Apply]
           /\ \A v \in Appliers : ApplyFormed(apply'[v], zone', created')
<1> DEFINE b == [next EXCEPT !.removed = @ \cup (RecordsOf(zone) \ RecordsOf(AfterCall(c, zone)))]
           out(v) == [apply[v] EXCEPT !.disturbed = TRUE]
<1>1. /\ ChangeZone(c)
      /\ apply' = DisturbApplies(Appliers \ {w}, [apply EXCEPT ![w] = b])
  BY DEF Called
<1>2. apply \in [Appliers -> Apply] /\ \A v \in Appliers : ApplyFormed(apply[v], zone, created)
  BY DEF ProvisioningIInv
<1> HIDE DEF b
<1>3. apply' = [v \in Appliers |-> IF v = w THEN b ELSE out(v)]
  BY <1>1, <1>2 DEF DisturbApplies
<1>4. ZoneFormed'
  <2>1. c \in Call
    BY <1>2 DEF Apply
  <2> QED BY <1>1, <2>1, ZoneStays DEF ProvisioningIInv
<1>5. b \in Apply /\ ApplyFormed(b, zone', created')
  BY <1>1, <1>2, OwnCallIsFormed DEF ProvisioningIInv, b
<1>6. \A v \in Appliers : out(v) \in Apply /\ ApplyFormed(out(v), zone', created')
  BY <1>2, DisturbedIsFormed
<1> HIDE DEF out
<1> QED BY <1>3, <1>4, <1>5, <1>6


\* A step that gives a request the state b and leaves the zone alone.
LEMMA AlteredIsFormed ==
    ASSUME ProvisioningIInv, UNCHANGED <<zone, created>>, NEW w \in Appliers,
           NEW b \in Apply, ApplyFormed(b, zone, created), apply' = [apply EXCEPT ![w] = b]
    PROVE  /\ ZoneFormed' /\ apply' \in [Appliers -> Apply]
           /\ \A v \in Appliers : ApplyFormed(apply'[v], zone', created')
<1>1. \A v \in Appliers : apply'[v] = IF v = w THEN b ELSE apply[v]
  BY DEF ProvisioningIInv
<1>2. ZoneFormed'
  BY DEF ProvisioningIInv, ZoneFormed, Ids, Lasting
<1> QED BY <1>1, <1>2 DEF ProvisioningIInv

LEMMA FailedIsFormed ==
    ASSUME NEW a \in Apply, ApplyFormed(a, zone, created)
    PROVE  /\ [a EXCEPT !.pc = "failed"] \in Apply
           /\ ApplyFormed([a EXCEPT !.pc = "failed"], zone, created)
<1> DEFINE b == [a EXCEPT !.pc = "failed"]
<1>1. /\ b.pc = "failed" /\ b.replace = a.replace /\ b.calls = a.calls /\ b.removed = a.removed
  BY DEF Apply
<1>2. b \in Apply
  BY DEF Apply
<1> HIDE DEF b
<1>3. ApplyFormed(b, zone, created)
  BY <1>1 DEF ApplyFormed
<1> QED BY <1>2, <1>3 DEF b

LEMMA BackupIsFormed ==
    ASSUME NEW a \in Apply, ApplyFormed(a, zone, created), a.pc = "calls", a.calls = {}, NEW b,
           b = [a EXCEPT !.pc = "applied", !.backup = BackupRecords(a.listed)]
    PROVE  b \in Apply /\ ApplyFormed(b, zone, created)
<1>1. /\ b.pc = "applied" /\ b.replace = a.replace /\ b.listed = a.listed /\ b.calls = {}
      /\ b.backup = BackupRecords(a.listed) /\ b.removed = a.removed
      /\ b.disturbed = a.disturbed
  BY DEF Apply
<1>2. a.listed \in SUBSET Entry
  BY DEF Apply
<1>3. BackupRecords(a.listed) \subseteq AllRecords
  BY <1>2, PlannedIsTyped
<1>4. b \in Apply
  BY <1>3 DEF Apply
<1>5. ApplyFormed(b, zone, created)
  BY <1>1 DEF ApplyFormed
<1> QED BY <1>4, <1>5

LEMMA ConfigStaysTyped ==
    ASSUME cloudflare \in CloudflareConfig
    PROVE  /\ \A status \in {"checked", "error"} :
                MarkCloudflareChecked(status) => cloudflare' \in CloudflareConfig
           /\ \A token \in BOOLEAN : SaveConfig(token) \in CloudflareConfig
BY DEF MarkCloudflareChecked, SaveConfig, CloudflareConfig

LEMMA ProvisioningStepHolds ==
    ASSUME ProvisioningIInv, [ProvisioningNext]_provisioningVars
    PROVE  ProvisioningIInv'
<1> DEFINE KeepsZone == /\ ZoneFormed' /\ apply' \in [Appliers -> Apply]
                        /\ \A v \in Appliers : ApplyFormed(apply'[v], zone', created')
           Rest == /\ cloudflare' \in CloudflareConfig
                   /\ applies' \in 0..MaxApplies /\ foreign' \in 0..MaxForeign
<1>1. KeepsZone /\ Rest => ProvisioningIInv'
  BY DEF ProvisioningIInv
<1>2. MaxApplies \in Nat /\ MaxForeign \in Nat
  BY ProvisioningAssumptions
<1>3. /\ apply \in [Appliers -> Apply] /\ \A v \in Appliers : ApplyFormed(apply[v], zone, created)
      /\ cloudflare \in CloudflareConfig /\ applies \in 0..MaxApplies /\ foreign \in 0..MaxForeign
  BY DEF ProvisioningIInv
<1>4. UNCHANGED <<zone, created, apply>> => KeepsZone
  BY DEF ProvisioningIInv, ZoneFormed, Ids, Lasting
<1>5. ASSUME SaveCloudflareConfig \/ PlanFails \/ CheckCloudflareDNS
      PROVE  KeepsZone /\ Rest
  <2>1. UNCHANGED <<zone, created, apply, foreign>> /\ applies' = applies + 1 /\ applies < MaxApplies
    BY <1>5 DEF SaveCloudflareConfig, PlanFails, CheckCloudflareDNS
  <2>2. cloudflare' \in CloudflareConfig
    BY <1>3, <1>5, ConfigStaysTyped DEF SaveCloudflareConfig, PlanFails, CheckCloudflareDNS
  <2> HIDE DEF KeepsZone
  <2> QED BY <1>2, <1>3, <1>4, <2>1, <2>2
<1>6. ASSUME NEW w \in Appliers, NEW replace \in BOOLEAN, ApplyCloudflareDNS(w, replace)
      PROVE  KeepsZone /\ Rest
  <2>1. /\ UNCHANGED <<zone, created, foreign>> /\ applies' = applies + 1 /\ applies < MaxApplies
        /\ MarkCloudflareChecked("checked")
    BY <1>6 DEF ApplyCloudflareDNS
  <2>2. cloudflare' \in CloudflareConfig
    BY <1>3, <2>1, ConfigStaysTyped
  <2>3. ZoneFormed'
    BY <2>1 DEF ProvisioningIInv, ZoneFormed, Ids, Lasting
  <2> QED BY <1>2, <1>3, <1>6, <2>1, <2>2, <2>3, ApplyIsFormed
<1>7. ASSUME NEW w \in Appliers, CallSucceeds(w)
      PROVE  KeepsZone /\ Rest
  <2>1. /\ UNCHANGED <<cloudflare, applies, foreign>>
        /\ \E c \in apply[w].calls :
             apply[w].pc = "calls" /\ Called(w, c, [apply[w] EXCEPT !.calls = @ \ {c}])
    BY <1>7 DEF CallSucceeds, NextCall
  <2>2. KeepsZone
    BY <2>1, CallIsFormed
  <2> HIDE DEF KeepsZone
  <2> QED BY <1>3, <2>1, <2>2
<1>8. ASSUME NEW w \in Appliers, CallFails(w)
      PROVE  KeepsZone /\ Rest
  <2>1. PICK c \in apply[w].calls :
          /\ apply[w].pc = "calls"
          /\ \/ UNCHANGED <<zone, created>> /\ apply' = [apply EXCEPT ![w].pc = "failed"]
             \/ Called(w, c, [apply[w] EXCEPT !.pc = "failed"])
          /\ cloudflare' = cloudflare \/ MarkCloudflareChecked("error")
    BY <1>8 DEF CallFails, NextCall
  <2>2. cloudflare' \in CloudflareConfig /\ UNCHANGED <<applies, foreign>>
    BY <1>3, <1>8, <2>1, ConfigStaysTyped DEF CallFails
  <2>3. CASE UNCHANGED <<zone, created>> /\ apply' = [apply EXCEPT ![w].pc = "failed"]
    <3> DEFINE b == [apply[w] EXCEPT !.pc = "failed"]
    <3>1. apply' = [apply EXCEPT ![w] = b]
      BY <1>3, <2>3
    <3>2. b \in Apply /\ ApplyFormed(b, zone, created)
      BY <1>3, FailedIsFormed
    <3> HIDE DEF b
    <3>3. KeepsZone
      BY <2>3, <3>1, <3>2, AlteredIsFormed
    <3> HIDE DEF KeepsZone
    <3> QED BY <1>3, <2>2, <3>3
  <2>4. CASE Called(w, c, [apply[w] EXCEPT !.pc = "failed"])
    <3>1. KeepsZone
      BY <2>1, <2>4, CallIsFormed
    <3> HIDE DEF KeepsZone
    <3> QED BY <1>3, <2>2, <3>1
  <2> QED BY <2>1, <2>3, <2>4
<1>9. ASSUME NEW w \in Appliers, RecordBackup(w)
      PROVE  KeepsZone /\ Rest
  <2>1. /\ apply[w].pc = "calls" /\ apply[w].calls = {}
        /\ UNCHANGED <<zone, created, applies, foreign>>
        /\ cloudflare' = cloudflare \/ MarkCloudflareChecked("checked")
    BY <1>9 DEF RecordBackup
  <2>2. cloudflare' \in CloudflareConfig
    BY <1>3, <2>1, ConfigStaysTyped
  <2>3. \E b \in Apply : ApplyFormed(b, zone, created) /\ apply' = [apply EXCEPT ![w] = b]
    <3>1. CASE apply' = [apply EXCEPT ![w].pc = "applied",
                                      ![w].backup = BackupRecords(apply[w].listed)]
      <4> DEFINE b == [apply[w] EXCEPT !.pc = "applied",
                                       !.backup = BackupRecords(apply[w].listed)]
      <4>1. apply' = [apply EXCEPT ![w] = b]
        BY <1>3, <3>1
      <4>2. b \in Apply /\ ApplyFormed(b, zone, created)
        BY <1>3, <2>1, BackupIsFormed
      <4> HIDE DEF b
      <4> QED BY <4>1, <4>2
    <3>2. CASE apply' = [apply EXCEPT ![w].pc = "failed"]
      <4> DEFINE b == [apply[w] EXCEPT !.pc = "failed"]
      <4>1. apply' = [apply EXCEPT ![w] = b]
        BY <1>3, <3>2
      <4>2. b \in Apply /\ ApplyFormed(b, zone, created)
        BY <1>3, FailedIsFormed
      <4> HIDE DEF b
      <4> QED BY <4>1, <4>2
    <3> QED BY <1>9, <3>1, <3>2 DEF RecordBackup
  <2>4. KeepsZone
    BY <2>1, <2>3, AlteredIsFormed
  <2> HIDE DEF KeepsZone
  <2> QED BY <1>3, <2>1, <2>2, <2>4
<1>10. ASSUME NEW w \in Appliers, Answer(w)
       PROVE  KeepsZone /\ Rest
  <2>1. /\ UNCHANGED <<zone, created, cloudflare, applies, foreign>>
        /\ apply' = [apply EXCEPT ![w] = NoApply]
    BY <1>10 DEF Answer
  <2>2. NoApply \in Apply /\ ApplyFormed(NoApply, zone, created)
    BY DEF NoApply, Apply, ApplyFormed
  <2>3. KeepsZone
    BY <2>1, <2>2, AlteredIsFormed
  <2> HIDE DEF KeepsZone
  <2> QED BY <1>3, <2>1, <2>3
<1>11. ASSUME OthersChangeZone
       PROVE  KeepsZone /\ Rest
  <2>1. PICK c \in {Create(0, r) : r \in Foreign} \cup {Delete(0, e) : e \in zone} : ChangeZone(c)
    BY <1>11 DEF OthersChangeZone
  <2>2. c \in Call
    BY <2>1 DEF Create, Delete, Call, AllRecords, ProvisioningIInv, ZoneFormed, Entry
  <2>3. ZoneFormed'
    BY <2>1, <2>2, ZoneStays DEF ProvisioningIInv
  <2> DEFINE out(v) == [apply[v] EXCEPT !.disturbed = TRUE]
  <2>4. apply' = [v \in Appliers |-> out(v)]
    BY <1>11 DEF OthersChangeZone, DisturbApplies
  <2>5. \A v \in Appliers : out(v) \in Apply /\ ApplyFormed(out(v), zone', created')
    BY <1>3, DisturbedIsFormed
  <2> HIDE DEF out
  <2>6. KeepsZone
    BY <2>3, <2>4, <2>5
  <2>7. Rest
    BY <1>2, <1>3, <1>11 DEF OthersChangeZone
  <2> QED BY <2>6, <2>7
<1>12. CASE UNCHANGED provisioningVars
  <2>1. UNCHANGED <<zone, created, apply, cloudflare, applies, foreign>>
    BY <1>12 DEF provisioningVars
  <2> HIDE DEF KeepsZone
  <2> QED BY <1>1, <1>3, <1>4, <2>1
<1> HIDE DEF KeepsZone, Rest
<1> QED BY <1>1, <1>5, <1>6, <1>7, <1>8, <1>9, <1>10, <1>11, <1>12 DEF ProvisioningNext

LEMMA ProvisioningIsTyped ==
    ASSUME ProvisioningIInv
    PROVE  ProvisioningTypeOK
BY DEF ProvisioningIInv, ZoneFormed, Lasting, ProvisioningTypeOK

LEMMA AnswersAreSo ==
    ASSUME ProvisioningIInv
    PROVE  AppliedAsAnswered
<1>1. ASSUME NEW w \in Appliers, apply[w].pc = "applied", ~apply[w].disturbed
      PROVE  PlanIs(zone, {"ok"}) /\ apply[w].removed \subseteq apply[w].backup
  <2> DEFINE L == apply[w].listed
  <2>1. /\ Lasting(L) /\ AsPlanned(L, PlannedCalls(L) \ apply[w].calls, zone)
        /\ apply[w].removed \subseteq BackupRecords(L)
        /\ apply[w].calls = {} /\ apply[w].backup = BackupRecords(L)
    BY <1>1 DEF ProvisioningIInv, ApplyFormed
  <2>2. PlannedCalls(L) \ apply[w].calls = PlannedCalls(L) /\ Lasting(zone)
    BY <2>1 DEF ProvisioningIInv, ZoneFormed
  <2> HIDE DEF L
  <2>3. PlanIs(zone, {"ok"})
    BY <2>1, <2>2, PlanIsCarriedOut
  <2> QED BY <2>1, <2>3
<1>2. \A w \in Appliers : ~apply[w].replace => apply[w].removed = {}
  BY DEF ProvisioningIInv, ApplyFormed
<1> QED BY <1>1, <1>2 DEF AppliedAsAnswered

\* The zone is one Cloudflare can hold, and the requests are formed as the
\* code forms them.
THEOREM ProvisioningTypes == ProvisioningSpec => []ProvisioningTypeOK
<1> QED BY ProvisioningInitHolds, ProvisioningStepHolds, ProvisioningIsTyped, PTL
        DEF ProvisioningSpec

\* Whatever records are wanted and whatever the zone holds: an apply that
\* answers that it is done, and that nobody came between, leaves a zone with
\* nothing left to do, and the backup has every record it removed; one that may
\* not replace removes none, whoever comes between.
THEOREM AppliesAreAsAnswered == ProvisioningSpec => []AppliedAsAnswered
<1> QED BY ProvisioningInitHolds, ProvisioningStepHolds, AnswersAreSo, PTL DEF ProvisioningSpec

-----------------------------------------------------------------------------
(* HostNames: the inductive invariant.                                     *)

\* The settings the records are computed from can be those of the pages.
SettingsFormed ==
    /\ deployment \in Deployments
    /\ mailServer \in MailForm
    /\ tlsSettings \in [Zones -> TlsForm]

LEMMA HostNamesInitFormed ==
    ASSUME HostNamesInit
    PROVE  SettingsFormed
<1>1. deployment \in Deployments
  BY DEF HostNamesInit
<1>2. DefaultMailServerSettings \in MailForm
  BY DEF DefaultMailServerSettings, MailForm, Families
<1>3. DefaultDomainTLSSettings \in TlsForm
  BY DEF DefaultDomainTLSSettings, TlsForm, Services
<1> QED BY <1>1, <1>2, <1>3 DEF HostNamesInit, SettingsFormed

LEMMA SaveMailServerFormed ==
    ASSUME SettingsFormed, NEW form \in MailForms, SaveMailServer(form)
    PROVE  SettingsFormed'
<1> DEFINE host == IF form.mode = "shared" /\ form.host = NoHost
                   THEN EffectiveMailHost(deployment.mail, <<"mail", Local>>) ELSE form.host
<1>1. /\ mailServer' = [form EXCEPT !.host = host]
      /\ UNCHANGED <<deployment, tlsSettings>>
  BY DEF SaveMailServer
<1>2. form \in MailForm
  BY HostNamesAssumptions
<1>3. deployment.mail \in Hosts \cup {NoHost}
  BY HostNamesAssumptions DEF SettingsFormed
<1>4. <<"mail", Local>> \in Hosts
  BY DEF Hosts, Services
<1>5. host \in Hosts \cup {NoHost}
  BY <1>2, <1>3, <1>4 DEF EffectiveMailHost, MailForm
<1> HIDE DEF host
<1>6. mailServer' \in MailForm
  BY <1>1, <1>2, <1>5 DEF MailForm
<1> QED BY <1>1, <1>6 DEF SettingsFormed

LEMMA HostNamesNextFormed ==
    ASSUME SettingsFormed, [HostNamesNext]_hostNamesVars
    PROVE  SettingsFormed'
<1>1. ASSUME NEW form \in MailForms, SaveMailServer(form) PROVE SettingsFormed'
  BY <1>1, SaveMailServerFormed
<1>2. ASSUME NEW d \in Zones, NEW form \in TlsForms, UpdateDomainTLSSettings(d, form)
      PROVE  SettingsFormed'
  <2>1. form \in TlsForm
    BY HostNamesAssumptions
  <2> QED BY <1>2, <2>1 DEF UpdateDomainTLSSettings, UpsertDomainTLSSettings, SettingsFormed
<1>3. ASSUME NEW d \in Zones, NEW type, NEW names, CreateTLSCertificateJob(d, type, names)
      PROVE  SettingsFormed'
  BY <1>3 DEF CreateTLSCertificateJob, SettingsFormed
<1>4. ASSUME NEW i \in DOMAIN tlsJobs, RunCertbot(i) \/ JobFails(i) \/ JobSucceeds(i)
      PROVE  SettingsFormed'
  BY <1>4 DEF RunCertbot, JobFails, JobSucceeds, SettingsFormed
<1>5. CASE RunSyncTLSInventory
  BY <1>5 DEF RunSyncTLSInventory, SettingsFormed
<1>6. ASSUME NEW d \in Zones, ChangeStatus(d) PROVE SettingsFormed'
  BY <1>6 DEF ChangeStatus, SettingsFormed
<1>7. CASE UNCHANGED hostNamesVars
  BY <1>7 DEF hostNamesVars, SettingsFormed
<1> QED BY <1>1, <1>2, <1>3, <1>4, <1>5, <1>6, <1>7 DEF HostNamesNext

-----------------------------------------------------------------------------
(* HostNames: the records of a domain.                                     *)

\* The mail host of a domain is a host outside of Local.
LEMMA MailHostIsUsable ==
    ASSUME SettingsFormed, NEW d \in Zones
    PROVE  /\ MailHostForDomain(d, DNSSettings) \in Hosts
           /\ MailHostForDomain(d, DNSSettings)[2] \in Zones \cup {Outside}
           /\ MailHostForDomain(d, DNSSettings) =
                <<MailHostForDomain(d, DNSSettings)[1], MailHostForDomain(d, DNSSettings)[2]>>
<1> DEFINE h == MailHostForDomain(d, DNSSettings)
<1>1. <<"mail", d>> \in Hosts /\ \A z \in Zones : <<"mail", z>> \in Hosts
  BY DEF Hosts, Services
<1>2. d # Local
  BY HostNamesAssumptions
<1>3. DNSSettings.mode = mailServer.mode /\ DNSSettings.mail = EffectiveHostname
  BY DEF DNSSettings
<1>4. EffectiveHostname \in Hosts \cup {NoHost}
  <2>1. /\ mailServer.host \in Hosts \cup {NoHost} /\ deployment.mail \in Hosts \cup {NoHost}
        /\ mailServer.head \in Zones \cup {NoHost}
    BY HostNamesAssumptions DEF SettingsFormed, MailForm
  <2>2. FirstGiven(mailServer.host, deployment.mail) \in Hosts \cup {NoHost}
    BY <2>1 DEF FirstGiven
  <2>3. <<"mail", Local>> \in Hosts
    BY DEF Hosts, Services
  <2>4. EffectiveMailHost(FirstGiven(mailServer.host, deployment.mail), <<"mail", Local>>)
          \in Hosts \cup {NoHost}
    BY <2>2, <2>3 DEF EffectiveMailHost
  <2>5. mailServer.head # NoHost => <<"mail", mailServer.head>> \in Hosts
    BY <2>1, <1>1
  <2> QED BY <2>4, <2>5 DEF EffectiveHostname
<1>5. h = <<"mail", d>> \/ (h = EffectiveHostname /\ Usable(EffectiveHostname))
  BY <1>3 DEF MailHostForDomain, EffectiveMailHost
<1>6. h \in Hosts /\ h[2] # Local
  <2>1. CASE h = <<"mail", d>>
    <3> HIDE DEF h
    <3>1. h[2] = d
      BY <2>1
    <3>2. h \in Hosts
      BY <2>1, <1>1
    <3> QED BY <3>1, <3>2, <1>2
  <2>2. CASE h = EffectiveHostname /\ Usable(EffectiveHostname)
    <3> HIDE DEF h
    <3> QED BY <2>2, <1>4 DEF Usable
  <2> QED BY <1>5, <2>1, <2>2
<1> HIDE DEF h
<1>7. h[2] \in Zones \cup {Outside} /\ h = <<h[1], h[2]>>
  <2> DEFINE A == Services \cup AutomaticNames \cup {"", "mx"}
             B == Zones \cup {Outside, Local}
  <2>1. h \in A \X B
    BY <1>6 DEF Hosts
  <2> HIDE DEF A, B
  <2>2. h = <<h[1], h[2]>> /\ h[2] \in B
    BY <2>1
  <2> QED BY <2>2, <1>6 DEF B
<1> QED BY <1>6, <1>7 DEF h

\* What a record of domain d with mail host m can be: an address of the mail
\* host or an alias of it, an address or alias of a web service, what says
\* where mail goes and who may send it, and the aliases of the automatic setup.
RecordFormed(r, d, m) ==
    /\ r = RecordOf(r.type, r.host, r.target)
    /\ r.host = <<r.host[1], d>>
    /\ \/ r.type \in Families /\ r.target = NoHost /\ m[2] = d /\ r.host[1] = m[1]
       \/ r.type = "CNAME" /\ r.target = m /\ m[2] # d /\ r.host[1] = "mail"
       \/ /\ r.type \in Families /\ r.target = NoHost /\ r.host[1] \in {"webmail", "madmin"}
          /\ DNSSettings[r.host[1]] = r.host
       \/ /\ r.type = "CNAME" /\ r.host[1] \in {"webmail", "madmin"}
          /\ r.target = DNSSettings[r.host[1]] /\ r.target # r.host
       \/ r.type = "MX" /\ r.target = m /\ r.host[1] = ""
       \/ r.type = "TXT" /\ r.target = NoHost /\ r.host[1] = ""
       \/ r.type = "CNAME" /\ r.target = m /\ r.host[1] \in AutomaticNames

LEMMA RecordParts ==
    ASSUME NEW type, NEW host, NEW target
    PROVE  /\ RecordOf(type, host, target).type = type
           /\ RecordOf(type, host, target).host = host
           /\ RecordOf(type, host, target).target = target
BY DEF RecordOf

LEMMA PublicAddressesAreOfFamilies ==
    ASSUME SettingsFormed
    PROVE  DNSSettings.addresses \subseteq Families
<1>1. mailServer.addresses \subseteq Families /\ deployment.addresses \subseteq Families
  BY HostNamesAssumptions DEF SettingsFormed, MailForm
<1> QED BY <1>1 DEF DNSSettings, PublicAddresses

\* The records in three parts: of the mail host, of the web services, and
\* those that every domain has.
MailRecordsOf(d, m) ==
    IF HostBelongsToDomain(m, d) THEN AddressRecords(m, DNSSettings)
    ELSE {RecordOf("CNAME", <<"mail", d>>, m)}

WebRecordsOf(d) ==
    UNION {WebServiceAlias(<<l, d>>, DNSSettings[l], DNSSettings) : l \in tlsSettings[d].aliases}

LEMMA RecordsInParts ==
    ASSUME NEW d
    PROVE  GetDomainDNS(d) = MailRecordsOf(d, MailHostForDomain(d, DNSSettings))
                               \cup WebRecordsOf(d)
                               \cup CommonRecords(d, MailHostForDomain(d, DNSSettings))
BY DEF GetDomainDNS, BuildDomainDNS, MailRecordsOf, WebRecordsOf

LEMMA RecordsAreFormed ==
    ASSUME SettingsFormed, NEW d \in Zones, NEW r \in GetDomainDNS(d)
    PROVE  RecordFormed(r, d, MailHostForDomain(d, DNSSettings))
<1> DEFINE m == MailHostForDomain(d, DNSSettings)
           aliases == tlsSettings[d].aliases
<1> SUFFICES RecordFormed(r, d, m)
  OBVIOUS
<1>1. m = <<m[1], m[2]>> /\ DNSSettings.addresses \subseteq Families
  BY MailHostIsUsable, PublicAddressesAreOfFamilies
<1>2. aliases \subseteq {"webmail", "madmin"}
  BY DEF SettingsFormed, TlsForm
<1>3. r \in MailRecordsOf(d, m) \cup WebRecordsOf(d) \cup CommonRecords(d, m)
  BY RecordsInParts
<1> HIDE DEF m, aliases
<1>4. CASE HostBelongsToDomain(m, d) /\ r \in AddressRecords(m, DNSSettings)
  <2>1. PICK f \in DNSSettings.addresses : r = RecordOf(f, m, NoHost)
    BY <1>4 DEF AddressRecords
  <2>2. r.type = f /\ r.host = m /\ r.target = NoHost /\ f \in Families /\ m[2] = d
    BY <1>1, <1>4, <2>1, RecordParts DEF HostBelongsToDomain
  <2> QED BY <1>1, <2>1, <2>2 DEF RecordFormed
<1>5. CASE ~HostBelongsToDomain(m, d) /\ r = RecordOf("CNAME", <<"mail", d>>, m)
  <2>1. r.type = "CNAME" /\ r.host = <<"mail", d>> /\ r.target = m /\ m[2] # d
    BY <1>5, RecordParts DEF HostBelongsToDomain
  <2>2. r.host[1] = "mail"
    BY <2>1
  <2> QED BY <1>5, <2>1, <2>2 DEF RecordFormed
<1>6. CASE r \in WebRecordsOf(d)
  <2>1. PICK l \in aliases : r \in WebServiceAlias(<<l, d>>, DNSSettings[l], DNSSettings)
    BY <1>6 DEF WebRecordsOf, aliases
  <2>2. l \in {"webmail", "madmin"}
    BY <1>2
  <2>3. CASE <<l, d>> = DNSSettings[l]
    <3>1. PICK f \in DNSSettings.addresses : r = RecordOf(f, <<l, d>>, NoHost)
      BY <2>1, <2>3 DEF WebServiceAlias, AddressRecords
    <3>2. r.type = f /\ r.host = <<l, d>> /\ r.target = NoHost /\ f \in Families
      BY <1>1, <3>1, RecordParts
    <3>3. r.host[1] = l
      BY <3>2
    <3> QED BY <2>2, <2>3, <3>1, <3>2, <3>3 DEF RecordFormed
  <2>4. CASE <<l, d>> # DNSSettings[l]
    <3>1. r = RecordOf("CNAME", <<l, d>>, DNSSettings[l])
      BY <2>1, <2>4 DEF WebServiceAlias
    <3>2. r.type = "CNAME" /\ r.host = <<l, d>> /\ r.target = DNSSettings[l]
      BY <3>1, RecordParts
    <3>3. r.host[1] = l
      BY <3>2
    <3> QED BY <2>2, <2>4, <3>1, <3>2, <3>3 DEF RecordFormed
  <2> QED BY <2>3, <2>4
<1>7. CASE r \in CommonRecords(d, m)
  <2>1. \/ r = RecordOf("MX", <<"", d>>, m)
        \/ r = RecordOf("TXT", <<"", d>>, NoHost)
        \/ \E l \in AutomaticNames : r = RecordOf("CNAME", <<l, d>>, m)
    BY <1>7 DEF CommonRecords
  <2>2. CASE r = RecordOf("MX", <<"", d>>, m)
    <3> DEFINE h == <<"", d>>
    <3>1. h[1] = "" /\ h = <<h[1], d>>
      OBVIOUS
    <3> HIDE DEF h
    <3>2. r = RecordOf("MX", h, m)
      BY <2>2 DEF h
    <3>3. r.type = "MX" /\ r.host = h /\ r.target = m
      BY <3>2, RecordParts
    <3> QED BY <3>1, <3>2, <3>3 DEF RecordFormed
  <2>3. CASE r = RecordOf("TXT", <<"", d>>, NoHost)
    <3> DEFINE h == <<"", d>>
    <3>1. h[1] = "" /\ h = <<h[1], d>>
      OBVIOUS
    <3> HIDE DEF h
    <3>2. r = RecordOf("TXT", h, NoHost)
      BY <2>3 DEF h
    <3>3. r.type = "TXT" /\ r.host = h /\ r.target = NoHost
      BY <3>2, RecordParts
    <3> QED BY <3>1, <3>2, <3>3 DEF RecordFormed
  <2>4. ASSUME NEW l \in AutomaticNames, r = RecordOf("CNAME", <<l, d>>, m)
        PROVE  RecordFormed(r, d, m)
    <3>1. r.type = "CNAME" /\ r.host = <<l, d>> /\ r.target = m
      BY <2>4, RecordParts
    <3>2. r.host[1] = l
      BY <3>1
    <3> QED BY <2>4, <3>1, <3>2 DEF RecordFormed
  <2> QED BY <2>1, <2>2, <2>3, <2>4
<1>8. r \in MailRecordsOf(d, m) =>
        \/ HostBelongsToDomain(m, d) /\ r \in AddressRecords(m, DNSSettings)
        \/ ~HostBelongsToDomain(m, d) /\ r = RecordOf("CNAME", <<"mail", d>>, m)
  BY DEF MailRecordsOf
<1> QED BY <1>3, <1>4, <1>5, <1>6, <1>7, <1>8

\* The mail host has an address in the zone it lies in, which is not always
\* the domain's own.
LEMMA MailHostIsFound ==
    ASSUME SettingsFormed, NEW d \in Zones, DNSSettings.addresses # {},
           NEW dns, dns = [z \in Zones |-> GetDomainDNS(z)]
    PROVE  Found(MailHostForDomain(d, DNSSettings), dns)
<1> DEFINE m == MailHostForDomain(d, DNSSettings)
<1>1. SUFFICES ASSUME m[2] \in Zones
               PROVE  \E r \in GetDomainDNS(m[2]) : r.host = m /\ r.type \in Families
  BY DEF Found
<1> DEFINE z == m[2]
<1>2. MailHostForDomain(z, DNSSettings) = m
  <2>1. CASE m = <<"mail", d>>
    <3>1. z = d
      BY <2>1
    <3> QED BY <3>1
  <2>2. CASE m # <<"mail", d>>
    <3>1. m = DNSSettings.mail /\ DNSSettings.mode # "per-domain" /\ Usable(DNSSettings.mail)
      BY <2>2 DEF MailHostForDomain, EffectiveMailHost
    <3> QED BY <3>1 DEF MailHostForDomain, EffectiveMailHost
  <2> QED BY <2>1, <2>2
<1>3. PICK f \in DNSSettings.addresses : TRUE
  OBVIOUS
<1>4. f \in Families
  BY PublicAddressesAreOfFamilies
<1> HIDE DEF m, z
<1>5. RecordOf(f, m, NoHost) \in GetDomainDNS(z)
  <2>1. HostBelongsToDomain(m, z)
    BY DEF HostBelongsToDomain, z
  <2>2. RecordOf(f, m, NoHost) \in AddressRecords(m, DNSSettings)
    BY DEF AddressRecords
  <2> QED BY <1>2, <2>1, <2>2 DEF GetDomainDNS, BuildDomainDNS
<1> QED BY <1>4, <1>5, RecordParts DEF z

\* An alias of the mail host resolves.
LEMMA AliasResolves ==
    ASSUME SettingsFormed, NEW d \in Zones, DNSSettings.addresses # {},
           NEW dns, dns = [z \in Zones |-> GetDomainDNS(z)], NEW l,
           RecordOf("CNAME", <<l, d>>, MailHostForDomain(d, DNSSettings)) \in GetDomainDNS(d)
    PROVE  Resolves(<<l, d>>, dns)
<1> DEFINE r == RecordOf("CNAME", <<l, d>>, MailHostForDomain(d, DNSSettings))
           h == <<l, d>>
<1>1. r.host = h /\ r.type = "CNAME" /\ r.target = MailHostForDomain(d, DNSSettings)
  BY RecordParts
<1>2. Found(r.target, dns)
  BY <1>1, MailHostIsFound
<1>3. r \in dns[h[2]]
  OBVIOUS
<1> HIDE DEF r, h
<1>4. Resolves(h, dns)
  BY <1>1, <1>2, <1>3 DEF Resolves
<1> QED BY <1>4 DEF h

LEMMA FormedRecordsFit ==
    ASSUME NEW d, NEW m, NEW r1, NEW r2, RecordFormed(r1, d, m), RecordFormed(r2, d, m),
           m[1] \notin AutomaticNames \cup {"webmail", "madmin"}, r1 # r2
    PROVE  FitTogether(r1, r2)
<1> SUFFICES ASSUME r1.host = r2.host
             PROVE  "CNAME" \notin {r1.type, r2.type} /\ r1.type # r2.type
  BY DEF FitTogether
<1> DEFINE l == r1.host[1]
<1>1. l = r2.host[1]
  OBVIOUS
<1>2. ~(r1.type = r2.type /\ r1.target = r2.target)
  BY DEF RecordFormed
<1> QED BY <1>1, <1>2 DEF RecordFormed, AutomaticNames, Families

LEMMA FormedSettingsResolve ==
    ASSUME SettingsFormed
    PROVE  NamesResolve
<1> DEFINE dns == [d \in Zones |-> GetDomainDNS(d)]
<1> SUFFICES ASSUME NEW d \in Zones,
                    MailHostForDomain(d, DNSSettings)[1]
                      \notin AutomaticNames \cup {"webmail", "madmin"}
             PROVE  LET mailHost == MailHostForDomain(d, DNSSettings)
                    IN  /\ \A r \in dns[d] : r.type = "CNAME" => r.target # r.host
                        /\ \A r1, r2 \in dns[d] : r1 # r2 => FitTogether(r1, r2)
                        /\ DNSSettings.addresses # {} =>
                             /\ Found(mailHost, dns)
                             /\ \A h \in ClientSetup(d, mailHost) : Resolves(h, dns)
                             /\ ~(mailHost[2] = d /\ mailHost[1] # "mail") =>
                                  \A h \in {MailAutoconfig(d), ServiceDiscovery(d),
                                            OutlookAutodiscover(d)} : Resolves(h, dns)
  BY DEF NamesResolve
<1> DEFINE m == MailHostForDomain(d, DNSSettings)
<1>1. dns[d] = GetDomainDNS(d) /\ \A r \in dns[d] : RecordFormed(r, d, m)
  BY RecordsAreFormed
<1>2. m = <<m[1], m[2]>>
  BY MailHostIsUsable
<1>3. m[1] \notin AutomaticNames \cup {"webmail", "madmin"}
  OBVIOUS
<1>4. ASSUME NEW r \in dns[d], r.type = "CNAME"
      PROVE  r.target # r.host
  <2> HIDE DEF m, dns
  <2>1. RecordFormed(r, d, m)
    BY <1>1
  <2>2. r.target = m \/ r.target # r.host
    BY <1>4, <2>1 DEF RecordFormed, Families
  <2>3. CASE r.target = m
    BY <1>3, <1>4, <2>1, <2>3 DEF RecordFormed, Families, AutomaticNames
  <2> QED BY <2>2, <2>3
<1>5. \A r1, r2 \in dns[d] : r1 # r2 => FitTogether(r1, r2)
  <2> HIDE DEF m, dns
  <2> QED BY <1>1, <1>3, FormedRecordsFit
<1>6. ASSUME DNSSettings.addresses # {}
      PROVE  /\ Found(m, dns)
             /\ \A h \in ClientSetup(d, m) : Resolves(h, dns)
             /\ ~(m[2] = d /\ m[1] # "mail") =>
                  \A h \in {MailAutoconfig(d), ServiceDiscovery(d),
                            OutlookAutodiscover(d)} : Resolves(h, dns)
  <2>1. Found(m, dns)
    BY <1>6, MailHostIsFound
  <2>2. ASSUME NEW l \in AutomaticNames
        PROVE  Resolves(<<l, d>>, dns)
    <3>1. RecordOf("CNAME", <<l, d>>, m) \in CommonRecords(d, m)
      BY DEF CommonRecords
    <3>2. CommonRecords(d, m) \subseteq GetDomainDNS(d)
      BY RecordsInParts
    <3> QED BY <1>6, <3>1, <3>2, AliasResolves
  <2>3. ASSUME ~(m[2] = d /\ m[1] # "mail")
        PROVE  Resolves(<<"mail", d>>, dns)
    <3>1. CASE m[2] = d
      <4>1. m = <<"mail", d>>
        BY <1>2, <2>3, <3>1
      <4> QED BY <2>1, <4>1 DEF Resolves
    <3>2. CASE m[2] # d
      <4>1. RecordOf("CNAME", <<"mail", d>>, m) \in GetDomainDNS(d)
        BY <3>2 DEF GetDomainDNS, BuildDomainDNS, HostBelongsToDomain
      <4> QED BY <1>6, <4>1, AliasResolves
    <3> QED BY <3>1, <3>2
  <2> HIDE DEF m, dns
  <2>4. \A h \in ClientSetup(d, m) : Resolves(h, dns)
    BY <2>1, <2>2 DEF ClientSetup, Resolves
  <2> QED BY <2>1, <2>3, <2>4 DEF MailAutoconfig, ServiceDiscovery, OutlookAutodiscover
<1> HIDE DEF dns
<1> QED BY <1>4, <1>5, <1>6

\* Whatever is saved on the pages of the mail server and the domains, and
\* however the programs are started: the records wanted for a domain can stand
\* in one zone, and the names that mail programs are given resolve, but for
\* the exceptions that NamesResolve names.
THEOREM NamesAreServed == HostNamesSpec => []NamesResolve
<1>1. HostNamesSpec => []SettingsFormed
  BY HostNamesInitFormed, HostNamesNextFormed, PTL DEF HostNamesSpec
<1> QED BY <1>1, FormedSettingsResolve, PTL

-----------------------------------------------------------------------------
(* HostNames: the search for certificates.                                 *)

\* The first name of a list that is one of hosts is the one before which there
\* is none; without any there is no host.
LEMMA FirstIs ==
    ASSUME NEW names, DOMAIN names \subseteq Nat, NEW hosts, NEW k \in DOMAIN names,
           names[k] \in hosts, \A j \in DOMAIN names : j < k => names[j] \notin hosts
    PROVE  FirstOf(names, hosts) = names[k]
<1> DEFINE P == {i \in DOMAIN names : names[i] \in hosts}
<1>1. P \subseteq Nat /\ k \in P
  OBVIOUS
<1>2. Min(P) \in P
  <2> HIDE DEF P
  <2> QED BY <1>1, MinOfNumbers
<1>3. \A j \in P : k <= j
  OBVIOUS
<1>4. Min(P) <= k
  <2>1. \E x \in P : \A y \in P : x <= y
    BY <1>1, <1>3
  <2> HIDE DEF P
  <2> QED BY <1>1, <2>1 DEF Min
<1>5. Min(P) = k
  BY <1>1, <1>2, <1>3, <1>4
<1> HIDE DEF P
<1> QED BY <1>1, <1>5 DEF FirstOf, P

LEMMA FirstExists ==
    ASSUME NEW names, DOMAIN names \subseteq Nat, NEW hosts
    PROVE  \/ FirstOf(names, hosts) = NoHost /\ \A j \in DOMAIN names : names[j] \notin hosts
           \/ FirstOf(names, hosts) \in hosts
<1> DEFINE P == {i \in DOMAIN names : names[i] \in hosts}
<1>1. P \subseteq Nat
  OBVIOUS
<1>2. CASE P = {}
  BY <1>2 DEF FirstOf
<1>3. CASE P # {}
  <2>1. Min(P) \in P
    <3> HIDE DEF P
    <3> QED BY <1>1, <1>3, MinOfNumbers
  <2>2. FirstOf(names, hosts) = names[Min(P)]
    BY <1>3 DEF FirstOf
  <2> HIDE DEF FirstOf
  <2> QED BY <2>1, <2>2
<1> QED BY <1>2, <1>3

\* The same names found in both lists make the same first one.
LEMMA FirstAgrees ==
    ASSUME NEW a, NEW b, DOMAIN a = DOMAIN b, DOMAIN b \subseteq Nat, NEW hosts,
           \A i \in DOMAIN b : a[i] \in hosts \/ b[i] \in hosts => a[i] = b[i]
    PROVE  FirstOf(a, hosts) = FirstOf(b, hosts)
<1>1. {i \in DOMAIN a : a[i] \in hosts} = {i \in DOMAIN b : b[i] \in hosts}
  OBVIOUS
<1> DEFINE P == {i \in DOMAIN b : b[i] \in hosts}
<1>2. CASE P = {}
  BY <1>1, <1>2 DEF FirstOf
<1>3. CASE P # {}
  <2>1. P \subseteq Nat
    OBVIOUS
  <2>2. Min(P) \in P
    <3> HIDE DEF P
    <3> QED BY <1>3, <2>1, MinOfNumbers
  <2>3. FirstOf(a, hosts) = a[Min(P)] /\ FirstOf(b, hosts) = b[Min(P)]
    BY <1>1, <1>3 DEF FirstOf
  <2>4. a[Min(P)] = b[Min(P)]
    BY <2>2
  <2> QED BY <2>3, <2>4
<1> QED BY <1>2, <1>3

\* The names of a domain of its own can be used.
LEMMA OwnNamesUsable ==
    ASSUME NEW d \in Zones, NEW s \in Services
    PROVE  <<s, d>> \in Hosts /\ Usable(<<s, d>>) /\ <<s, d>> # NoHost
<1>1. <<s, d>> \in Hosts
  BY DEF Hosts
<1>2. d # Local /\ NoHost \notin Hosts
  BY HostNamesAssumptions
<1>3. <<s, d>> # NoHost
  BY <1>1, <1>2
<1> QED BY <1>1, <1>2, <1>3 DEF Usable

LEMMA DesiredIsUsable ==
    ASSUME SettingsFormed, NEW d \in Zones
    PROVE  /\ DesiredTLSHostnames(d) \subseteq Hosts
           /\ \A h \in DesiredTLSHostnames(d) : Usable(h)
           /\ \A s \in Services : <<s, d>> \in DesiredTLSHostnames(d) <=>
                s \in tlsSettings[d].include \cap ({"mail"} \cup tlsSettings[d].aliases)
<1>1. tlsSettings[d].include \subseteq Services
  BY DEF SettingsFormed, TlsForm
<1>2. \A h \in DesiredTLSHostnames(d) :
        \E s \in tlsSettings[d].include \cap ({"mail"} \cup tlsSettings[d].aliases) : h = <<s, d>>
  BY DEF DesiredTLSHostnames
<1>3. \A h \in DesiredTLSHostnames(d) : h \in Hosts /\ Usable(h)
  BY <1>1, <1>2, OwnNamesUsable
<1>4. ASSUME NEW s \in Services
      PROVE  <<s, d>> \in DesiredTLSHostnames(d) <=>
               s \in tlsSettings[d].include \cap ({"mail"} \cup tlsSettings[d].aliases)
  <2>1. \A z : <<z, d>> = <<s, d>> => z = s
    OBVIOUS
  <2> QED BY <1>2, <2>1 DEF DesiredTLSHostnames
<1> QED BY <1>3, <1>4

\* The list of the page is that of mailctl without the names in Local.
LEMMA CandidatesAgree ==
    ASSUME SettingsFormed, NEW d \in Zones, \A h \in DOMAIN certificates : Usable(h)
    PROVE  GetDomainTLS(d) = FindTLSInventoryCertificate(d)
<1> DEFINE desired == DesiredTLSHostnames(d)
           form == tlsSettings[d]
           a == CertificateCandidateNames(d, desired)
           b == TlsInventoryCandidateNames(d)
           wanted(s) == Where(s \in form.include /\ s \in {"mail"} \cup form.aliases, <<s, d>>)
           list == << form.name, wanted("mail"), wanted("webmail"), wanted("madmin"),
                      <<"madmin", d>>, <<"webmail", d>>, <<"mail", d>> >>
<1>1. \A s \in Services : Where(<<s, d>> \in desired, <<s, d>>) = wanted(s)
  BY DesiredIsUsable DEF Where
<1>2. a = Given(list)
  BY <1>1 DEF CertificateCandidateNames, Services
<1>3. b = list
  BY DEF TlsInventoryCandidateNames
<1>4. DOMAIN list = 1..7
  OBVIOUS
<1> HIDE DEF list, a, b
<1>5. DOMAIN a = 1..7 /\ \A i \in 1..7 : a[i] = Where(Usable(b[i]), b[i])
  BY <1>2, <1>3, <1>4 DEF Given
<1>6. NoHost \notin DOMAIN certificates
  BY DEF Usable
<1>7. \A i \in 1..7 : a[i] \in DOMAIN certificates \/ b[i] \in DOMAIN certificates => a[i] = b[i]
  BY <1>5, <1>6 DEF Where
<1>8. FirstOf(a, DOMAIN certificates) = FirstOf(b, DOMAIN certificates)
  <2>1. DOMAIN a = DOMAIN b /\ DOMAIN b \subseteq Nat
    BY <1>3, <1>4, <1>5
  <2>2. \A i \in DOMAIN b : a[i] \in DOMAIN certificates \/ b[i] \in DOMAIN certificates
                             => a[i] = b[i]
    BY <1>3, <1>4, <1>7
  <2> QED BY <2>1, <2>2, FirstAgrees
<1>9. FirstCertificate(d, a) = FirstCertificate(d, b)
  BY <1>8 DEF FirstCertificate
<1>10. /\ GetDomainTLS(d) = FirstCertificate(d, a)
       /\ FindTLSInventoryCertificate(d) = FirstCertificate(d, b)
  BY Zenon DEF GetDomainTLS, DiscoverFilesystemCertificate, FindTLSInventoryCertificate, a, b
<1> QED BY <1>9, <1>10

\* What is found is a file of the administrator or a certificate of certbot.
LEMMA FoundIsThere ==
    ASSUME SettingsFormed, NEW d \in Zones
    PROVE  FindTLSInventoryCertificate(d) \subseteq {CustomFile} \cup DOMAIN certificates
<1> DEFINE b == TlsInventoryCandidateNames(d)
           f == FirstOf(b, DOMAIN certificates)
<1>1. DOMAIN b = 1..7
  BY DEF TlsInventoryCandidateNames
<1> HIDE DEF b
<1>2. f = NoHost \/ f \in DOMAIN certificates
  BY <1>1, FirstExists
<1> HIDE DEF f
<1>3. tlsSettings[d].custom \in {"none", "good", "bad"}
  BY DEF SettingsFormed, TlsForm
<1> QED BY <1>2, <1>3 DEF FindTLSInventoryCertificate, FirstCertificate, f, b

\* Where the settings name no certificate and no file, the certificate called
\* after the first name wanted is found if it is there.
LEMMA FirstNameIsFound ==
    ASSUME SettingsFormed, NEW d \in Zones, \A h \in DOMAIN certificates : Usable(h),
           tlsSettings[d].name = NoHost, tlsSettings[d].custom = "none",
           DesiredTLSHostnames(d) # {},
           FirstOf(ServiceOrder(d), DesiredTLSHostnames(d)) \in DOMAIN certificates
    PROVE  /\ FindTLSInventoryCertificate(d) = {FirstOf(ServiceOrder(d), DesiredTLSHostnames(d))}
           /\ "mail" \in tlsSettings[d].include =>
                FirstOf(ServiceOrder(d), DesiredTLSHostnames(d)) = <<"mail", d>>
<1> DEFINE D == DesiredTLSHostnames(d)
           form == tlsSettings[d]
           C == DOMAIN certificates
           first == FirstOf(ServiceOrder(d), D)
           wanted(s) == Where(s \in form.include /\ s \in {"mail"} \cup form.aliases, <<s, d>>)
           list == << form.name, wanted("mail"), wanted("webmail"), wanted("madmin"),
                      <<"madmin", d>>, <<"webmail", d>>, <<"mail", d>> >>
           order == ServiceOrder(d)
<1>1. /\ \A s \in Services : wanted(s) = Where(<<s, d>> \in D, <<s, d>>)
      /\ "mail" \in form.include <=> <<"mail", d>> \in D
  BY DesiredIsUsable DEF Where, Services
<1>2. NoHost \notin C
  BY DEF Usable
<1>3. /\ DOMAIN order = 1..3 /\ order[1] = <<"mail", d>> /\ order[2] = <<"webmail", d>>
      /\ order[3] = <<"madmin", d>>
  BY DEF ServiceOrder
<1>4. /\ DOMAIN list = 1..7 /\ list[1] = NoHost /\ list[2] = wanted("mail")
      /\ list[3] = wanted("webmail") /\ list[4] = wanted("madmin")
  OBVIOUS
<1>5. D \subseteq {<<"mail", d>>, <<"webmail", d>>, <<"madmin", d>>}
  BY DEF DesiredTLSHostnames, SettingsFormed, TlsForm, Services
<1>6. FindTLSInventoryCertificate(d) = {FirstOf(list, C)} \ {NoHost}
  BY DEF FindTLSInventoryCertificate, FirstCertificate, TlsInventoryCandidateNames
<1>7. first \in C /\ D # {} /\ first = FirstOf(order, D)
  OBVIOUS
<1> HIDE DEF D, C, first, list, order, wanted
<1>8. FirstOf(list, C) = first /\ (<<"mail", d>> \in D => first = <<"mail", d>>)
  <2>1. CASE <<"mail", d>> \in D
    <3>1. first = order[1]
      <4>1. DOMAIN order \subseteq Nat /\ 1 \in DOMAIN order /\ order[1] \in D
        BY <1>3, <2>1
      <4>2. \A j \in DOMAIN order : j < 1 => order[j] \notin D
        BY <1>3, <2>1
      <4> QED BY <1>7, <4>1, <4>2, FirstIs
    <3>2. list[2] = <<"mail", d>>
      BY <1>1, <1>4, <2>1 DEF Where, Services
    <3>3. FirstOf(list, C) = list[2]
      <4>1. DOMAIN list \subseteq Nat /\ 2 \in DOMAIN list /\ list[2] \in C
        BY <1>3, <1>4, <1>7, <3>1, <3>2
      <4>2. \A j \in DOMAIN list : j < 2 => list[j] \notin C
        BY <1>2, <1>4, <3>2
      <4> QED BY <4>1, <4>2, FirstIs
    <3> QED BY <1>3, <3>1, <3>2, <3>3
  <2>2. CASE <<"mail", d>> \notin D /\ <<"webmail", d>> \in D
    <3>1. first = order[2]
      <4>1. DOMAIN order \subseteq Nat /\ 2 \in DOMAIN order /\ order[2] \in D
        BY <1>3, <2>2
      <4>2. \A j \in DOMAIN order : j < 2 => order[j] \notin D
        BY <1>3, <2>2
      <4> QED BY <1>7, <4>1, <4>2, FirstIs
    <3>2. list[2] = NoHost /\ list[3] = <<"webmail", d>>
      BY <1>1, <1>4, <2>2 DEF Where, Services
    <3>3. FirstOf(list, C) = list[3]
      <4>1. DOMAIN list \subseteq Nat /\ 3 \in DOMAIN list /\ list[3] \in C
        BY <1>3, <1>4, <1>7, <3>1, <3>2
      <4>2. \A j \in DOMAIN list : j < 3 => list[j] \notin C
        BY <1>2, <1>4, <3>2
      <4> QED BY <4>1, <4>2, FirstIs
    <3> QED BY <1>3, <2>2, <3>1, <3>2, <3>3
  <2>3. CASE <<"mail", d>> \notin D /\ <<"webmail", d>> \notin D /\ <<"madmin", d>> \in D
    <3>1. first = order[3]
      <4>1. DOMAIN order \subseteq Nat /\ 3 \in DOMAIN order /\ order[3] \in D
        BY <1>3, <2>3
      <4>2. \A j \in DOMAIN order : j < 3 => order[j] \notin D
        BY <1>3, <2>3
      <4> QED BY <1>7, <4>1, <4>2, FirstIs
    <3>2. list[2] = NoHost /\ list[3] = NoHost /\ list[4] = <<"madmin", d>>
      BY <1>1, <1>4, <2>3 DEF Where, Services
    <3>3. FirstOf(list, C) = list[4]
      <4>1. DOMAIN list \subseteq Nat /\ 4 \in DOMAIN list /\ list[4] \in C
        BY <1>3, <1>4, <1>7, <3>1, <3>2
      <4>2. \A j \in DOMAIN list : j < 4 => list[j] \notin C
        BY <1>2, <1>4, <3>2
      <4> QED BY <4>1, <4>2, FirstIs
    <3> QED BY <1>3, <2>3, <3>1, <3>2, <3>3
  <2> QED BY <1>5, <1>7, <2>1, <2>2, <2>3
<1>9. FindTLSInventoryCertificate(d) = {first}
  BY <1>2, <1>6, <1>7, <1>8
<1> QED BY <1>1, <1>8, <1>9 DEF first, order, D


-----------------------------------------------------------------------------
(* HostNames: the inductive invariant of the certificates.                 *)

\* What can be known of a job: its names are names certbot can be called with,
\* and until the settings change they are those the settings want.
JobFormed(job) ==
    /\ job \in TlsJob
    /\ \A h \in job.hostnames : Usable(h)
    /\ job.hostnames # {} => job.first \in job.hostnames
    /\ job.at <= saves
    /\ ~job.given /\ job.at = saves =>
         /\ job.hostnames = DesiredTLSHostnames(job.zone)
         /\ job.first = FirstOf(ServiceOrder(job.zone), job.hostnames)

\* The certificate of the job that called certbot last is still what it made
\* of it, and once the job ends it is in the inventory, if the domain is in use.
LatestIsThere ==
    latest # 0 =>
      LET job == tlsJobs[latest]
      IN  /\ job.status \in {"issued", "succeeded"} /\ job.hostnames # {}
          /\ job.first \in DOMAIN certificates /\ certificates[job.first] = job.hostnames
          /\ job.status = "succeeded" /\ ~job.given /\ job.at = saves
               /\ tlsSettings[job.zone].name = NoHost /\ tlsSettings[job.zone].custom = "none"
               /\ job.zone \notin outOfUse
             => job.first \in inventory[job.zone]

JobsFormed ==
    /\ tlsJobs \in Seq(TlsJob)
    /\ saves \in Nat /\ saves + Len(tlsJobs) <= MaxPosts
    /\ latest \in 0..Len(tlsJobs)
    /\ \A i \in 1..Len(tlsJobs) : JobFormed(tlsJobs[i])

\* Certbot's directories are called after names of jobs and the inventory holds
\* nothing else but files of the administrator.
CertificatesFormed ==
    /\ \A h \in DOMAIN certificates : h \in Hosts /\ Usable(h) /\ certificates[h] \subseteq Hosts
    /\ inventory \in [Zones -> SUBSET (Hosts \cup {CustomFile})]
    /\ outOfUse \subseteq Zones

CertificatesIInv ==
    SettingsFormed /\ JobsFormed /\ CertificatesFormed /\ LatestIsThere

LEMMA CertificatesInit ==
    ASSUME HostNamesInit
    PROVE  CertificatesIInv
<1>1. SettingsFormed
  BY HostNamesInitFormed
<1>2. tlsJobs = << >> /\ latest = 0 /\ saves = 0 /\ certificates = << >>
      /\ inventory = [d \in Zones |-> {}] /\ outOfUse = {}
  BY DEF HostNamesInit
<1>3. JobsFormed
  BY <1>2, HostNamesAssumptions DEF JobsFormed
<1>4. CertificatesFormed /\ LatestIsThere
  BY <1>2 DEF CertificatesFormed, LatestIsThere
<1> QED BY <1>1, <1>3, <1>4 DEF CertificatesIInv

\* Settings that are saved are later than any job.
LEMMA SavesAreLater ==
    ASSUME CertificatesIInv, saves' = saves + 1, saves + Len(tlsJobs) < MaxPosts,
           outOfUse' \subseteq Zones,
           UNCHANGED <<certificates, inventory, tlsJobs, latest>>
    PROVE  JobsFormed' /\ CertificatesFormed' /\ LatestIsThere'
<1> USE DEF CertificatesIInv
<1>1. \A i \in 1..Len(tlsJobs) : tlsJobs[i].at \in Nat /\ tlsJobs[i].at <= saves
  BY DEF JobsFormed, JobFormed, TlsJob
<1>2. saves \in Nat /\ saves + 1 \in Nat
  BY DEF JobsFormed
<1>3. \A i \in 1..Len(tlsJobs) : JobFormed(tlsJobs[i])'
  <2> TAKE i \in 1..Len(tlsJobs)
  <2>1. tlsJobs'[i] = tlsJobs[i] /\ JobFormed(tlsJobs[i])
    BY DEF JobsFormed
  <2>2. tlsJobs[i].at <= saves' /\ tlsJobs[i].at # saves'
    BY <1>1, <1>2
  <2> QED BY <2>1, <2>2 DEF JobFormed, Usable
<1>4. Len(tlsJobs) \in Nat /\ MaxPosts \in Nat
  BY HostNamesAssumptions DEF JobsFormed
<1>5. JobsFormed'
  BY <1>2, <1>3, <1>4 DEF JobsFormed
<1>6. CertificatesFormed'
  BY DEF CertificatesFormed, Usable
<1>7. LatestIsThere'
  <2> SUFFICES ASSUME latest # 0 PROVE LatestIsThere'
    BY DEF LatestIsThere
  <2>1. latest \in 1..Len(tlsJobs)
    BY DEF JobsFormed
  <2>2. tlsJobs[latest].at # saves'
    BY <1>1, <1>2, <2>1
  <2> QED BY <2>2 DEF LatestIsThere
<1> QED BY <1>5, <1>6, <1>7

LEMMA JobIsFormed ==
    ASSUME CertificatesIInv, NEW d \in Zones, NEW type \in {"issue", "check"}, NEW asked \in JobForms,
           CreateTLSCertificateJob(d, type, asked)
    PROVE  CertificatesIInv'
<1> USE DEF CertificatesIInv
<1> DEFINE list == Given(asked)
           given == ToSet(list) \ {NoHost}
           names == IF given = {} THEN DesiredTLSHostnames(d) ELSE given
           first == FirstOf(IF given = {} THEN ServiceOrder(d) ELSE list, names)
           job == [zone |-> d, type |-> type, given |-> given # {}, hostnames |-> names,
                   first |-> first, at |-> saves, status |-> "queued"]
<1>1. tlsJobs' = Append(tlsJobs, job)
  BY DEF CreateTLSCertificateJob, InsertTLSCertificateJob
<1>2. /\ saves + Len(tlsJobs) < MaxPosts
      /\ UNCHANGED <<deployment, mailServer, outOfUse, tlsSettings, certificates, inventory, latest, saves>>
  BY DEF CreateTLSCertificateJob
<1>3. /\ DOMAIN list = 1..Len(asked) /\ Len(asked) \in Nat
      /\ \A i \in 1..Len(asked) : list[i] = NoHost \/ (list[i] \in Hosts /\ Usable(list[i]))
  <2>1. asked \in Seq(Hosts)
    BY HostNamesAssumptions
  <2>2. DOMAIN asked = 1..Len(asked) /\ Len(asked) \in Nat /\ \A i \in 1..Len(asked) : asked[i] \in Hosts
    BY <2>1
  <2> QED BY <2>2 DEF Given, Where
<1>4. given \subseteq Hosts /\ (\A h \in given : Usable(h)) /\ \A h \in given : \E i \in 1..Len(asked) : list[i] = h
  BY <1>3 DEF ToSet
<1>5. names \subseteq Hosts /\ \A h \in names : Usable(h)
  BY <1>4, DesiredIsUsable
<1>6. names # {} => first \in names
  <2>1. CASE given # {}
    <3>1. names = given /\ first = FirstOf(list, given)
      BY <2>1
    <3>2. PICK i \in 1..Len(asked) : list[i] \in given
      BY <1>4, <2>1
    <3> HIDE DEF list, given, names, first
    <3> QED BY <1>3, <3>1, <3>2, FirstExists
  <2>2. CASE given = {}
    <3> DEFINE D == DesiredTLSHostnames(d)
               order == ServiceOrder(d)
    <3>1. names = D /\ first = FirstOf(order, D)
      BY <2>2
    <3>2. /\ DOMAIN order = 1..3 /\ order[1] = <<"mail", d>> /\ order[2] = <<"webmail", d>>
          /\ order[3] = <<"madmin", d>>
      BY DEF ServiceOrder
    <3>3. D \subseteq {<<"mail", d>>, <<"webmail", d>>, <<"madmin", d>>}
      BY DEF DesiredTLSHostnames, SettingsFormed, TlsForm, Services
    <3> HIDE DEF list, given, names, first, D, order
    <3>4. D # {} => \E i \in 1..3 : order[i] \in D
      BY <3>2, <3>3
    <3>5. \/ first = NoHost /\ \A i \in 1..3 : order[i] \notin D
          \/ first \in D
      BY <3>1, <3>2, FirstExists
    <3> QED BY <3>1, <3>4, <3>5
  <2> QED BY <2>1, <2>2
<1>7. first \in Hosts \cup {NoHost}
  <2>1. CASE given # {}
    <3>1. first = FirstOf(list, given)
      BY <2>1
    <3> HIDE DEF list, given, names, first
    <3> QED BY <1>3, <1>4, <3>1, FirstExists
  <2>2. CASE given = {} /\ names = {}
    <3>1. first = FirstOf(ServiceOrder(d), {}) /\ DOMAIN ServiceOrder(d) = 1..3
      BY <2>2 DEF ServiceOrder
    <3> HIDE DEF first, given, names
    <3> QED BY <3>1, FirstExists
  <2>3. CASE names # {}
    BY <1>5, <1>6, <2>3
  <2> QED BY <2>1, <2>2, <2>3
<1>8. given = {} => names = DesiredTLSHostnames(d) /\ first = FirstOf(ServiceOrder(d), names)
  OBVIOUS
<1>9. saves \in Nat /\ MaxPosts \in Nat /\ Len(tlsJobs) \in Nat /\ saves <= MaxPosts
  BY <1>2, HostNamesAssumptions DEF JobsFormed
<1> HIDE DEF list, given, names, first
<1>10. job \in TlsJob
  BY <1>5, <1>7, <1>9 DEF TlsJob
<1>11. JobFormed(job)
  <2>1. /\ job.hostnames = names /\ job.first = first /\ job.at = saves /\ job.zone = d
        /\ job.given = (given # {})
    OBVIOUS
  <2> HIDE DEF job
  <2>2. job.at <= saves
    BY <1>9, <2>1
  <2> QED BY <1>5, <1>6, <1>8, <1>10, <2>1, <2>2 DEF JobFormed
<1> HIDE DEF job
<1>12. /\ tlsJobs' \in Seq(TlsJob) /\ Len(tlsJobs') = Len(tlsJobs) + 1
       /\ tlsJobs'[Len(tlsJobs) + 1] = job
       /\ \A i \in 1..Len(tlsJobs) : tlsJobs'[i] = tlsJobs[i]
  BY <1>1, <1>10 DEF JobsFormed
<1>13. \A i \in 1..Len(tlsJobs') : JobFormed(tlsJobs'[i])
  BY <1>9, <1>11, <1>12 DEF JobsFormed
<1>14. \A i \in 1..Len(tlsJobs') : JobFormed(tlsJobs[i])'
  BY <1>2, <1>13 DEF JobFormed, Usable, DesiredTLSHostnames
<1>15. JobsFormed'
  BY <1>2, <1>9, <1>12, <1>14 DEF JobsFormed
<1>16. LatestIsThere'
  <2>1. latest # 0 => tlsJobs'[latest] = tlsJobs[latest]
    BY <1>9, <1>12 DEF JobsFormed
  <2> QED BY <1>2, <2>1 DEF LatestIsThere
<1>17. SettingsFormed' /\ CertificatesFormed'
  BY <1>2 DEF SettingsFormed, CertificatesFormed, Usable
<1> QED BY <1>15, <1>16, <1>17


\* A job whose certificates and status change keeps the rest.
LEMMA StatusChanges ==
    ASSUME JobsFormed, NEW i \in 1..Len(tlsJobs),
           NEW status \in {"queued", "issued", "succeeded", "failed"}, Becomes(i, status),
           UNCHANGED <<tlsSettings, saves>>
    PROVE  /\ Len(tlsJobs') = Len(tlsJobs) /\ tlsJobs' \in Seq(TlsJob)
           /\ \A k \in 1..Len(tlsJobs) : JobFormed(tlsJobs[k])'
           /\ \A k \in 1..Len(tlsJobs) \ {i} : tlsJobs'[k] = tlsJobs[k]
           /\ tlsJobs'[i].status = status /\ tlsJobs'[i].zone = tlsJobs[i].zone
           /\ tlsJobs'[i].first = tlsJobs[i].first /\ tlsJobs'[i].hostnames = tlsJobs[i].hostnames
           /\ tlsJobs'[i].given = tlsJobs[i].given /\ tlsJobs'[i].at = tlsJobs[i].at
<1> DEFINE job == [tlsJobs[i] EXCEPT !.status = status]
<1>1. /\ tlsJobs \in Seq(TlsJob) /\ Len(tlsJobs) \in Nat /\ tlsJobs[i] \in TlsJob
      /\ \A k \in 1..Len(tlsJobs) : JobFormed(tlsJobs[k])
  BY DEF JobsFormed
<1>2. job \in TlsJob
  BY <1>1 DEF TlsJob
<1>3. /\ job.status = status /\ job.zone = tlsJobs[i].zone /\ job.first = tlsJobs[i].first
      /\ job.hostnames = tlsJobs[i].hostnames /\ job.given = tlsJobs[i].given
      /\ job.at = tlsJobs[i].at
  BY <1>1 DEF TlsJob
<1>4. tlsJobs' = [tlsJobs EXCEPT ![i] = job]
  BY DEF Becomes
<1> HIDE DEF job
<1>5. /\ Len(tlsJobs') = Len(tlsJobs) /\ tlsJobs' \in Seq(TlsJob) /\ tlsJobs'[i] = job
      /\ \A k \in 1..Len(tlsJobs) \ {i} : tlsJobs'[k] = tlsJobs[k]
  BY <1>1, <1>2, <1>4
<1>6. JobFormed(job)
  BY <1>1, <1>2, <1>3 DEF JobFormed
<1>7. \A k \in 1..Len(tlsJobs) : JobFormed(tlsJobs'[k])
  BY <1>1, <1>5, <1>6
<1>8. \A k \in 1..Len(tlsJobs) : JobFormed(tlsJobs[k])'
  BY <1>7 DEF JobFormed, Usable, DesiredTLSHostnames
<1> QED BY <1>3, <1>5, <1>8

LEMMA JobAt ==
    ASSUME JobsFormed, NEW i \in 1..Len(tlsJobs)
    PROVE  tlsJobs[i] \in TlsJob /\ JobFormed(tlsJobs[i]) /\ tlsJobs[i].zone \in Zones
<1>1. tlsJobs[i] \in TlsJob /\ JobFormed(tlsJobs[i])
  BY DEF JobsFormed
<1>2. tlsJobs[i].zone \in Zones
  BY <1>1 DEF TlsJob
<1> QED BY <1>1, <1>2

LEMMA CertbotIsFormed ==
    ASSUME CertificatesIInv, NEW i \in DOMAIN tlsJobs, RunCertbot(i)
    PROVE  CertificatesIInv'
<1> USE DEF CertificatesIInv
<1> DEFINE job == tlsJobs[i]
<1>1. i \in 1..Len(tlsJobs) /\ Len(tlsJobs) \in Nat
  BY DEF JobsFormed
<1>2. job \in TlsJob /\ JobFormed(job)
  BY <1>1 DEF JobsFormed
<1>3. /\ job.hostnames # {} /\ latest' = i /\ Becomes(i, "issued")
      /\ certificates' = [h \in DOMAIN certificates \cup {job.first} |->
                          IF h = job.first THEN job.hostnames ELSE certificates[h]]
      /\ UNCHANGED <<deployment, mailServer, outOfUse, tlsSettings, inventory, saves>>
  BY DEF RunCertbot
<1>4. /\ Len(tlsJobs') = Len(tlsJobs) /\ tlsJobs' \in Seq(TlsJob)
      /\ \A k \in 1..Len(tlsJobs) : JobFormed(tlsJobs[k])'
      /\ tlsJobs'[i].status = "issued" /\ tlsJobs'[i].first = job.first
      /\ tlsJobs'[i].hostnames = job.hostnames
  BY <1>1, <1>3, StatusChanges
<1>5. job.first \in job.hostnames /\ job.hostnames \subseteq Hosts /\ \A h \in job.hostnames : Usable(h)
  BY <1>2, <1>3 DEF JobFormed, TlsJob
<1>6. /\ DOMAIN certificates' = DOMAIN certificates \cup {job.first}
      /\ certificates'[job.first] = job.hostnames
      /\ \A h \in DOMAIN certificates \ {job.first} : certificates'[h] = certificates[h]
  BY <1>3
<1>7. JobsFormed'
  BY <1>1, <1>3, <1>4 DEF JobsFormed
<1>8. CertificatesFormed'
  BY <1>3, <1>5, <1>6 DEF CertificatesFormed, Usable
<1>9. LatestIsThere'
  BY <1>3, <1>4, <1>6 DEF LatestIsThere
<1>10. SettingsFormed'
  BY <1>3 DEF SettingsFormed
<1> QED BY <1>7, <1>8, <1>9, <1>10

LEMMA FailureIsFormed ==
    ASSUME CertificatesIInv, NEW i \in DOMAIN tlsJobs, JobFails(i)
    PROVE  CertificatesIInv'
<1> USE DEF CertificatesIInv
<1>1. i \in 1..Len(tlsJobs) /\ Len(tlsJobs) \in Nat
  BY DEF JobsFormed
<1>2. /\ tlsJobs[i].status = "queued" /\ Becomes(i, "failed")
      /\ UNCHANGED <<deployment, mailServer, outOfUse, tlsSettings, certificates, inventory, latest, saves>>
  BY DEF JobFails
<1>3. /\ Len(tlsJobs') = Len(tlsJobs) /\ tlsJobs' \in Seq(TlsJob)
      /\ \A k \in 1..Len(tlsJobs) : JobFormed(tlsJobs[k])'
      /\ \A k \in 1..Len(tlsJobs) \ {i} : tlsJobs'[k] = tlsJobs[k]
  BY <1>1, <1>2, StatusChanges
<1>4. latest # 0 => latest \in 1..Len(tlsJobs) \ {i}
  BY <1>1, <1>2 DEF JobsFormed, LatestIsThere
<1>5. LatestIsThere'
  <2>1. latest # 0 => tlsJobs'[latest] = tlsJobs[latest]
    BY <1>3, <1>4
  <2> QED BY <1>2, <2>1 DEF LatestIsThere
<1>6. JobsFormed'
  BY <1>1, <1>2, <1>3 DEF JobsFormed
<1>7. SettingsFormed' /\ CertificatesFormed'
  BY <1>2 DEF SettingsFormed, CertificatesFormed, Usable
<1> QED BY <1>5, <1>6, <1>7

\* What the inventory takes in was found.
LEMMA InventoryIsFormed ==
    ASSUME CertificatesIInv, SyncInventory, UNCHANGED <<certificates, outOfUse>>
    PROVE  /\ CertificatesFormed'
           /\ \A d \in Zones : inventory[d] \subseteq inventory'[d]
           /\ \A d \in Zones \ outOfUse : FindTLSInventoryCertificate(d) \subseteq inventory'[d]
<1> USE DEF CertificatesIInv
<1>1. \A d \in Zones : FindTLSInventoryCertificate(d) \subseteq Hosts \cup {CustomFile}
  BY FoundIsThere DEF CertificatesFormed
<1>2. inventory' = [d \in Zones |-> inventory[d] \cup
                        IF d \in outOfUse THEN {} ELSE FindTLSInventoryCertificate(d)]
  BY DEF SyncInventory
<1>3. inventory \in [Zones -> SUBSET (Hosts \cup {CustomFile})] /\ outOfUse \subseteq Zones
  BY DEF CertificatesFormed
<1> HIDE DEF CertificatesIInv
<1>4. inventory' \in [Zones -> SUBSET (Hosts \cup {CustomFile})]
  BY <1>1, <1>2, <1>3
<1>5. CertificatesFormed'
  BY <1>3, <1>4 DEF CertificatesIInv, CertificatesFormed, Usable
<1> QED BY <1>2, <1>5

LEMMA SuccessIsFormed ==
    ASSUME CertificatesIInv, NEW i \in DOMAIN tlsJobs, JobSucceeds(i)
    PROVE  CertificatesIInv'
<1> USE DEF CertificatesIInv
<1>1. i \in 1..Len(tlsJobs) /\ Len(tlsJobs) \in Nat
  BY DEF JobsFormed
<1>2. /\ tlsJobs[i].status \in {"issued", "queued"} /\ Becomes(i, "succeeded") /\ SyncInventory
      /\ UNCHANGED <<deployment, mailServer, outOfUse, tlsSettings, certificates, latest, saves>>
  BY DEF JobSucceeds
<1>3. /\ Len(tlsJobs') = Len(tlsJobs) /\ tlsJobs' \in Seq(TlsJob)
      /\ \A k \in 1..Len(tlsJobs) : JobFormed(tlsJobs[k])'
      /\ \A k \in 1..Len(tlsJobs) \ {i} : tlsJobs'[k] = tlsJobs[k]
      /\ tlsJobs'[i].status = "succeeded" /\ tlsJobs'[i].zone = tlsJobs[i].zone
      /\ tlsJobs'[i].first = tlsJobs[i].first /\ tlsJobs'[i].hostnames = tlsJobs[i].hostnames
      /\ tlsJobs'[i].given = tlsJobs[i].given /\ tlsJobs'[i].at = tlsJobs[i].at
  BY <1>1, <1>2, StatusChanges
<1>4. /\ CertificatesFormed'
      /\ \A d \in Zones : inventory[d] \subseteq inventory'[d]
      /\ \A d \in Zones \ outOfUse : FindTLSInventoryCertificate(d) \subseteq inventory'[d]
  BY <1>2, InventoryIsFormed
<1>5. JobsFormed' /\ SettingsFormed'
  BY <1>1, <1>2, <1>3 DEF JobsFormed, SettingsFormed
<1>6. ASSUME latest # 0 PROVE LatestIsThere'
  <2> DEFINE job == tlsJobs[latest]
             d == job.zone
  <2>1. latest \in 1..Len(tlsJobs)
    BY <1>6 DEF JobsFormed
  <2>2. job \in TlsJob /\ JobFormed(job) /\ d \in Zones
    BY <2>1, JobAt
  <2>3. /\ job.status \in {"issued", "succeeded"} /\ job.hostnames # {}
        /\ job.first \in DOMAIN certificates /\ certificates[job.first] = job.hostnames
        /\ job.status = "succeeded" /\ ~job.given /\ job.at = saves
             /\ tlsSettings[d].name = NoHost /\ tlsSettings[d].custom = "none"
             /\ d \notin outOfUse
           => job.first \in inventory[d]
    BY <1>6 DEF LatestIsThere
  <2>4. CASE latest # i
    <3>1. tlsJobs'[latest] = job
      BY <1>3, <2>1, <2>4
    <3>2. job.first \in inventory[d] => job.first \in inventory'[d]
      BY <1>4, <2>2
    <3> QED BY <1>2, <2>3, <3>1, <3>2 DEF LatestIsThere
  <2>5. CASE latest = i
    <3>1. /\ tlsJobs'[i].status = "succeeded" /\ tlsJobs'[i].zone = d
          /\ tlsJobs'[i].first = job.first /\ tlsJobs'[i].hostnames = job.hostnames
          /\ tlsJobs'[i].given = job.given /\ tlsJobs'[i].at = job.at
      BY <1>3, <2>5
    <3>2. ASSUME ~job.given, job.at = saves, tlsSettings[d].name = NoHost,
                 tlsSettings[d].custom = "none", d \notin outOfUse
          PROVE  job.first \in inventory'[d]
      <4>1. /\ job.hostnames = DesiredTLSHostnames(d)
            /\ job.first = FirstOf(ServiceOrder(d), DesiredTLSHostnames(d))
        BY <2>2, <3>2 DEF JobFormed
      <4>2. /\ DesiredTLSHostnames(d) # {} /\ \A h \in DOMAIN certificates : Usable(h)
            /\ FirstOf(ServiceOrder(d), DesiredTLSHostnames(d)) \in DOMAIN certificates
        BY <2>3, <4>1 DEF CertificatesFormed
      <4>3. FindTLSInventoryCertificate(d) = {FirstOf(ServiceOrder(d), DesiredTLSHostnames(d))}
        BY <2>2, <3>2, <4>2, FirstNameIsFound
      <4> QED BY <1>4, <2>2, <3>2, <4>1, <4>3
    <3> HIDE DEF job, d
    <3> QED BY <1>2, <2>3, <2>5, <3>1, <3>2 DEF LatestIsThere
  <2> QED BY <2>4, <2>5
<1>7. LatestIsThere'
  BY <1>2, <1>6 DEF LatestIsThere
<1> QED BY <1>4, <1>5, <1>7

LEMMA SyncIsFormed ==
    ASSUME CertificatesIInv, RunSyncTLSInventory
    PROVE  CertificatesIInv'
<1> USE DEF CertificatesIInv
<1>1. SyncInventory
      /\ UNCHANGED <<deployment, mailServer, outOfUse, tlsSettings, certificates, tlsJobs, latest, saves>>
  BY DEF RunSyncTLSInventory
<1>2. /\ CertificatesFormed'
      /\ \A d \in Zones : inventory[d] \subseteq inventory'[d]
  BY <1>1, InventoryIsFormed
<1>3. JobsFormed' /\ SettingsFormed'
  BY <1>1 DEF JobsFormed, SettingsFormed, JobFormed, Usable, DesiredTLSHostnames
<1>4. LatestIsThere'
  <2>1. latest # 0 => tlsJobs[latest].zone \in Zones
    <3>1. latest # 0 => latest \in 1..Len(tlsJobs)
      BY DEF JobsFormed
    <3> QED BY <3>1, JobAt
  <2>2. latest # 0 => inventory[tlsJobs[latest].zone] \subseteq inventory'[tlsJobs[latest].zone]
    BY <1>2, <2>1
  <2> QED BY <1>1, <2>2 DEF LatestIsThere
<1> QED BY <1>2, <1>3, <1>4

LEMMA CertificatesStep ==
    ASSUME CertificatesIInv, [HostNamesNext]_hostNamesVars
    PROVE  CertificatesIInv'
<1>1. SettingsFormed'
  BY HostNamesNextFormed DEF CertificatesIInv
<1>2. ASSUME NEW form \in MailForms, SaveMailServer(form) PROVE CertificatesIInv'
  BY <1>1, <1>2, SavesAreLater DEF SaveMailServer, CertificatesIInv, CertificatesFormed
<1>3. ASSUME NEW d \in Zones, NEW form \in TlsForms, UpdateDomainTLSSettings(d, form)
      PROVE  CertificatesIInv'
  BY <1>1, <1>3, SavesAreLater DEF UpdateDomainTLSSettings, CertificatesIInv, CertificatesFormed
<1>4. ASSUME NEW d \in Zones, NEW type \in {"issue", "check"}, NEW asked \in JobForms,
             CreateTLSCertificateJob(d, type, asked)
      PROVE  CertificatesIInv'
  BY <1>4, JobIsFormed
<1>5. ASSUME NEW i \in DOMAIN tlsJobs, RunCertbot(i) \/ JobFails(i) \/ JobSucceeds(i)
      PROVE  CertificatesIInv'
  BY <1>5, CertbotIsFormed, FailureIsFormed, SuccessIsFormed
<1>6. CASE RunSyncTLSInventory
  BY <1>6, SyncIsFormed
<1>7. ASSUME NEW d \in Zones, ChangeStatus(d) PROVE CertificatesIInv'
  <2>1. outOfUse' \subseteq Zones
    BY <1>7 DEF ChangeStatus, CertificatesIInv, CertificatesFormed
  <2> QED BY <1>1, <1>7, <2>1, SavesAreLater DEF ChangeStatus, CertificatesIInv
<1>8. CASE UNCHANGED hostNamesVars
  BY <1>1, <1>8 DEF hostNamesVars, CertificatesIInv, JobsFormed, JobFormed, CertificatesFormed,
                    LatestIsThere, Usable, DesiredTLSHostnames
<1> QED BY <1>2, <1>3, <1>4, <1>5, <1>6, <1>7, <1>8 DEF HostNamesNext

LEMMA CertificatesTyped ==
    ASSUME CertificatesIInv
    PROVE  HostNamesTypeOK
BY DEF CertificatesIInv, SettingsFormed, JobsFormed, CertificatesFormed, HostNamesTypeOK

LEMMA LatestFits ==
    ASSUME CertificatesIInv
    PROVE  CertificatesFit
<1> USE DEF CertificatesIInv
<1>1. \A h \in DOMAIN certificates : Usable(h)
  BY DEF CertificatesFormed
<1>2. \A d \in Zones : GetDomainTLS(d) = FindTLSInventoryCertificate(d)
  BY <1>1, CandidatesAgree
<1> DEFINE job == tlsJobs[latest]
           d == job.zone
           form == tlsSettings[d]
<1>3. ASSUME latest # 0, job.status = "succeeded", ~job.given, job.at = saves,
             form.name = NoHost, form.custom = "none", d \notin outOfUse
      PROVE  /\ \E h \in GetDomainTLS(d) :
                   h \in inventory[d] /\ DesiredTLSHostnames(d) \subseteq certificates[h]
             /\ "mail" \in form.include /\ mailServer.sni =>
                   <<"mail", d>> \in SNIHosts \cup {EffectiveHostname}
  <2>1. latest \in 1..Len(tlsJobs)
    BY <1>3 DEF JobsFormed
  <2>2. JobFormed(job) /\ d \in Zones
    BY <2>1, JobAt
  <2>3. /\ job.hostnames # {} /\ job.first \in DOMAIN certificates
        /\ certificates[job.first] = job.hostnames /\ job.first \in inventory[d]
    BY <1>3 DEF LatestIsThere
  <2>4. /\ job.hostnames = DesiredTLSHostnames(d)
        /\ job.first = FirstOf(ServiceOrder(d), DesiredTLSHostnames(d))
    BY <1>3, <2>2 DEF JobFormed
  <2>5. /\ FindTLSInventoryCertificate(d) = {job.first}
        /\ "mail" \in form.include => job.first = <<"mail", d>>
    <3>1. /\ DesiredTLSHostnames(d) # {}
          /\ FirstOf(ServiceOrder(d), DesiredTLSHostnames(d)) \in DOMAIN certificates
      BY <2>3, <2>4
    <3> QED BY <1>1, <1>3, <2>2, <2>4, <3>1, FirstNameIsFound
  <2>6. \E h \in GetDomainTLS(d) :
           h \in inventory[d] /\ DesiredTLSHostnames(d) \subseteq certificates[h]
    BY <1>2, <2>2, <2>3, <2>4, <2>5
  <2>7. "mail" \in form.include /\ mailServer.sni =>
           <<"mail", d>> \in SNIHosts \cup {EffectiveHostname}
    BY <1>3, <2>2, <2>3, <2>5 DEF SNIHosts
  <2> QED BY <2>6, <2>7
<1> QED BY <1>2, <1>3 DEF CertificatesFit

\* The pages, jobs, directories and inventory hold what their tables can hold.
THEOREM HostNamesTypes == HostNamesSpec => []HostNamesTypeOK
<1> QED BY CertificatesInit, CertificatesStep, CertificatesTyped, PTL DEF HostNamesSpec

\* The page and mailctl find the same certificate; and after a job that took its
\* names from the settings, as long as they and the domain's status are not changed
\* and certbot is not called again, it is the certificate for all names that are
\* wanted, in the inventory and, for the mail host, in the tables of the mail
\* servers, if the domain is in use.
THEOREM CertificatesAreFit == HostNamesSpec => []CertificatesFit
<1> QED BY CertificatesInit, CertificatesStep, LatestFits, PTL DEF HostNamesSpec

-----------------------------------------------------------------------------
(* Retention: the calendar.                                                *)

\* The day of a time.
LEMMA Products ==
    ASSUME NEW a \in Int, NEW b \in Int, NEW k \in Nat, a + 1 <= b
    PROVE  k * a + k <= k * b
<1>1. b - a - 1 \in Nat
  OBVIOUS
<1>2. k * (b - a - 1) >= 0
  BY <1>1
<1> QED BY <1>2

LEMMA DayOfTime ==
    ASSUME NEW t \in Nat
    PROVE  Day(t) \in Nat /\ Slots * Day(t) <= t /\ t < Slots * Day(t) + Slots
<1>1. Slots \in Nat /\ Slots > 0
  BY RetentionAssumptions
<1> QED BY <1>1 DEF Day

LEMMA DayIs ==
    ASSUME NEW d \in Nat, NEW t \in Nat, Slots * d <= t, t < Slots * d + Slots
    PROVE  Day(t) = d
<1>1. Slots \in Nat /\ Slots * Day(t) \in Int /\ Slots * d \in Int
  BY RetentionAssumptions, DayOfTime
<1>2. Day(t) \in Nat /\ Slots * Day(t) <= t /\ t < Slots * Day(t) + Slots
  BY DayOfTime
<1>3. ASSUME Day(t) + 1 <= d PROVE FALSE
  BY <1>1, <1>2, <1>3, Products
<1>4. ASSUME d + 1 <= Day(t) PROVE FALSE
  BY <1>1, <1>2, <1>4, Products
<1> QED BY <1>2, <1>3, <1>4

LEMMA DayGrows ==
    ASSUME NEW s \in Nat, NEW t \in Nat, s <= t
    PROVE  Day(s) <= Day(t)
<1>1. Slots \in Nat /\ Day(t) \in Nat /\ Day(s) \in Nat
  BY RetentionAssumptions, DayOfTime
<1>2. /\ Day(t) \in Nat /\ t < Slots * Day(t) + Slots
      /\ Day(s) \in Nat /\ Slots * Day(s) <= s
  BY DayOfTime
<1>3. ASSUME Day(t) + 1 <= Day(s) PROVE FALSE
  <2>1. Slots * Day(t) + Slots <= Slots * Day(s)
    BY <1>1, <1>3, Products
  <2>2. Slots * Day(t) \in Int /\ Slots * Day(s) \in Int
    BY <1>1
  <2> QED BY <1>1, <1>2, <2>1, <2>2
<1> QED BY <1>2, <1>3

LEMMA WeekGrows ==
    ASSUME NEW s \in Nat, NEW t \in Nat, s <= t
    PROVE  /\ Week(s) \in Nat /\ Week(t) \in Nat /\ Week(s) <= Week(t)
           /\ Week(s) # Week(t) => Day(s) # Day(t)
<1>1. WeekShift \in Nat
  BY RetentionAssumptions
<1>2. Day(s) \in Nat /\ Day(t) \in Nat /\ Day(s) <= Day(t)
  BY DayOfTime, DayGrows
<1> QED BY <1>1, <1>2 DEF Week

\* A month begins on a day.
LEMMA MonthStartsOnDay ==
    ASSUME NEW m \in 1..Len(MonthStarts)
    PROVE  MonthStarts[m] \in Nat
<1>1. MonthStarts \in Seq(Nat)
  BY RetentionAssumptions
<1> QED BY <1>1

\* The month of a day is the last one that began by then.
LEMMA MonthIsLast ==
    ASSUME NEW d \in Nat
    PROVE  /\ MonthOfDay(d) \in 1..Len(MonthStarts) /\ MonthStarts[MonthOfDay(d)] <= d
           /\ \A m \in 1..Len(MonthStarts) : MonthStarts[m] <= d => m <= MonthOfDay(d)
<1> DEFINE T == {m \in DOMAIN MonthStarts : MonthStarts[m] <= d}
<1>1. /\ Len(MonthStarts) \in Nat /\ Len(MonthStarts) > 0
      /\ DOMAIN MonthStarts = 1..Len(MonthStarts) /\ MonthStarts[1] = 0
  BY RetentionAssumptions
<1>2. 1 \in T /\ T \subseteq 0..Len(MonthStarts)
  BY <1>1
<1>3. MonthOfDay(d) = Max(T)
  BY DEF MonthOfDay
<1>4. Max(T) \in T /\ \A y \in T : y <= Max(T)
  <2> HIDE DEF T
  <2> QED BY <1>1, <1>2, MaxOfNumbers
<1> QED BY <1>1, <1>3, <1>4

LEMMA MonthGrows ==
    ASSUME NEW s \in Nat, NEW t \in Nat, s <= t
    PROVE  Month(s) \in Nat /\ Month(t) \in Nat /\ Month(s) <= Month(t)
<1>1. Day(s) \in Nat /\ Day(t) \in Nat /\ Day(s) <= Day(t)
  BY DayOfTime, DayGrows
<1>2. /\ Month(s) \in 1..Len(MonthStarts) /\ MonthStarts[Month(s)] <= Day(s)
      /\ Month(t) \in 1..Len(MonthStarts)
      /\ \A m \in 1..Len(MonthStarts) : MonthStarts[m] <= Day(t) => m <= Month(t)
  BY <1>1, MonthIsLast DEF Month
<1>3. MonthStarts[Month(s)] \in Nat
  BY <1>2, MonthStartsOnDay
<1>4. MonthStarts[Month(s)] <= Day(t)
  BY <1>1, <1>2, <1>3
<1> QED BY <1>2, <1>4

\* Months begin one after the other.
LEMMA StartsGrow ==
    ASSUME NEW i \in 1..Len(MonthStarts), NEW j \in 1..Len(MonthStarts), i <= j
    PROVE  MonthStarts[i] <= MonthStarts[j]
<1> DEFINE T == {k \in i..Len(MonthStarts) : MonthStarts[i] > MonthStarts[k]}
<1>1. /\ Len(MonthStarts) \in Nat
      /\ \A m \in 1..Len(MonthStarts) : MonthStarts[m] \in Nat
      /\ \A m \in 1..(Len(MonthStarts) - 1) : MonthStarts[m + 1] - MonthStarts[m] \in 28..31
  BY RetentionAssumptions
<1>2. ASSUME T # {} PROVE FALSE
  <2>1. T \subseteq Nat
    BY <1>1
  <2>2. PICK k \in T : \A y \in T : k <= y
    <3> HIDE DEF T
    <3> QED BY <2>1, <1>2, LeastNumber
  <2>3. k \in i..Len(MonthStarts) /\ MonthStarts[i] > MonthStarts[k] /\ k # i
    BY <1>1
  <2>4. k - 1 \in i..Len(MonthStarts) /\ k - 1 \notin T /\ k - 1 \in 1..(Len(MonthStarts) - 1)
    BY <1>1, <2>2, <2>3
  <2>5. MonthStarts[i] <= MonthStarts[k - 1]
    BY <1>1, <2>4
  <2>6. MonthStarts[(k - 1) + 1] - MonthStarts[k - 1] \in 28..31 /\ (k - 1) + 1 = k
    BY <1>1, <2>3, <2>4
  <2> QED BY <1>1, <2>3, <2>4, <2>5, <2>6
<1>3. j \notin T
  BY <1>2
<1> QED BY <1>1, <1>3

\* What lies before the cutoff of the months is as old as the policy asks, but
\* for one month.
LEMMA CutoffIsOld ==
    ASSUME NEW t \in Nat, NEW time \in Nat, Day(time) \in RunDays, Monthly > 0,
           Month(t) < MonthlyCutoff(time)
    PROVE  \/ Month(time) - Month(t) >= Monthly
           \/ Month(time) - Month(t) = Monthly - 1 /\ CutoffIsLate(time)
<1> DEFINE M == Month(time)
           m == M - Monthly + 1
           L == Len(MonthStarts)
           S == MonthStarts
           off == Day(time) - S[M]
<1>1. /\ L \in Nat /\ L > 0 /\ Monthly \in Nat
      /\ \A i \in 1..L : S[i] \in Nat
      /\ \A i \in 1..(L - 1) : S[i + 1] - S[i] \in 28..31
      /\ Day(time) < S[L] + 31
  <2>1. S \in Seq(Nat) /\ S # << >> /\ Monthly \in Nat
    BY RetentionAssumptions
  <2>2. L \in Nat /\ L > 0 /\ \A i \in 1..L : S[i] \in Nat
    BY <2>1
  <2>3. Day(time) < S[L] + 31
    BY RetentionAssumptions
  <2>4. \A i \in 1..(L - 1) : S[i + 1] - S[i] \in 28..31
    BY RetentionAssumptions
  <2> QED BY <2>1, <2>2, <2>3, <2>4
<1>2. /\ Day(time) \in Nat /\ M \in 1..L /\ S[M] <= Day(time)
      /\ \A i \in 1..L : S[i] <= Day(time) => i <= M
  BY DayOfTime, MonthIsLast DEF Month
<1>3. Month(t) \in 1..L
  BY DayOfTime, MonthIsLast DEF Month
<1> HIDE DEF M, L, S
<1>4. off \in 0..30
  <2>1. CASE M = L
    BY <1>1, <1>2, <2>1
  <2>2. CASE M # L
    <3>1. M \in 1..(L - 1) /\ M + 1 \in 1..L
      BY <1>1, <1>2, <2>2
    <3>2. S[M + 1] > Day(time)
      <4>1. ~(M + 1 <= M)
        BY <1>1, <1>2
      <4> QED BY <1>1, <1>2, <3>1, <4>1
    <3>3. S[M + 1] - S[M] \in 28..31 /\ S[M] \in Nat /\ S[M + 1] \in Nat
      BY <1>1, <1>2, <3>1
    <3> QED BY <1>2, <3>2, <3>3
  <2> QED BY <2>1, <2>2
<1>5. CASE m < 1
  BY <1>1, <1>2, <1>3, <1>5 DEF MonthlyCutoff, M
<1>6. CASE m >= 1
  <2> DEFINE x == S[m] + off
             c == MonthOfDay(x)
  <2>1. m \in 1..L /\ S[m] \in Nat /\ x \in Nat
    BY <1>1, <1>2, <1>4, <1>6
  <2>2. c \in 1..L /\ S[c] <= x
    BY <2>1, MonthIsLast DEF L, S
  <2>3. MonthlyCutoff(time) = c
    <3>1. MonthlyCutoff(time) = MonthOfDay(S[m] + Day(time) - S[M])
      BY <1>6, <1>1, <1>2 DEF MonthlyCutoff, M, S
    <3>2. S[m] + Day(time) - S[M] = x
      BY <2>1, <1>1, <1>2
    <3> QED BY <3>1, <3>2
  <2> HIDE DEF c
  <2>4. c <= m + 1
    <3>1. SUFFICES ASSUME c >= m + 2 PROVE FALSE
      BY <1>1, <1>2, <2>2
    <3>2. m + 1 \in 1..L /\ m + 2 \in 1..L /\ m + 1 \in 1..(L - 1) /\ m \in 1..(L - 1)
      BY <1>1, <1>2, <2>1, <2>2, <3>1
    <3>3. S[m + 2] <= S[c]
      BY <1>1, <2>2, <3>1, <3>2, StartsGrow DEF S, L
    <3>4. S[m + 1] - S[m] >= 28 /\ S[(m + 1) + 1] - S[m + 1] >= 28 /\ (m + 1) + 1 = m + 2
      BY <1>1, <1>2, <3>2
    <3>5. S[m + 2] \in Nat /\ S[m + 1] \in Nat /\ S[m] \in Nat /\ S[c] \in Nat
      BY <1>1, <2>2, <3>2, <2>1
    <3> QED BY <1>4, <2>1, <2>2, <3>3, <3>4, <3>5
  <2>5. CutoffIsLate(time) <=> c > m
    BY <2>3 DEF CutoffIsLate, M
  <2>6. M \in Int /\ Month(t) \in Int /\ Month(t) < c /\ c \in Int /\ Monthly \in Int
    BY <1>1, <1>2, <1>3, <2>2, <2>3
  <2>7. M - Month(t) >= Monthly \/ (M - Month(t) = Monthly - 1 /\ c > m)
    BY <2>4, <2>6
  <2> QED BY <2>5, <2>7 DEF M
<1>7. m < 1 \/ m >= 1
  BY <1>1, <1>2
<1> HIDE DEF m
<1> QED BY <1>5, <1>6, <1>7

\* A day of a late cutoff is followed by such days only, in its month.
LEMMA CutoffStaysLate ==
    ASSUME NEW time \in Nat, NEW later \in Nat, time <= later, Month(later) = Month(time),
           Monthly \in 1..Month(time), CutoffIsLate(time)
    PROVE  CutoffIsLate(later)
<1> DEFINE M == Month(time)
           m == M - Monthly + 1
           x == MonthStarts[m] + Day(time) - MonthStarts[M]
           y == MonthStarts[m] + Day(later) - MonthStarts[M]
<1>1. Day(time) \in Nat /\ Day(later) \in Nat /\ Day(time) <= Day(later)
  BY DayOfTime, DayGrows
<1>2. M \in 1..Len(MonthStarts) /\ MonthStarts[M] <= Day(time)
  BY <1>1, MonthIsLast DEF Month
<1>3. Len(MonthStarts) \in Nat
  BY RetentionAssumptions
<1>4. m \in 1..Len(MonthStarts) /\ ~ (m < 1)
  BY <1>2, <1>3
<1>5. MonthlyCutoff(time) = MonthOfDay(x) /\ MonthlyCutoff(later) = MonthOfDay(y)
  BY <1>4 DEF MonthlyCutoff
<1>6. CutoffIsLate(time) <=> MonthlyCutoff(time) > m
  BY DEF CutoffIsLate
<1>7. CutoffIsLate(later) <=> MonthlyCutoff(later) > m
  BY DEF CutoffIsLate
<1> HIDE DEF m, M
<1>8. MonthStarts[m] \in Nat /\ MonthStarts[M] \in Nat
  BY <1>2, <1>4, MonthStartsOnDay
<1>9. x \in Nat /\ y \in Nat /\ x <= y
  BY <1>1, <1>2, <1>8
<1> HIDE DEF x, y
<1>10. /\ MonthOfDay(x) \in 1..Len(MonthStarts) /\ MonthStarts[MonthOfDay(x)] <= x
       /\ MonthOfDay(y) \in 1..Len(MonthStarts)
       /\ \A i \in 1..Len(MonthStarts) : MonthStarts[i] <= y => i <= MonthOfDay(y)
  BY <1>9, MonthIsLast
<1>11. MonthStarts[MonthOfDay(x)] \in Nat
  BY <1>10, MonthStartsOnDay
<1>12. MonthOfDay(x) <= MonthOfDay(y)
  BY <1>9, <1>10, <1>11
<1> QED BY <1>3, <1>4, <1>5, <1>6, <1>7, <1>10, <1>12

-----------------------------------------------------------------------------
(* Retention: which archives are kept.                                     *)

\* The periods after that of t that the archives in A fall into.
PeriodsAfter(t, A, period) == {period[s] : s \in {u \in A : period[u] > period[t]}}

\* There are no more of them than there are periods until the newest one.
LEMMA PeriodsAreFew ==
    ASSUME NEW A, NEW top \in Nat, NEW period \in [A -> 0..top], NEW t \in A
    PROVE  /\ IsFiniteSet(PeriodsAfter(t, A, period))
           /\ Cardinality(PeriodsAfter(t, A, period)) \in Nat
           /\ Cardinality(PeriodsAfter(t, A, period)) <= top - period[t]
<1> DEFINE P == PeriodsAfter(t, A, period)
           low == period[t]
<1>1. low \in 0..top
  OBVIOUS
<1>2. P \in SUBSET ((low + 1)..top)
  BY <1>1 DEF PeriodsAfter
<1> HIDE DEF P, low
<1>3. /\ IsFiniteSet((low + 1)..top)
      /\ Cardinality((low + 1)..top) = IF low + 1 > top THEN 0 ELSE top - (low + 1) + 1
  <2>1. low + 1 \in Int /\ top \in Int
    BY <1>1
  <2> QED BY <2>1, FS_Interval
<1>4. IsFiniteSet(P) /\ Cardinality(P) <= Cardinality((low + 1)..top)
  BY <1>2, <1>3, FS_Subset
<1>5. Cardinality(P) \in Nat
  BY <1>4, FS_CardinalityType
<1>6. Cardinality((low + 1)..top) = top - low
  BY <1>1, <1>3
<1> QED BY <1>1, <1>4, <1>5, <1>6 DEF P, low

\* A rule that looks at an archive and does not keep it has a newer one of the
\* same period, or as many newer periods as it asks for.
LEMMA NotKept ==
    ASSUME NEW A, A \subseteq Nat, NEW admitted, admitted \subseteq A,
           NEW top \in Nat, NEW period \in [A -> 0..top],
           \A s, u \in A : s <= u => period[s] <= period[u],
           NEW count \in Nat, NEW t \in admitted, t \notin Rule(admitted, count, period)
    PROVE  \/ \E s \in A : s > t /\ period[s] = period[t]
           \/ Cardinality(PeriodsAfter(t, A, period)) >= count
<1> DEFINE E == {s \in admitted : Before(s, t)}
           P == {period[s] : s \in E}
           Q == PeriodsAfter(t, A, period)
<1>1. SUFFICES ASSUME \A s \in A : ~ (s > t /\ period[s] = period[t])
               PROVE  Cardinality(Q) >= count
  OBVIOUS
<1>2. \A s \in E : s \in A /\ s > t
  BY DEF Before
<1>3. t \in A /\ \A s \in E : period[s] # period[t]
  BY <1>1, <1>2
<1>4. ~ (Cardinality(P) < count)
  BY <1>3 DEF Rule
<1>5. P \in SUBSET Q
  <2> SUFFICES ASSUME NEW s \in E PROVE period[s] \in Q
    OBVIOUS
  <2>1. s \in A /\ t \in A /\ s >= t /\ s \in Nat /\ t \in Nat
    BY <1>2
  <2>2. period[s] \in 0..top /\ period[t] \in 0..top /\ period[t] <= period[s]
    BY <2>1
  <2>3. period[s] > period[t]
    BY <2>2, <1>3
  <2> QED BY <2>1, <2>3 DEF PeriodsAfter
<1> HIDE DEF P, Q, E
<1>6. IsFiniteSet(Q) /\ Cardinality(Q) \in Nat
  BY <1>3, PeriodsAreFew DEF Q
<1>7. Cardinality(P) \in Nat /\ Cardinality(P) <= Cardinality(Q)
  <2>1. IsFiniteSet(P) /\ Cardinality(P) <= Cardinality(Q)
    BY <1>5, <1>6, FS_Subset
  <2> QED BY <2>1, FS_CardinalityType
<1> QED BY <1>4, <1>6, <1>7

\* What a prune removes is not missed in the directory it listed.
LEMMA ExpiredIsNotMissed ==
    ASSUME NEW time \in Nat, Day(time) \in RunDays,
           NEW A, A \subseteq 0..time, NEW t \in Expired(A, time)
    PROVE  t \in A /\ NotMissed(t, A, time)
<1> DEFINE days == [s \in A |-> Day(s)]
           weeks == [s \in A |-> Week(s)]
           months == [s \in A |-> Month(s)]
           D == {s \in A : Day(s) >= Day(time) - Daily + 1}
           W == {s \in A : Day(s) >= Day(time) - 7 * Weekly + 1}
           M == {s \in A : Month(s) >= MonthlyCutoff(time)}
<1>1. Daily \in Nat /\ Weekly \in Nat /\ Monthly \in Nat
  BY RetentionAssumptions
<1>2. /\ t \in A /\ t \notin Rule(D, Daily, days) /\ t \notin Rule(W, Weekly, weeks)
      /\ t \notin Rule(M, Monthly, months)
  BY DEF Expired, SelectBackupsToKeep
<1>3. A \subseteq Nat /\ \A s \in A : s <= time
  OBVIOUS
<1>4. \A s \in A : /\ Day(s) \in 0..Day(time) /\ Week(s) \in 0..Week(time)
                   /\ Month(s) \in 0..Month(time)
  <2> TAKE s \in A
  <2>1. s \in Nat /\ s <= time
    BY <1>3
  <2> QED BY <2>1, DayOfTime, DayGrows, WeekGrows, MonthGrows
<1>5. /\ days \in [A -> 0..Day(time)] /\ weeks \in [A -> 0..Week(time)]
      /\ months \in [A -> 0..Month(time)]
  BY <1>4
<1>6. /\ \A s, u \in A : s <= u => days[s] <= days[u]
      /\ \A s, u \in A : s <= u => weeks[s] <= weeks[u]
      /\ \A s, u \in A : s <= u => months[s] <= months[u]
  BY <1>3, DayGrows, WeekGrows, MonthGrows
<1>7. Day(time) \in Nat /\ Week(time) \in Nat /\ Month(time) \in Nat
  BY DayOfTime, WeekGrows, MonthGrows
<1>8. D \subseteq A /\ W \subseteq A /\ M \subseteq A
  OBVIOUS
<1>9. days[t] = Day(t) /\ weeks[t] = Week(t) /\ months[t] = Month(t)
  BY <1>2
<1>10. (\E s \in A : s > t /\ Day(s) = Day(t)) \/ Day(time) - Day(t) >= Daily
  <2>1. CASE t \in D
    <3>1. \/ \E s \in A : s > t /\ days[s] = days[t]
          \/ Cardinality(PeriodsAfter(t, A, days)) >= Daily
      <4> HIDE DEF D, days
      <4> QED BY <1>1, <1>2, <1>3, <1>5, <1>6, <1>7, <1>8, <2>1, NotKept
    <3>2. /\ Cardinality(PeriodsAfter(t, A, days)) \in Nat
          /\ Cardinality(PeriodsAfter(t, A, days)) <= Day(time) - days[t]
      <4> HIDE DEF days
      <4> QED BY <1>2, <1>5, <1>7, PeriodsAreFew
    <3> HIDE DEF D
    <3> QED BY <1>1, <1>2, <1>4, <1>7, <3>1, <3>2
  <2>2. CASE t \notin D
    BY <1>1, <1>2, <1>4, <1>7, <2>2
  <2> QED BY <2>1, <2>2
<1>11. \/ \E s \in A : s > t /\ Week(s) = Week(t)
       \/ Day(time) - Day(t) >= 7 * Weekly
       \/ Cardinality({Week(s) : s \in {u \in A : Week(u) > Week(t)}}) >= Weekly
  <2>1. CASE t \in W
    <3>1. \/ \E s \in A : s > t /\ weeks[s] = weeks[t]
          \/ Cardinality(PeriodsAfter(t, A, weeks)) >= Weekly
      <4> HIDE DEF W, weeks
      <4> QED BY <1>1, <1>2, <1>3, <1>5, <1>6, <1>7, <1>8, <2>1, NotKept
    <3>2. PeriodsAfter(t, A, weeks) = {Week(s) : s \in {u \in A : Week(u) > Week(t)}}
      BY <1>2 DEF PeriodsAfter
    <3> HIDE DEF W
    <3> QED BY <1>2, <3>1, <3>2
  <2>2. CASE t \notin W
    BY <1>1, <1>2, <1>4, <1>7, <2>2
  <2> QED BY <2>1, <2>2
<1>12. \/ \E s \in A : s > t /\ Month(s) = Month(t)
       \/ Month(time) - Month(t) >= Monthly
       \/ Month(time) - Month(t) = Monthly - 1 /\ CutoffIsLate(time)
  <2>1. CASE t \in M
    <3>1. \/ \E s \in A : s > t /\ months[s] = months[t]
          \/ Cardinality(PeriodsAfter(t, A, months)) >= Monthly
      <4> HIDE DEF M, months
      <4> QED BY <1>1, <1>2, <1>3, <1>5, <1>6, <1>7, <1>8, <2>1, NotKept
    <3>2. /\ Cardinality(PeriodsAfter(t, A, months)) \in Nat
          /\ Cardinality(PeriodsAfter(t, A, months)) <= Month(time) - months[t]
      <4> HIDE DEF months
      <4> QED BY <1>2, <1>5, <1>7, PeriodsAreFew
    <3> HIDE DEF M
    <3> QED BY <1>1, <1>2, <1>4, <1>7, <3>1, <3>2
  <2>2. CASE t \notin M /\ Monthly = 0
    BY <1>2, <1>4, <1>7, <2>2
  <2>3. CASE t \notin M /\ Monthly > 0
    <3>1. MonthlyCutoff(time) \in Int
      <4>1. Month(time) \in 1..Len(MonthStarts) /\ MonthStarts[Month(time)] <= Day(time)
        BY <1>7, MonthIsLast DEF Month
      <4>2. CASE Month(time) - Monthly + 1 < 1
        BY <4>2 DEF MonthlyCutoff
      <4>3. CASE ~ (Month(time) - Monthly + 1 < 1)
        <5> DEFINE m == Month(time) - Monthly + 1
                   x == MonthStarts[m] + Day(time) - MonthStarts[Month(time)]
        <5>1. m \in 1..Len(MonthStarts)
          BY <1>1, <1>7, <2>3, <4>1, <4>3
        <5>2. MonthStarts[m] \in Nat /\ MonthStarts[Month(time)] \in Nat
          <6> HIDE DEF m
          <6> QED BY <4>1, <5>1, MonthStartsOnDay
        <5>3. x \in Nat
          BY <5>2, <4>1, <1>7
        <5>4. MonthlyCutoff(time) = MonthOfDay(x)
          BY <4>3 DEF MonthlyCutoff
        <5> HIDE DEF x
        <5>5. MonthOfDay(x) \in 1..Len(MonthStarts)
          BY <5>3, MonthIsLast
        <5> QED BY <5>4, <5>5, RetentionAssumptions
      <4> QED BY <4>2, <4>3
    <3>2. Month(t) < MonthlyCutoff(time)
      BY <1>2, <1>4, <1>7, <2>3, <3>1
    <3> QED BY <1>2, <1>3, <2>3, <3>2, CutoffIsOld
  <2>4. Monthly = 0 \/ Monthly > 0
    BY <1>1
  <2> QED BY <2>1, <2>2, <2>3, <2>4
<1> QED BY <1>2, <1>10, <1>11, <1>12 DEF NotMissed

\* What is not missed is not missed later, beside more archives.
LEMMA NotMissedLater ==
    ASSUME NEW A, NEW B, A \subseteq B, NEW time \in Nat, NEW later \in Nat, time <= later,
           B \subseteq 0..later, NEW t \in 0..time, NotMissed(t, A, time)
    PROVE  NotMissed(t, B, later)
<1> DEFINE WA == {Week(s) : s \in {u \in A : Week(u) > Week(t)}}
           WB == {Week(s) : s \in {u \in B : Week(u) > Week(t)}}
<1>1. /\ Day(time) \in Nat /\ Day(later) \in Nat /\ Day(time) <= Day(later) /\ Day(t) \in Nat
      /\ Month(time) \in Nat /\ Month(later) \in Nat /\ Month(time) <= Month(later)
      /\ Month(t) \in Nat /\ t \in Nat
  <2>1. t \in Nat
    OBVIOUS
  <2> QED BY <2>1, DayOfTime, DayGrows, MonthGrows
<1>2. Daily \in Nat /\ Weekly \in Nat /\ Monthly \in Nat
  BY RetentionAssumptions
<1>3. WA \in SUBSET WB
  OBVIOUS
<1>4. IsFiniteSet(WB)
  <2>1. \A s \in B : Week(s) \in 0..Week(later)
    <3> TAKE s \in B
    <3>1. s \in Nat /\ s <= later
      OBVIOUS
    <3> QED BY <3>1, WeekGrows
  <2>2. WB \in SUBSET (0..Week(later)) /\ Week(later) \in Nat
    BY <2>1, WeekGrows
  <2> HIDE DEF WB
  <2>3. IsFiniteSet(0..Week(later))
    BY <2>2, FS_Interval
  <2> QED BY <2>2, <2>3, FS_Subset
<1>5. Cardinality(WA) \in Nat /\ Cardinality(WB) \in Nat /\ Cardinality(WA) <= Cardinality(WB)
  <2> HIDE DEF WA, WB
  <2>1. IsFiniteSet(WA) /\ Cardinality(WA) <= Cardinality(WB)
    BY <1>3, <1>4, FS_Subset
  <2> QED BY <2>1, <1>4, FS_CardinalityType
<1>6. (\E s \in B : s > t /\ Day(s) = Day(t)) \/ Day(later) - Day(t) >= Daily
  BY <1>1, <1>2 DEF NotMissed
<1>7. \/ \E s \in B : s > t /\ Month(s) = Month(t)
      \/ Month(later) - Month(t) >= Monthly
      \/ Month(later) - Month(t) = Monthly - 1 /\ CutoffIsLate(later)
  <2>1. \/ \E s \in A : s > t /\ Month(s) = Month(t)
        \/ Month(time) - Month(t) >= Monthly
        \/ Month(time) - Month(t) = Monthly - 1 /\ CutoffIsLate(time)
    BY DEF NotMissed
  <2>2. CASE Month(time) - Month(t) = Monthly - 1 /\ CutoffIsLate(time)
    <3>1. CASE Month(later) = Month(time)
      <4>1. Month(t) >= 1
        BY <1>1, DayOfTime, MonthIsLast DEF Month
      <4>2. Month(t) <= Month(time)
        BY <1>1, MonthGrows
      <4>3. Monthly \in 1..Month(time)
        BY <1>1, <1>2, <2>2, <4>1, <4>2
      <4> QED BY <2>2, <3>1, <4>3, CutoffStaysLate
    <3>2. CASE Month(later) # Month(time)
      BY <1>1, <1>2, <2>2, <3>2
    <3> QED BY <3>1, <3>2
  <2>3. CASE Month(time) - Month(t) >= Monthly
    BY <1>1, <1>2, <2>3
  <2> QED BY <2>1, <2>2, <2>3
<1>8. \/ \E s \in B : s > t /\ Week(s) = Week(t)
      \/ Day(later) - Day(t) >= 7 * Weekly
      \/ Cardinality(WB) >= Weekly
  <2>1. \/ \E s \in A : s > t /\ Week(s) = Week(t)
        \/ Day(time) - Day(t) >= 7 * Weekly
        \/ Cardinality(WA) >= Weekly
    BY DEF NotMissed
  <2> HIDE DEF WA, WB
  <2> QED BY <2>1, <1>1, <1>2, <1>5
<1> QED BY <1>6, <1>7, <1>8 DEF NotMissed

\* What is not missed is not missed either when another archive goes that is
\* not missed.
LEMMA NotMissedWithout ==
    ASSUME NEW time \in Nat, NEW A, A \subseteq 0..time, NEW t \in 0..time, NEW u \in A,
           NotMissed(t, A, time), NotMissed(u, A, time)
    PROVE  NotMissed(t, A \ {u}, time)
<1> DEFINE B == A \ {u}
           WA(x) == {Week(s) : s \in {y \in A : Week(y) > Week(x)}}
           WB == {Week(s) : s \in {y \in B : Week(y) > Week(t)}}
<1>1. /\ t \in Nat /\ u \in Nat /\ u <= time /\ t <= time
      /\ \A s \in A : s \in Nat /\ s <= time
  OBVIOUS
<1>2. /\ Day(time) \in Nat /\ Day(t) \in Nat /\ Day(u) \in Nat
      /\ Week(t) \in Nat /\ Week(u) \in Nat
      /\ Month(time) \in Nat /\ Month(t) \in Nat /\ Month(u) \in Nat
      /\ \A s \in A : Week(s) \in Nat
  BY <1>1, DayOfTime, WeekGrows, MonthGrows
<1>3. Daily \in Nat /\ Weekly \in Nat /\ Monthly \in Nat
  BY RetentionAssumptions
<1>4. (\E s \in B : s > t /\ Day(s) = Day(t)) \/ Day(time) - Day(t) >= Daily
  <2>1. CASE Day(u) = Day(t) /\ u > t
    <3>1. (\E s \in A : s > u /\ Day(s) = Day(u)) \/ Day(time) - Day(u) >= Daily
      BY DEF NotMissed
    <3>2. ASSUME NEW s \in A, s > u, Day(s) = Day(u)
          PROVE  s \in B /\ s > t /\ Day(s) = Day(t)
      BY <1>1, <2>1, <3>2
    <3> HIDE DEF B
    <3> QED BY <2>1, <3>1, <3>2
  <2>2. CASE ~ (Day(u) = Day(t) /\ u > t)
    BY <2>2 DEF NotMissed
  <2> QED BY <2>1, <2>2
<1>5. \/ \E s \in B : s > t /\ Month(s) = Month(t)
      \/ Month(time) - Month(t) >= Monthly
      \/ Month(time) - Month(t) = Monthly - 1 /\ CutoffIsLate(time)
  <2>1. CASE Month(u) = Month(t) /\ u > t
    <3>1. \/ \E s \in A : s > u /\ Month(s) = Month(u)
          \/ Month(time) - Month(u) >= Monthly
          \/ Month(time) - Month(u) = Monthly - 1 /\ CutoffIsLate(time)
      BY DEF NotMissed
    <3>2. ASSUME NEW s \in A, s > u, Month(s) = Month(u)
          PROVE  s \in B /\ s > t /\ Month(s) = Month(t)
      BY <1>1, <2>1, <3>2
    <3> HIDE DEF B
    <3> QED BY <2>1, <3>1, <3>2
  <2>2. CASE ~ (Month(u) = Month(t) /\ u > t)
    BY <2>2 DEF NotMissed
  <2> QED BY <2>1, <2>2
<1>6. IsFiniteSet(WA(t)) /\ IsFiniteSet(WA(u)) /\ IsFiniteSet(WB)
  <2>1. \A s \in A : Week(s) \in 0..Week(time)
    BY <1>1, WeekGrows
  <2>2. /\ WA(t) \in SUBSET (0..Week(time)) /\ WA(u) \in SUBSET (0..Week(time))
        /\ WB \in SUBSET (0..Week(time)) /\ Week(time) \in Nat
    BY <2>1, WeekGrows
  <2> HIDE DEF WA, WB
  <2>3. IsFiniteSet(0..Week(time))
    BY <2>2, FS_Interval
  <2> QED BY <2>2, <2>3, FS_Subset
<1>7. /\ \/ \E s \in A : s > t /\ Week(s) = Week(t)
         \/ Day(time) - Day(t) >= 7 * Weekly
         \/ Cardinality(WA(t)) >= Weekly
      /\ \/ \E s \in A : s > u /\ Week(s) = Week(u)
         \/ Day(time) - Day(u) >= 7 * Weekly
         \/ Cardinality(WA(u)) >= Weekly
  BY DEF NotMissed
<1>8. \/ \E s \in B : s > t /\ Week(s) = Week(t)
      \/ Day(time) - Day(t) >= 7 * Weekly
      \/ Cardinality(WB) >= Weekly
  <2>1. CASE Week(u) = Week(t) /\ u > t
    <3>1. CASE \E s \in A : s > u /\ Week(s) = Week(u)
      <4>1. PICK s \in A : s > u /\ Week(s) = Week(u)
        BY <3>1
      <4>2. s \in B /\ s > t /\ Week(s) = Week(t)
        BY <1>1, <2>1, <4>1
      <4> QED BY <4>2
    <3>2. CASE Day(time) - Day(u) >= 7 * Weekly
      <4>1. Day(t) <= Day(u)
        BY <1>1, <2>1, DayGrows
      <4> QED BY <1>2, <1>3, <3>2, <4>1
    <3>3. CASE Cardinality(WA(u)) >= Weekly
      <4>1. WB = WA(u)
        BY <1>2, <2>1
      <4> QED BY <3>3, <4>1
    <3> QED BY <1>7, <3>1, <3>2, <3>3
  <2>2. CASE Week(u) > Week(t)
    <3>1. CASE \E s \in A : s > u /\ Week(s) = Week(u)
      <4>1. PICK s \in A : s > u /\ Week(s) = Week(u)
        BY <3>1
      <4>2. s \in B
        BY <1>1, <4>1
      <4>3. WB = WA(t)
        BY <4>1, <4>2, <2>2
      <4>4. \A x \in A : x > t /\ Week(x) = Week(t) => x \in B
        BY <1>2, <2>2
      <4> QED BY <1>7, <4>3, <4>4
    <3>2. CASE Day(time) - Day(u) >= 7 * Weekly
      <4>1. Day(t) <= Day(u)
        <5>1. ~ (u <= t)
          BY <1>1, <1>2, <2>2, WeekGrows
        <5> QED BY <1>1, <5>1, DayGrows
      <4> QED BY <1>2, <1>3, <3>2, <4>1
    <3>3. CASE Cardinality(WA(u)) >= Weekly
      <4>1. WA(u) \in SUBSET WB
        BY <1>2, <2>2
      <4> HIDE DEF WB, WA
      <4>2. Cardinality(WA(u)) <= Cardinality(WB)
        BY <1>6, <4>1, FS_Subset
      <4>3. Cardinality(WA(u)) \in Nat /\ Cardinality(WB) \in Nat
        BY <1>6, FS_CardinalityType
      <4> QED BY <1>3, <3>3, <4>2, <4>3
    <3> QED BY <1>7, <3>1, <3>2, <3>3
  <2>3. CASE ~ (Week(u) = Week(t) /\ u > t) /\ ~ (Week(u) > Week(t))
    <3>1. WB = WA(t)
      BY <2>3
    <3>2. \A s \in A : s > t /\ Week(s) = Week(t) => s \in B
      BY <2>3
    <3> QED BY <1>7, <3>1, <3>2
  <2> QED BY <2>1, <2>2, <2>3
<1> QED BY <1>4, <1>5, <1>8 DEF NotMissed

-----------------------------------------------------------------------------
(* Retention: the runs.                                                    *)

RunRecord(time) ==
    [pc : {"idle", "dump", "encrypt", "verify", "list", "remove"},
     archive : 0..time, prune : BOOLEAN, left : SUBSET (0..time)]

\* What a run is about to remove is not missed, neither now nor with what
\* others remove meanwhile.
RetentionIInv ==
    /\ RetentionTypeOK
    /\ \A p \in Operators : operator[p].pc = "remove" =>
         \A t \in operator[p].left : NotMissed(t, DOMAIN archives, now)

LEMMA RunParts ==
    ASSUME RetentionTypeOK, NEW p \in Operators
    PROVE  /\ operator[p] \in RunRecord(now) /\ operator[p].archive \in 0..now
           /\ operator[p].left \subseteq 0..now /\ now \in Nat
           /\ Unoccupied \in RunRecord(now)
<1>1. now \in Nat /\ operator \in [Operators -> RunRecord(now)]
  BY DEF RetentionTypeOK, RunRecord
<1>2. operator[p] \in RunRecord(now)
  BY <1>1
<1>3. 0 \in 0..now /\ {} \in SUBSET (0..now)
  BY <1>1
<1> QED BY <1>1, <1>2, <1>3 DEF RunRecord, Unoccupied

LEMMA RetentionInitHolds == RetentionInit => RetentionIInv
<1> SUFFICES ASSUME RetentionInit PROVE RetentionIInv
  OBVIOUS
<1> DEFINE d == Min(RunDays)
<1>1. d \in RunDays /\ d \in Nat /\ Slots \in Nat /\ Slots > 0 /\ MaxArchives \in Nat
  <2>1. RunDays \subseteq Nat /\ RunDays # {} /\ Slots \in Nat /\ Slots > 0 /\ MaxArchives \in Nat
    BY RetentionAssumptions
  <2>2. d \in RunDays
    BY <2>1, MinOfNumbers
  <2> QED BY <2>1, <2>2
<1>2. now = d * Slots /\ archives = << >> /\ begun = 0
      /\ operator = [p \in Operators |-> Unoccupied]
  BY DEF RetentionInit
<1> HIDE DEF d
<1>3. now \in Nat /\ now = Slots * d
  BY <1>1, <1>2
<1>4. Day(now) = d
  BY <1>1, <1>3, DayIs
<1>5. DOMAIN archives = {}
  BY <1>2
<1>6. Unoccupied \in RunRecord(now) /\ Unoccupied.pc = "idle"
  BY <1>3 DEF Unoccupied, RunRecord
<1>7. operator \in [Operators -> RunRecord(now)] /\ \A p \in Operators : operator[p].pc = "idle"
  BY <1>2, <1>6
<1>8. RetentionTypeOK
  BY <1>1, <1>2, <1>3, <1>4, <1>5, <1>7 DEF RetentionTypeOK, RunRecord
<1> QED BY <1>7, <1>8 DEF RetentionIInv

LEMMA TickHolds ==
    ASSUME RetentionIInv, Tick
    PROVE  RetentionIInv'
<1>1. RetentionTypeOK /\ now \in Nat
  BY DEF RetentionIInv, RetentionTypeOK
<1>2. PICK d \in RunDays, s \in 0..(Slots - 1) : d * Slots + s > now /\ now' = d * Slots + s
  BY DEF Tick
<1>3. archives' = archives /\ operator' = operator /\ begun' = begun
  BY DEF Tick
<1>4. d \in Nat /\ Slots \in Nat /\ s \in Nat /\ s < Slots
  BY RetentionAssumptions
<1>5. d * Slots \in Nat /\ d * Slots = Slots * d
  BY <1>4
<1>6. now' \in Nat /\ now <= now' /\ Slots * d <= now' /\ now' < Slots * d + Slots
  BY <1>1, <1>2, <1>4, <1>5
<1>7. Day(now') = d
  BY <1>4, <1>6, DayIs
<1>8. 0..now \subseteq 0..now'
  BY <1>1, <1>6
<1>9. operator' \in [Operators -> RunRecord(now')]
  <2>1. operator \in [Operators -> RunRecord(now)]
    BY <1>1 DEF RetentionTypeOK, RunRecord
  <2>2. RunRecord(now) \subseteq RunRecord(now')
    BY <1>8 DEF RunRecord
  <2> QED BY <1>3, <2>1, <2>2
<1>10. RetentionTypeOK'
  BY <1>1, <1>3, <1>6, <1>7, <1>8, <1>9 DEF RetentionTypeOK, RunRecord
<1>11. ASSUME NEW p \in Operators, operator'[p].pc = "remove", NEW t \in operator'[p].left
       PROVE  NotMissed(t, DOMAIN archives', now')
  <2>1. NotMissed(t, DOMAIN archives, now) /\ t \in 0..now
    BY <1>1, <1>3, <1>11, RunParts DEF RetentionIInv
  <2>2. DOMAIN archives \subseteq DOMAIN archives' /\ DOMAIN archives' \subseteq 0..now'
    BY <1>1, <1>3, <1>8 DEF RetentionTypeOK
  <2> HIDE DEF RetentionIInv
  <2> QED BY <1>1, <1>6, <2>1, <2>2, NotMissedLater
<1> QED BY <1>10, <1>11 DEF RetentionIInv

\* A run that starts, goes on or ends without anything to remove.
LEMMA BackupRunGoesOn ==
    ASSUME RetentionIInv, NEW p \in Operators, NEW run \in RunRecord(now), run.pc # "remove",
           now' = now, operator' = [operator EXCEPT ![p] = run],
           begun' \in 0..MaxArchives,
           DOMAIN archives \subseteq DOMAIN archives', DOMAIN archives' \subseteq 0..now,
           \A t \in DOMAIN archives' : archives'[t] \in {"partial", "whole", "verified"}
    PROVE  RetentionIInv'
<1>1. RetentionTypeOK /\ now \in Nat /\ operator \in [Operators -> RunRecord(now)]
  BY DEF RetentionIInv, RetentionTypeOK, RunRecord
<1>2. operator' \in [Operators -> RunRecord(now)]
  BY <1>1
<1>3. RetentionTypeOK'
  BY <1>1, <1>2 DEF RetentionTypeOK, RunRecord
<1>4. ASSUME NEW q \in Operators, operator'[q].pc = "remove", NEW t \in operator'[q].left
      PROVE  NotMissed(t, DOMAIN archives', now')
  <2>1. operator'[q] = operator[q]
    BY <1>1, <1>4
  <2>2. NotMissed(t, DOMAIN archives, now) /\ t \in 0..now
    BY <1>1, <1>4, <2>1, RunParts DEF RetentionIInv
  <2>3. now <= now
    BY <1>1
  <2>4. NotMissed(t, DOMAIN archives', now)
    BY <1>1, <2>2, <2>3, NotMissedLater
  <2> QED BY <2>4
<1> QED BY <1>3, <1>4 DEF RetentionIInv

LEMMA WithAnArchive ==
    ASSUME RetentionTypeOK, NEW t \in 0..now, NEW state \in {"partial", "whole", "verified"},
           archives' = With(t, state)
    PROVE  /\ DOMAIN archives \subseteq DOMAIN archives' /\ DOMAIN archives' \subseteq 0..now
           /\ \A s \in DOMAIN archives' : archives'[s] \in {"partial", "whole", "verified"}
BY DEF RetentionTypeOK, With

LEMMA RunStepHolds ==
    ASSUME RetentionIInv, NEW p \in Operators,
           \/ RunBackup(p) \/ OpenArchive(p) \/ EncryptFile(p) \/ EncryptUnlinked(p) \/ Verify(p)
           \/ RunBackupPrune(p) \/ EndPrune(p) \/ FailOperation(p)
    PROVE  RetentionIInv'
<1> DEFINE old == operator[p]
<1>1. /\ RetentionTypeOK /\ now \in Nat /\ old \in RunRecord(now) /\ old.archive \in 0..now
      /\ Unoccupied \in RunRecord(now) /\ Unoccupied.pc = "idle"
      /\ begun \in 0..MaxArchives /\ MaxArchives \in Nat
  BY RunParts, RetentionAssumptions DEF RetentionIInv, RetentionTypeOK, Unoccupied
<1>2. /\ DOMAIN archives \subseteq DOMAIN archives /\ DOMAIN archives \subseteq 0..now
      /\ \A t \in DOMAIN archives : archives[t] \in {"partial", "whole", "verified"}
  BY <1>1 DEF RetentionTypeOK
<1>3. ASSUME NEW pc \in {"idle", "dump", "encrypt", "verify", "list"}
      PROVE  [old EXCEPT !.pc = pc] \in RunRecord(now) /\ [old EXCEPT !.pc = pc].pc = pc
  BY <1>1, <1>3 DEF RunRecord
<1>4. CASE RunBackup(p)
  <2>1. PICK prune \in BOOLEAN :
          operator' = [operator EXCEPT ![p] =
                         [pc |-> "dump", archive |-> now, prune |-> prune, left |-> {}]]
    BY <1>4 DEF RunBackup
  <2> DEFINE run == [pc |-> "dump", archive |-> now, prune |-> prune, left |-> {}]
  <2>2. run \in RunRecord(now) /\ run.pc # "remove"
    BY <1>1 DEF RunRecord
  <2>3. now' = now /\ archives' = archives /\ begun' \in 0..MaxArchives
    BY <1>1, <1>4 DEF RunBackup
  <2> HIDE DEF run
  <2> QED BY <1>2, <2>1, <2>2, <2>3, BackupRunGoesOn DEF run
<1>5. CASE OpenArchive(p)
  <2> DEFINE run == [old EXCEPT !.pc = "encrypt"]
  <2>1. operator' = [operator EXCEPT ![p] = run] /\ now' = now /\ begun' = begun
    BY <1>5 DEF OpenArchive, NextBackupStep
  <2>2. archives' = With(old.archive, "partial")
    BY <1>5 DEF OpenArchive
  <2>3. run \in RunRecord(now) /\ run.pc # "remove"
    BY <1>3
  <2> HIDE DEF run, old
  <2> QED BY <1>1, <2>1, <2>2, <2>3, BackupRunGoesOn, WithAnArchive
<1>6. CASE EncryptFile(p)
  <2> DEFINE run == [old EXCEPT !.pc = "verify"]
  <2>1. operator' = [operator EXCEPT ![p] = run] /\ now' = now /\ begun' = begun
    BY <1>6 DEF EncryptFile, NextBackupStep
  <2>2. archives' = With(old.archive, "whole")
    BY <1>6 DEF EncryptFile
  <2>3. run \in RunRecord(now) /\ run.pc # "remove"
    BY <1>3
  <2> HIDE DEF run, old
  <2> QED BY <1>1, <2>1, <2>2, <2>3, BackupRunGoesOn, WithAnArchive
<1>7. CASE EncryptUnlinked(p)
  <2> DEFINE run == [old EXCEPT !.pc = "verify"]
  <2>1. /\ operator' = [operator EXCEPT ![p] = run] /\ now' = now /\ begun' = begun
        /\ archives' = archives
    BY <1>7 DEF EncryptUnlinked, NextBackupStep
  <2>2. run \in RunRecord(now) /\ run.pc # "remove"
    BY <1>3
  <2> HIDE DEF run, old
  <2> QED BY <1>1, <1>2, <2>1, <2>2, BackupRunGoesOn
<1>8. CASE Verify(p)
  <2> DEFINE run == IF old.prune THEN [old EXCEPT !.pc = "list"] ELSE Unoccupied
  <2>1. operator' = [operator EXCEPT ![p] = run] /\ now' = now /\ begun' = begun
    BY <1>8 DEF Verify
  <2>2. archives' = With(old.archive, "verified")
    BY <1>8 DEF Verify
  <2>3. run \in RunRecord(now) /\ run.pc # "remove"
    BY <1>1, <1>3
  <2> HIDE DEF run, old
  <2> QED BY <1>1, <2>1, <2>2, <2>3, BackupRunGoesOn, WithAnArchive
<1>9. CASE RunBackupPrune(p)
  <2> DEFINE run == [Unoccupied EXCEPT !.pc = "list"]
  <2>1. /\ operator' = [operator EXCEPT ![p] = run] /\ now' = now /\ begun' = begun
        /\ archives' = archives
    BY <1>9 DEF RunBackupPrune
  <2>2. run \in RunRecord(now) /\ run.pc # "remove"
    BY <1>1 DEF RunRecord, Unoccupied
  <2> HIDE DEF run, old
  <2> QED BY <1>1, <1>2, <2>1, <2>2, BackupRunGoesOn
<1>10. CASE EndPrune(p) \/ FailOperation(p)
  <2>1. /\ operator' = [operator EXCEPT ![p] = Unoccupied] /\ now' = now /\ begun' = begun
        /\ archives' = archives
    BY <1>10 DEF EndPrune, FailOperation
  <2> HIDE DEF old
  <2> QED BY <1>1, <1>2, <2>1, BackupRunGoesOn
<1> QED BY <1>4, <1>5, <1>6, <1>7, <1>8, <1>9, <1>10

LEMMA ListBackupCandidatesHolds ==
    ASSUME RetentionIInv, NEW p \in Operators, ListBackupCandidates(p)
    PROVE  RetentionIInv'
<1> DEFINE E == Expired(DOMAIN archives, now)
           run == [operator[p] EXCEPT !.pc = "remove", !.left = E]
<1>1. /\ RetentionTypeOK /\ now \in Nat /\ operator \in [Operators -> RunRecord(now)]
      /\ DOMAIN archives \subseteq 0..now /\ Day(now) \in RunDays
  BY DEF RetentionIInv, RetentionTypeOK, RunRecord
<1>2. /\ operator' = [operator EXCEPT ![p] = run]
      /\ now' = now /\ archives' = archives /\ begun' = begun
  BY DEF ListBackupCandidates
<1>3. \A t \in E : t \in DOMAIN archives /\ NotMissed(t, DOMAIN archives, now)
  BY <1>1, ExpiredIsNotMissed
<1>4. E \in SUBSET (0..now)
  BY <1>1, <1>3
<1>5. run \in RunRecord(now) /\ run.left = E
  <2> HIDE DEF E
  <2> QED BY <1>1, <1>4 DEF RunRecord
<1> HIDE DEF run, E
<1>6. operator' \in [Operators -> RunRecord(now)] /\ operator'[p] = run
  BY <1>1, <1>2, <1>5
<1>7. RetentionTypeOK'
  BY <1>1, <1>2, <1>6 DEF RetentionTypeOK, RunRecord
<1>8. ASSUME NEW q \in Operators, operator'[q].pc = "remove", NEW t \in operator'[q].left
      PROVE  NotMissed(t, DOMAIN archives, now)
  <2>1. CASE q = p
    BY <1>3, <1>5, <1>6, <1>8, <2>1
  <2>2. CASE q # p
    <3>1. operator'[q] = operator[q]
      BY <1>1, <1>2, <2>2
    <3> QED BY <1>8, <3>1 DEF RetentionIInv
  <2> QED BY <2>1, <2>2
<1> QED BY <1>2, <1>7, <1>8 DEF RetentionIInv

LEMMA RemoveExpiredHolds ==
    ASSUME RetentionIInv, NEW p \in Operators, RemoveExpired(p)
    PROVE  /\ RetentionIInv'
           /\ \A t \in DOMAIN archives \ DOMAIN archives' : NotMissed(t, DOMAIN archives', now)
<1>1. /\ RetentionTypeOK /\ now \in Nat /\ operator \in [Operators -> RunRecord(now)]
      /\ DOMAIN archives \subseteq 0..now /\ operator[p].pc = "remove"
      /\ \A t \in DOMAIN archives : archives[t] \in {"partial", "whole", "verified"}
  BY DEF RetentionIInv, RetentionTypeOK, RunRecord, RemoveExpired
<1>2. PICK u \in operator[p].left \cap DOMAIN archives :
        /\ archives' = [s \in DOMAIN archives \ {u} |-> archives[s]]
        /\ operator' = [operator EXCEPT ![p].left = @ \ {u}]
  BY DEF RemoveExpired
<1>3. now' = now /\ begun' = begun
  BY DEF RemoveExpired
<1>4. /\ DOMAIN archives' = DOMAIN archives \ {u}
      /\ \A s \in DOMAIN archives' : archives'[s] = archives[s]
  BY <1>2
<1>5. NotMissed(u, DOMAIN archives, now)
  BY <1>1, <1>2 DEF RetentionIInv
<1>6. \A q \in Operators : operator'[q].pc = operator[q].pc
                           /\ operator'[q].left \subseteq operator[q].left
  <2> DEFINE run == [operator[p] EXCEPT !.left = @ \ {u}]
  <2>1. run.pc = operator[p].pc /\ run.left \subseteq operator[p].left
    BY <1>1 DEF RunRecord
  <2>2. operator' = [operator EXCEPT ![p] = run]
    BY <1>2
  <2> HIDE DEF run
  <2> QED BY <1>1, <2>1, <2>2
<1>7. operator' \in [Operators -> RunRecord(now)]
  <2> DEFINE run == [operator[p] EXCEPT !.left = @ \ {u}]
  <2>1. run \in RunRecord(now)
    BY <1>1 DEF RunRecord
  <2>2. operator' = [operator EXCEPT ![p] = run]
    BY <1>2
  <2> HIDE DEF run
  <2> QED BY <1>1, <2>1, <2>2
<1>8. RetentionTypeOK'
  <2>1. DOMAIN archives' \subseteq 0..now
        /\ \A s \in DOMAIN archives' : archives'[s] \in {"partial", "whole", "verified"}
    BY <1>1, <1>4
  <2> QED BY <1>1, <1>3, <1>7, <2>1 DEF RetentionTypeOK, RunRecord
<1>9. ASSUME NEW t \in 0..now, NotMissed(t, DOMAIN archives, now)
      PROVE  NotMissed(t, DOMAIN archives', now)
  <2>1. u \in DOMAIN archives
    BY <1>2
  <2>2. NotMissed(t, DOMAIN archives \ {u}, now)
    BY <1>1, <1>5, <1>9, <2>1, NotMissedWithout
  <2> QED BY <1>4, <2>2
<1>10. ASSUME NEW q \in Operators, operator'[q].pc = "remove", NEW t \in operator'[q].left
       PROVE  NotMissed(t, DOMAIN archives', now)
  <2>1. t \in operator[q].left /\ operator[q].pc = "remove"
    BY <1>6, <1>10
  <2>2. t \in 0..now /\ NotMissed(t, DOMAIN archives, now)
    BY <1>1, <2>1, RunParts DEF RetentionIInv
  <2> QED BY <1>9, <2>2
<1>11. NotMissed(u, DOMAIN archives', now)
  BY <1>1, <1>2, <1>5, <1>9
<1>12. \A t \in DOMAIN archives \ DOMAIN archives' : NotMissed(t, DOMAIN archives', now)
  BY <1>4, <1>11
<1> QED BY <1>3, <1>8, <1>10, <1>12 DEF RetentionIInv

LEMMA RetentionStepHolds ==
    RetentionIInv /\ [RetentionNext]_retentionVars =>
      /\ RetentionIInv'
      /\ \A t \in DOMAIN archives \ DOMAIN archives' : NotMissed(t, DOMAIN archives', now)
<1> SUFFICES ASSUME RetentionIInv, [RetentionNext]_retentionVars
             PROVE  /\ RetentionIInv'
                    /\ \A t \in DOMAIN archives \ DOMAIN archives' :
                         NotMissed(t, DOMAIN archives', now)
  OBVIOUS
<1>1. CASE Tick
  <2>1. archives' = archives
    BY <1>1 DEF Tick
  <2> QED BY <1>1, <2>1, TickHolds
<1>2. ASSUME NEW p \in Operators,
             \/ RunBackup(p) \/ OpenArchive(p) \/ EncryptFile(p) \/ EncryptUnlinked(p) \/ Verify(p)
             \/ RunBackupPrune(p) \/ EndPrune(p) \/ FailOperation(p)
      PROVE  RetentionIInv' /\ DOMAIN archives \subseteq DOMAIN archives'
  <2>1. RetentionIInv'
    BY <1>2, RunStepHolds
  <2>2. archives' = archives \/ \E t, state : archives' = With(t, state)
    BY <1>2 DEF RunBackup, OpenArchive, EncryptFile, EncryptUnlinked, Verify, RunBackupPrune,
                EndPrune, FailOperation
  <2>3. DOMAIN archives \subseteq DOMAIN archives'
    BY <2>2 DEF With
  <2> QED BY <2>1, <2>3
<1>3. ASSUME NEW p \in Operators, ListBackupCandidates(p)
      PROVE  RetentionIInv' /\ archives' = archives
  BY <1>3, ListBackupCandidatesHolds DEF ListBackupCandidates
<1>4. CASE UNCHANGED retentionVars
  <2>1. now' = now /\ archives' = archives /\ operator' = operator /\ begun' = begun
    BY <1>4 DEF retentionVars
  <2> QED BY <2>1 DEF RetentionIInv, RetentionTypeOK
<1> QED BY <1>1, <1>2, <1>3, <1>4, RemoveExpiredHolds DEF RetentionNext

\* The archives, their times and the runs are well formed.
THEOREM RetentionTypes == RetentionSpec => []RetentionTypeOK
<1>1. RetentionIInv => RetentionTypeOK
  BY DEF RetentionIInv
<1> QED BY <1>1, RetentionInitHolds, RetentionStepHolds, PTL DEF RetentionSpec

\* What a prune removes is not missed: of every archive that goes, the day, the
\* week and the month it stands for have a newer one in the directory or are
\* too old for the policy, for every policy, any number of runs at once, and
\* whatever fails (prune.go, Prune and selectBackupsToKeep).
THEOREM ArchivesAreHeld == RetentionSpec => RetentionHeld
<1>1. RetentionIInv /\ [RetentionNext]_retentionVars =>
        [\A t \in DOMAIN archives \ DOMAIN archives' :
           NotMissed(t, DOMAIN archives', now)]_retentionVars
  BY RetentionStepHolds
<1> QED BY <1>1, RetentionInitHolds, RetentionStepHolds, PTL DEF RetentionSpec, RetentionHeld

=============================================================================
