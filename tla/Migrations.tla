----------------------------- MODULE Migrations -----------------------------
(***************************************************************************)
(* The schema: mailctl migrate applies the embedded scripts in the order   *)
(* of their names and records each one; a dump taken earlier may be        *)
(* imported over it.                                                       *)
(*                                                                         *)
(*   internal/db/migrate.go           the loop over the scripts            *)
(*   internal/db/migrations/          the scripts                          *)
(*   cmd/mailctl/main.go              dump                                 *)
(*   internal/backup/live_restore.go  import                               *)
(*                                                                         *)
(* Nothing locks the loop: the set-up program and an administrator may run *)
(* it at once, and each may be killed between two statements.  MariaDB     *)
(* commits every statement of a script by itself.  A statement is named by *)
(* its script and its place in it, and the schema is the set of statements *)
(* whose effect is in the tables.                                          *)
(***************************************************************************)
EXTENDS Naturals, Sequences

CONSTANTS
    Migrators,   \* processes that run the loop
    Tables,
    Bookkeeping, \* the table schema_migrations
    Scripts,     \* the scripts in the order of their names, each a sequence
                 \* of statements
    Releases,    \* the scripts every release of the program embeds, in order
    MaxLoops,    \* bound: runs of the loop
    MaxDumps,    \* bound: dumps taken
    MaxImports   \* bound: imports begun

StatementKinds == {"create",  \* CREATE TABLE: fails if the table is there
          "ensure",  \* CREATE TABLE IF NOT EXISTS
          "alter",   \* ADD COLUMN, ADD KEY, INSERT: fails if it was done
          "change"}  \* MODIFY, INSERT IGNORE: may be repeated

Versions == DOMAIN Scripts

ASSUME MigrationsAssumptions ==
    /\ Scripts \in Seq(Seq([table : Tables, kind : StatementKinds])) /\ Len(Scripts) > 0
    /\ Releases \in Seq(SUBSET Versions) /\ Len(Releases) > 0
    /\ Bookkeeping \notin Tables
    /\ {MaxLoops, MaxDumps, MaxImports} \subseteq Nat

VARIABLES
    schema,     \* the statements in effect
    recorded,   \* the versions in schema_migrations
    installed,  \* the release on the server
    at,         \* process -> the script its loop has reached; 0: not running
    release,    \* process -> the release it was started from
    done,       \* process -> statements of that script it has executed
    executing,  \* process -> the script was not recorded when it looked
    dumps,      \* dumps in backups
    importing,  \* the dump being imported; 0: none
    left,       \* tables it has yet to replace
    alone,      \* no loop has run since it began
    torn,       \* the tables are not of one dump, or were replaced under a loop
    loops, imports

loopVars == <<at, release, done, executing, loops>>
importVars == <<importing, left, alone, torn, imports>>
migrationsVars == <<schema, recorded, installed, dumps, loopVars, importVars>>

Statement(s) == Scripts[s[1]][s[2]]
Statements == {s \in Versions \X Nat : s[2] \in DOMAIN Scripts[s[1]]}
HasTable(t) == \E s \in schema : Statement(s).table = t

-----------------------------------------------------------------------------
(* The loop.                                                               *)

BeginLoop(m) ==
    /\ at[m] = 0
    /\ loops < MaxLoops /\ loops' = loops + 1
    /\ at' = [at EXCEPT ![m] = 1]
    /\ release' = [release EXCEPT ![m] = installed]
    /\ executing' = [executing EXCEPT ![m] = FALSE]
    /\ alone' = FALSE
    /\ UNCHANGED <<schema, recorded, installed, done, dumps, importing, left, torn, imports>>

Looping(m) == at[m] \in Versions

\* The version after v, or the end of the loop.
Advance(m) == /\ at' = [at EXCEPT ![m] = IF @ = Len(Scripts) THEN 0 ELSE @ + 1]
              /\ executing' = [executing EXCEPT ![m] = FALSE]

Skip(m) ==
    /\ Looping(m) /\ ~executing[m]
    /\ at[m] \in recorded \/ at[m] \notin Releases[release[m]]
    /\ Advance(m)
    /\ UNCHANGED <<schema, recorded, installed, release, done, loops, dumps, importVars>>

MigrationApplied(m) ==
    /\ Looping(m) /\ ~executing[m]
    /\ at[m] \in Releases[release[m]] \ recorded
    /\ executing' = [executing EXCEPT ![m] = TRUE]
    /\ done' = [done EXCEPT ![m] = 0]
    /\ UNCHANGED <<schema, recorded, installed, at, release, loops, dumps, importVars>>

\* What MariaDB accepts.
Admits(s) == LET t == Statement(s).table
             IN  CASE Statement(s).kind = "create" -> ~HasTable(t)
                   [] Statement(s).kind = "ensure" -> TRUE
                   [] Statement(s).kind = "alter"  -> HasTable(t) /\ s \notin schema
                   [] OTHER                        -> HasTable(t)

Execute(m) ==
    /\ Looping(m) /\ executing[m]
    /\ done[m] + 1 \in DOMAIN Scripts[at[m]]
    /\ LET s == <<at[m], done[m] + 1>>
       IN  Admits(s) /\ schema' = schema \cup {s}
    /\ done' = [done EXCEPT ![m] = @ + 1]
    /\ UNCHANGED <<recorded, installed, at, release, executing, loops, dumps, importVars>>

\* Variant: the driver runs the first statement of a script and no other.
FirstExecuted(m) == done[m] > 0

\* The whole script was executed without an error.
AllExecuted(m) == done[m] = Len(Scripts[at[m]])

\* The version is a key of the table: if it is there by now the loop fails.
Record(m) ==
    /\ Looping(m) /\ executing[m]
    /\ AllExecuted(m)
    /\ at[m] \notin recorded
    /\ recorded' = recorded \cup {at[m]}
    /\ Advance(m)
    /\ UNCHANGED <<schema, installed, release, done, loops, dumps, importVars>>

\* A statement is refused, the connection breaks, or the process is killed.
Abort(m) ==
    /\ Looping(m)
    /\ at' = [at EXCEPT ![m] = 0]
    /\ executing' = [executing EXCEPT ![m] = FALSE]
    /\ UNCHANGED <<schema, recorded, installed, release, done, loops, dumps, importVars>>

Upgrade ==
    /\ installed < Len(Releases)
    /\ installed' = installed + 1
    /\ UNCHANGED <<schema, recorded, dumps, loopVars, importVars>>

-----------------------------------------------------------------------------
(* Dump and import.                                                        *)

\* mariadb-dump --single-transaction
DumpDatabase ==
    /\ Len(dumps) < MaxDumps
    /\ dumps' = Append(dumps, [schema |-> schema, recorded |-> recorded, torn |-> torn])
    /\ UNCHANGED <<schema, recorded, installed, loopVars, importVars>>

TablesIn(S) == {Statement(s).table : s \in S}

BeginImport ==
    /\ importing = 0
    /\ imports < MaxImports /\ imports' = imports + 1
    /\ \E d \in DOMAIN dumps :
         /\ importing' = d
         /\ left' = TablesIn(dumps[d].schema) \cup {Bookkeeping}
    /\ alone' = (\A m \in Migrators : ~Looping(m))
    /\ torn' = TRUE
    /\ UNCHANGED <<schema, recorded, installed, loopVars, dumps>>

\* The dump drops a table and creates it again with its rows; a table it does
\* not have stays.
ImportTable ==
    /\ importing # 0
    /\ \E t \in left :
         /\ left' = left \ {t}
         /\ recorded' = IF t = Bookkeeping THEN dumps[importing].recorded ELSE recorded
         /\ schema' = {s \in schema : Statement(s).table # t}
                        \cup {s \in dumps[importing].schema : Statement(s).table = t}
    /\ UNCHANGED <<installed, loopVars, dumps, importing, alone, torn, imports>>

EndImport ==
    /\ importing # 0 /\ left = {}
    /\ importing' = 0
    /\ torn' = (dumps[importing].torn \/ ~alone)
    /\ UNCHANGED <<schema, recorded, installed, loopVars, dumps, left, alone, imports>>

FailImport ==
    /\ importing # 0
    /\ importing' = 0
    /\ UNCHANGED <<schema, recorded, installed, loopVars, dumps, left, alone, torn, imports>>

-----------------------------------------------------------------------------

MigrationsInit ==
    /\ schema = {} /\ recorded = {} /\ installed = 1
    /\ at = [m \in Migrators |-> 0]
    /\ release = [m \in Migrators |-> 1]
    /\ done = [m \in Migrators |-> 0]
    /\ executing = [m \in Migrators |-> FALSE]
    /\ dumps = << >>
    /\ importing = 0 /\ left = {} /\ alone = FALSE /\ torn = FALSE
    /\ loops = 0 /\ imports = 0

MigrationsNext ==
    \/ \E m \in Migrators :
         BeginLoop(m) \/ Skip(m) \/ MigrationApplied(m) \/ Execute(m) \/ Record(m) \/ Abort(m)
    \/ Upgrade
    \/ DumpDatabase
    \/ BeginImport \/ ImportTable \/ EndImport \/ FailImport

MigrationsSpec == MigrationsInit /\ [][MigrationsNext]_migrationsVars

-----------------------------------------------------------------------------

MigrationsTypeOK ==
    /\ schema \subseteq Statements /\ recorded \subseteq Versions
    /\ installed \in DOMAIN Releases
    /\ at \in [Migrators -> {0} \cup Versions]
    /\ release \in [Migrators -> DOMAIN Releases]
    /\ done \in [Migrators -> Nat]
    /\ executing \in [Migrators -> BOOLEAN]
    /\ dumps \in Seq([schema : SUBSET Statements, recorded : SUBSET Versions, torn : BOOLEAN])
    /\ importing \in {0} \cup DOMAIN dumps
    /\ left \subseteq Tables \cup {Bookkeeping}
    /\ alone \in BOOLEAN /\ torn \in BOOLEAN
    /\ loops \in 0..MaxLoops /\ imports \in 0..MaxImports

Applied(v, S) == \A i \in DOMAIN Scripts[v] : <<v, i>> \in S

\* Every script that some release puts before v is in V.
InOrder(v, V) == \E r \in DOMAIN Releases :
                   v \in Releases[r] /\ \A u \in Releases[r] : u < v => u \in V

\* schema_migrations tells the truth: a version in it has every statement of
\* its script in effect, and every script its release applies before it was
\* recorded too; whatever loops ran at once or were killed between two
\* statements or before the record, and whatever dump was imported since.
\* Only an import that failed half-way, or ran beside a loop, voids it.
RecordedIsApplied ==
    torn \/ \A v \in recorded : Applied(v, schema) /\ InOrder(v, recorded)

=============================================================================
