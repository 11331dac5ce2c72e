----------------------------- MODULE LiveRestore -----------------------------
(***************************************************************************)
(* What is in a backup and what a live restore makes of it.                *)
(*                                                                         *)
(*   cmd/mailctl/main.go                backup and restore --live          *)
(*   internal/backup/backup.go          packing, staging                   *)
(*   internal/backup/live_restore.go    stop, copy, import, restart        *)
(*                                                                         *)
(* The server is the files below the mapped paths and the database; a      *)
(* content is the number of the change that wrote it.  Nothing keeps the   *)
(* services, the TLS worker or the config-apply unit from changing files   *)
(* while a backup reads them, and only the services that a restore stops   *)
(* stay out of its way.  Either command may fail or be killed at any step. *)
(***************************************************************************)
EXTENDS Naturals, Sequences, SequencesExt

CONSTANTS
    Sources,      \* the files of the backup sources, in order
    Links,        \* those that are symbolic links: /etc/letsencrypt/live
    Database,     \* the database, as one more part of the server
    Absent, Cut,  \* no such file; half written, or half imported
    MaxChanges,   \* bound: changes by the services and helpers
    MaxBackups,   \* bound: backups packed
    MaxRestores   \* bound: restores begun

Files == ToSet(Sources)
Parts == Files \cup {Database}

ASSUME LiveRestoreAssumptions ==
    /\ Sources \in Seq(Files)
    /\ Links \subseteq Files /\ Database \notin Files
    /\ {MaxChanges, MaxBackups, MaxRestores} \subseteq Nat
    /\ {Absent, Cut} \intersect Nat = {} /\ Absent # Cut

VARIABLES
    server,    \* part -> content
    services,  \* are the services running?
    packing,   \* the backup that runs
    packed,    \* archives: content, and whether nothing changed meanwhile
    restore,   \* the restore that runs, or the last one
    changes, restores

liveRestoreVars == <<server, services, packing, packed, restore, changes, restores>>

NoBackup == [pc |-> "idle", got |-> << >>, left |-> << >>, quiet |-> FALSE, began |-> << >>]
NoRestore == [pc |-> "none", from |-> 0, overwrite |-> FALSE, control |-> FALSE,
              import |-> FALSE, left |-> << >>, alone |-> FALSE]

Restoring == restore.pc \notin {"none", "done", "failed"}

\* Somebody else acts: the backup and the restore are not alone.
DisturbCopies == /\ packing' = [packing EXCEPT !.quiet = FALSE]
           /\ restore' = [restore EXCEPT !.alone = FALSE]

-----------------------------------------------------------------------------
(* The server lives on.                                                    *)

Rewrite ==
    /\ changes < MaxChanges /\ changes' = changes + 1
    /\ \E p \in Parts, c \in {changes + 1, Absent} :
         /\ p = Database => c # Absent
         /\ server' = [server EXCEPT ![p] = c]
    /\ DisturbCopies
    /\ UNCHANGED <<services, packed, restores>>

\* An administrator or the config-apply unit starts what a restore stopped.
StartServices ==
    /\ ~services /\ services' = TRUE
    /\ DisturbCopies
    /\ UNCHANGED <<server, packed, changes, restores>>

\* The disk is lost and the server set up anew.
Rebuild ==
    /\ changes < MaxChanges /\ changes' = changes + 1
    /\ server' = [p \in Parts |-> IF p = Database THEN changes + 1 ELSE Absent]
    /\ services' = FALSE
    /\ packing' = NoBackup
    /\ restore' = NoRestore
    /\ UNCHANGED <<packed, restores>>

-----------------------------------------------------------------------------
(* Backup.                                                                 *)

DumpDatabaseTo ==
    /\ packing.pc = "idle" /\ Len(packed) < MaxBackups
    /\ packing' = [pc |-> "add", got |-> [p \in {Database} |-> server[p]],
                   left |-> Sources, quiet |-> ~Restoring, began |-> server]
    /\ UNCHANGED <<server, services, packed, restore, changes, restores>>

\* A link is passed over and a file that is not there is left out.
AddPath ==
    /\ packing.pc = "add" /\ packing.left # << >>
    /\ LET f == Head(packing.left)
           content == IF f \in Links THEN Absent ELSE server[f]
       IN  packing' = [packing EXCEPT !.left = Tail(@),
                         !.got = [p \in DOMAIN @ \cup {f} |-> IF p = f THEN content ELSE @[p]]]
    /\ UNCHANGED <<server, services, packed, restore, changes, restores>>

\* The archive is written, read back and verified.
FinishBackup ==
    /\ packing.pc = "add" /\ packing.left = << >>
    /\ packed' = Append(packed, [content |-> packing.got, quiet |-> packing.quiet,
                                 began |-> packing.began])
    /\ packing' = NoBackup
    /\ UNCHANGED <<server, services, restore, changes, restores>>

\* A file vanishes or grows under the reader, or the run is killed.
FailBackup ==
    /\ packing.pc # "idle"
    /\ packing' = NoBackup
    /\ UNCHANGED <<server, services, packed, restore, changes, restores>>

-----------------------------------------------------------------------------
(* Live restore.                                                           *)

Content(p) == packed[restore.from].content[p]

NextRestoreStep(pc) == restore' = [restore EXCEPT !.pc = pc]

\* The archive is verified and unpacked into the staging directory, which
\* touches nothing else.
RestoreWithKey ==
    /\ ~Restoring
    /\ restores < MaxRestores /\ restores' = restores + 1
    /\ \E a \in DOMAIN packed, overwrite, control, import \in BOOLEAN :
         restore' = [pc |-> "stop", from |-> a, overwrite |-> overwrite, control |-> control,
                     import |-> import, left |-> Sources, alone |-> TRUE]
    /\ UNCHANGED <<server, services, packing, packed, changes>>

StopServices ==
    /\ restore.pc = "stop"
    /\ services' = (services /\ ~restore.control)
    /\ restore' = [restore EXCEPT !.pc = "copy"]
    /\ packing' = [packing EXCEPT !.quiet = FALSE]
    /\ UNCHANGED <<server, packed, changes, restores>>

\* A file the archive does not have stays as it is.
SkipMapping ==
    /\ restore.pc = "copy" /\ restore.left # << >>
    /\ Content(Head(restore.left)) = Absent
    /\ restore' = [restore EXCEPT !.left = Tail(@)]
    /\ UNCHANGED <<server, services, packing, packed, changes, restores>>

\* Without --overwrite an existing target ends the restore.
OpenTarget ==
    /\ restore.pc = "copy" /\ restore.left # << >>
    /\ LET f == Head(restore.left)
       IN  /\ Content(f) # Absent
           /\ restore.overwrite \/ server[f] = Absent
           /\ server' = [server EXCEPT ![f] = Cut]
    /\ NextRestoreStep("fill")
    /\ UNCHANGED <<services, packing, packed, changes, restores>>

CopyFile ==
    /\ restore.pc = "fill"
    /\ server' = [server EXCEPT ![Head(restore.left)] = Content(Head(restore.left))]
    /\ restore' = [restore EXCEPT !.pc = "copy", !.left = Tail(@)]
    /\ UNCHANGED <<services, packing, packed, changes, restores>>

\* Variant: the restore goes on when a file is done with.
AnyMapped == restore.left # Sources

AllMapped == restore.left = << >>

BeginImportDatabase ==
    /\ restore.pc = "copy" /\ AllMapped
    /\ IF restore.import
       THEN server' = [server EXCEPT ![Database] = Cut] /\ NextRestoreStep("import")
       ELSE server' = server /\ NextRestoreStep("permissions")
    /\ UNCHANGED <<services, packing, packed, changes, restores>>

ImportDatabase ==
    /\ restore.pc = "import"
    /\ server' = [server EXCEPT ![Database] = Content(Database)]
    /\ NextRestoreStep("permissions")
    /\ UNCHANGED <<services, packing, packed, changes, restores>>

\* chown and chmod, which may fail; then the services start again.
ApplyPermissions ==
    /\ restore.pc = "permissions"
    /\ services' = (services \/ restore.control)
    /\ NextRestoreStep("done")
    /\ UNCHANGED <<server, packing, packed, changes, restores>>

\* A step fails or the run is killed: nothing is undone.
FailRestore ==
    /\ Restoring
    /\ restore' = [NoRestore EXCEPT !.pc = "failed", !.control = restore.control,
                      !.left = restore.left, !.alone = restore.alone]
    /\ UNCHANGED <<server, services, packing, packed, changes, restores>>

-----------------------------------------------------------------------------

LiveRestoreInit ==
    /\ server = [p \in Parts |-> 0]
    /\ services = TRUE
    /\ packing = NoBackup /\ packed = << >>
    /\ restore = NoRestore
    /\ changes = 0 /\ restores = 0

LiveRestoreNext ==
    \/ Rewrite \/ StartServices \/ Rebuild
    \/ DumpDatabaseTo \/ AddPath \/ FinishBackup \/ FailBackup
    \/ RestoreWithKey \/ StopServices \/ SkipMapping \/ OpenTarget \/ CopyFile
    \/ BeginImportDatabase \/ ImportDatabase \/ ApplyPermissions \/ FailRestore

LiveRestoreSpec == LiveRestoreInit /\ [][LiveRestoreNext]_liveRestoreVars

-----------------------------------------------------------------------------

LiveRestoreTypeOK ==
    /\ \A p \in Parts : server[p] \in 0..MaxChanges \cup {Absent, Cut}
    /\ server[Database] # Absent
    /\ services \in BOOLEAN
    /\ packing.pc \in {"idle", "add"}
    /\ \A a \in DOMAIN packed : DOMAIN packed[a].content = Parts
    /\ restore.from \in {0} \cup DOMAIN packed
    /\ changes \in 0..MaxChanges /\ restores \in 0..MaxRestores

\* A restore that ended well with nobody beside it left every file of the
\* archive, and the database if it was asked for, as the archive has them,
\* whatever failed attempts or rebuilt server it found; and
\* if nothing changed while that backup was packed, that is the server as it
\* was then, but for links and for files that did not exist then.  From the
\* first file to the end, and after a failure, the services it stopped are
\* down: what is half restored is not served.
RestoreIsWhole ==
    restore.alone =>
      /\ restore.pc = "done" =>
           \A p \in Parts :
             Content(p) # Absent /\ (p = Database => restore.import)
               => /\ server[p] = Content(p)
                  /\ packed[restore.from].quiet => server[p] = packed[restore.from].began[p]
      /\ restore.control /\ restore.pc \notin {"none", "stop", "done"}
           => ~services \/ restore.left = Sources

=============================================================================
