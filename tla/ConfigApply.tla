----------------------------- MODULE ConfigApply -----------------------------
(***************************************************************************)
(* Settings become configuration files and the files become what the       *)
(* services run: a change of the mail server settings is stored, an apply  *)
(* is requested, and a run of the privileged helper renders, installs,     *)
(* tests and loads.  The drift report compares files with settings.        *)
(*                                                                         *)
(*   internal/admin/handlers.go, sql_store.go   settings, request, report  *)
(*   cmd/mailctl/main.go                        render, sync-proxy         *)
(*   internal/configdrift/drift.go              the comparison             *)
(*   deploy/devmail/apply-mail-config.sh        install, check, restart    *)
(*                                                                         *)
(* Runs are started by the config-apply unit and by the TLS worker; they   *)
(* share one directory of rendered files, one temporary name per file and  *)
(* the live files, and no lock.  A run may fail or be killed at any step.  *)
(* A file's content is the version of the settings it was rendered from.   *)
(***************************************************************************)
EXTENDS Naturals, Sequences, SequencesExt

CONSTANTS
    Runners,      \* the units that run the helper
    TlsWorkers,   \* those of them that process certificate jobs
    MailFiles,    \* files of Postfix, Dovecot and Rspamd, in install order
    LateFiles,    \* those rendered from rows read after the settings
    ProxyFiles,   \* files of nginx, in the order they are written
    Blank, Mixed, \* a truncated file; one written by two runs at once
    Nothing,      \* no such file
    MaxSettings,  \* bound: changes of the settings
    MaxRuns       \* bound: runs of the helper

ASSUME ConfigApplyAssumptions ==
    /\ MaxSettings \in Nat /\ MaxRuns \in Nat /\ TlsWorkers \subseteq Runners
    /\ {Blank, Mixed, Nothing} \intersect Nat = {} /\ Nothing \notin {Blank, Mixed}
    /\ MailFiles \in Seq(ToSet(MailFiles)) /\ ProxyFiles \in Seq(ToSet(ProxyFiles))
    /\ ToSet(MailFiles) \intersect ToSet(ProxyFiles) = {}

VARIABLES
    settings,     \* version of the stored settings; 0: the environment's
    requested,    \* an apply was requested and not started yet
    generated,    \* the rendered mail files
    temp,         \* path.tmp of every proxy file
    live,         \* the installed files
    loaded,       \* what the services read at their last start or reload
    runner,       \* unit -> the run it executes
    runs          \* runs so far

configVars == <<settings, requested, generated, temp, live, loaded, runner, runs>>

Mail == ToSet(MailFiles)
Proxy == ToSet(ProxyFiles)

Stopped == [pc |-> "stopped", seen |-> 0, left |-> << >>, quiet |-> FALSE, skipped |-> FALSE]

RunnerBusy(p) == runner[p].pc \notin {"stopped", "done", "failed"}

Disturbed(rs) == [p \in Runners |-> [rs[p] EXCEPT !.quiet = FALSE]]

-----------------------------------------------------------------------------
(* Settings and the request.                                               *)

\* The row is written, then the request file, which may fail.
UpdateMailServerSettings ==
    /\ settings < MaxSettings
    /\ settings' = settings + 1
    /\ \E queued \in BOOLEAN : requested' = (requested \/ queued)
    /\ runner' = Disturbed(runner)
    /\ UNCHANGED <<generated, temp, live, loaded, runs>>

\* The administrator asks for an apply after a look at the report.
ApplyConfigDrift ==
    /\ ~requested
    /\ requested' = TRUE
    /\ UNCHANGED <<settings, generated, temp, live, loaded, runner, runs>>

-----------------------------------------------------------------------------
(* One run.  The unit: apply-mail-config, which begins with mailctl render *)
(* and installs, then mailctl sync-proxy.  The TLS worker, at the end of a *)
(* job: sync-proxy, mailctl render, apply-mail-config.                     *)

BeginsWith(p) == IF p \in TlsWorkers THEN "proxy" ELSE "read"
AfterMail(p) == IF p \in TlsWorkers THEN "done" ELSE "proxy"
AfterProxy(p) == IF p \in TlsWorkers THEN "prepare" ELSE "done"

\* The path unit starts its service once for the requests made while it does
\* not run; the TLS worker needs no request.  (systemd)
Start(p) ==
    /\ ~RunnerBusy(p)
    /\ runs < MaxRuns
    /\ runs' = runs + 1
    /\ requested' = (requested /\ p \in TlsWorkers)
    /\ LET alone == \A q \in Runners \ {p} : ~RunnerBusy(q)
       IN  runner' = [Disturbed(runner) EXCEPT
                        ![p] = [Stopped EXCEPT !.pc = BeginsWith(p), !.quiet = alone]]
    /\ UNCHANGED <<settings, generated, temp, live, loaded>>

NextRunStep(p, pc, left) == runner' = [runner EXCEPT ![p].pc = pc, ![p].left = left]

ReadSettings(p) ==
    /\ runner[p].pc \in {"prepare", "read"}
    /\ runner' = [runner EXCEPT ![p].pc = IF @ = "read" THEN "render" ELSE "draft",
                                ![p].seen = settings, ![p].left = MailFiles]
    /\ UNCHANGED <<settings, requested, generated, temp, live, loaded, runs>>

Rendered(p, f) == IF f \in LateFiles THEN settings ELSE runner[p].seen

RenderMailFile(p) ==
    /\ runner[p].pc \in {"draft", "render"} /\ runner[p].left # << >>
    /\ LET f == Head(runner[p].left)
       IN  generated' = [generated EXCEPT ![f] = Rendered(p, f)]
    /\ NextRunStep(p, runner[p].pc, Tail(runner[p].left))
    /\ UNCHANGED <<settings, requested, temp, live, loaded, runs>>

\* The worker's own render is over; apply-mail-config renders again.
EndRender(p) ==
    /\ runner[p].pc = "draft" /\ runner[p].left = << >>
    /\ NextRunStep(p, "read", << >>)
    /\ UNCHANGED <<settings, requested, generated, temp, live, loaded, runs>>

BeginInstall(p) ==
    /\ runner[p].pc = "render" /\ runner[p].left = << >>
    /\ NextRunStep(p, "install", MailFiles)
    /\ UNCHANGED <<settings, requested, generated, temp, live, loaded, runs>>

\* Variant: a file that is already installed is kept.
InstallMissing(p, f) == IF live[f] = Nothing THEN generated[f] ELSE live[f]

\* What ends up in the live file.
Install(p, f) == generated[f]

InstallMailFile(p) ==
    /\ runner[p].pc = "install" /\ runner[p].left # << >>
    /\ LET f == Head(runner[p].left)
       IN  live' = [live EXCEPT ![f] = Install(p, f)]
    /\ NextRunStep(p, "install", Tail(runner[p].left))
    /\ UNCHANGED <<settings, requested, generated, temp, loaded, runs>>

\* postfix check, doveconf and rspamadm configtest pass, and the services
\* restart with the files as they are by then.
RestartMail(p) ==
    /\ runner[p].pc = "install" /\ runner[p].left = << >>
    /\ \A f \in Mail : live[f] \notin {Blank, Mixed, Nothing}
    /\ loaded' = [f \in DOMAIN loaded |-> IF f \in Mail THEN live[f] ELSE loaded[f]]
    /\ NextRunStep(p, AfterMail(p), << >>)
    /\ UNCHANGED <<settings, requested, generated, temp, live, runs>>

\* The settings are read for the proxy; an error is logged, and the
\* environment's values are used instead.
LoadProxyMailServerSettings(p) ==
    /\ runner[p].pc = "proxy"
    /\ \E skipped \in BOOLEAN :
         runner' = [runner EXCEPT ![p].pc = "open", ![p].skipped = skipped,
                                  ![p].seen = IF skipped THEN 0 ELSE settings,
                                  ![p].left = ProxyFiles]
    /\ UNCHANGED <<settings, requested, generated, temp, live, loaded, runs>>

\* os.WriteFile truncates path.tmp and writes; then it is renamed.
OpenTemp(p) ==
    /\ runner[p].pc = "open" /\ runner[p].left # << >>
    /\ temp' = [temp EXCEPT ![Head(runner[p].left)] = Blank]
    /\ NextRunStep(p, "fill", runner[p].left)
    /\ UNCHANGED <<settings, requested, generated, live, loaded, runs>>

\* If another run has renamed the file meanwhile, the write goes to the live
\* file; if it has written too, the contents mix.
FillTemp(p) ==
    /\ runner[p].pc = "fill"
    /\ LET f == Head(runner[p].left)
           Onto(old) == IF old = Blank \/ old = runner[p].seen THEN runner[p].seen ELSE Mixed
       IN  IF temp[f] = Nothing
           THEN live' = [live EXCEPT ![f] = Onto(@)] /\ temp' = temp
           ELSE temp' = [temp EXCEPT ![f] = Onto(@)] /\ live' = live
    /\ NextRunStep(p, "rename", runner[p].left)
    /\ UNCHANGED <<settings, requested, generated, loaded, runs>>

RenameTemp(p) ==
    /\ runner[p].pc = "rename"
    /\ LET f == Head(runner[p].left)
       IN  /\ temp[f] # Nothing
           /\ live' = [live EXCEPT ![f] = temp[f]]
           /\ temp' = [temp EXCEPT ![f] = Nothing]
    /\ NextRunStep(p, "open", Tail(runner[p].left))
    /\ UNCHANGED <<settings, requested, generated, loaded, runs>>

TestNginx(p) ==
    /\ runner[p].pc = "open" /\ runner[p].left = << >>
    /\ \A f \in Proxy : live[f] \notin {Blank, Mixed, Nothing}
    /\ NextRunStep(p, "reload", << >>)
    /\ UNCHANGED <<settings, requested, generated, temp, live, loaded, runs>>

ReloadNginx(p) ==
    /\ runner[p].pc = "reload"
    /\ loaded' = [f \in DOMAIN loaded |-> IF f \in Proxy THEN live[f] ELSE loaded[f]]
    /\ NextRunStep(p, AfterProxy(p), << >>)
    /\ UNCHANGED <<settings, requested, generated, temp, live, runs>>

\* A step fails, or the run is killed: everything stays as it is.
FailRun(p) ==
    /\ RunnerBusy(p)
    /\ NextRunStep(p, "failed", << >>)
    /\ UNCHANGED <<settings, requested, generated, temp, live, loaded, runs>>

-----------------------------------------------------------------------------
(* The report.                                                             *)

CompareOne(f, desired) == CASE live[f] = Nothing -> "missing_live"
                            [] live[f] = desired -> "match"
                            [] OTHER -> "drift"

\* Status of a report rendered from the settings as they are.
Report == IF \A f \in Mail \cup Proxy : CompareOne(f, settings) = "match" THEN "ok" ELSE "drift"

-----------------------------------------------------------------------------

ConfigInit ==
    /\ settings = 0
    /\ requested = FALSE
    /\ generated = [f \in Mail |-> Nothing]
    /\ temp = [f \in Proxy |-> Nothing]
    /\ live = [f \in Mail \cup Proxy |-> Nothing]
    /\ loaded = [f \in Mail \cup Proxy |-> Nothing]
    /\ runner = [p \in Runners |-> Stopped]
    /\ runs = 0

ConfigNext ==
    \/ UpdateMailServerSettings
    \/ ApplyConfigDrift
    \/ \E p \in Runners :
         \/ Start(p) \/ ReadSettings(p) \/ RenderMailFile(p) \/ EndRender(p) \/ BeginInstall(p)
         \/ InstallMailFile(p) \/ RestartMail(p)
         \/ LoadProxyMailServerSettings(p) \/ OpenTemp(p) \/ FillTemp(p) \/ RenameTemp(p)
         \/ TestNginx(p) \/ ReloadNginx(p) \/ FailRun(p)

ConfigSpec == ConfigInit /\ [][ConfigNext]_configVars

-----------------------------------------------------------------------------

ConfigTypeOK ==
    /\ settings \in 0..MaxSettings
    /\ runs \in 0..MaxRuns
    /\ \A f \in Mail : generated[f] \in 0..MaxSettings \cup {Nothing}
    /\ \A f \in Proxy : temp[f] \in 0..MaxSettings \cup {Nothing, Blank, Mixed}
    /\ \A f \in Mail \cup Proxy : live[f] \in 0..MaxSettings \cup {Nothing, Blank, Mixed}

\* A run that ended well, with no other run beside it and no change of the
\* settings since it began, leaves a server without drift whose services
\* run what is installed, whatever earlier runs left behind: half-rendered
\* directories, half-installed or mixed files, temporary files.  Only the
\* files of nginx may be the environment's, when the settings could not be
\* read.
QuietRunIsCurrent ==
    \A p \in Runners :
      runner[p].pc = "done" /\ runner[p].quiet
        => /\ \A f \in Mail : CompareOne(f, settings) = "match"
           /\ runner[p].skipped \/ Report = "ok"
           /\ loaded = live

=============================================================================
