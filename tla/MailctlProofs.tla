----------------------------- MODULE MailctlProofs -----------------------------
(***************************************************************************)
(* Proofs about what the panel leaves to other processes:                  *)
(*                                                                         *)
(*   TlsJobs     for any number of overlapping workers: types, that they   *)
(*               stay apart, that a success is served and recorded, and    *)
(*               that the table is a JobQueue                              *)
(*   Quarantine  for any number of events and resolutions and any          *)
(*               assignment of Message-IDs, tenants and recipients: types, *)
(*               that rows, files and audit entries agree, that copies and *)
(*               held messages stay, and that it implements Resolution     *)
(*                                                                         *)
(* The two share no state.                                                 *)
(***************************************************************************)
EXTENDS TlsJobs, Quarantine, TLAPS

-----------------------------------------------------------------------------
(* TLS jobs: the inductive invariant.                                      *)

\* A worker past its claim holds a job that the table shows as running.
BusyIsRunning ==
    \A w \in Workers :
        worker[w].pc \in Busy => job[worker[w].job].status = "running"

Holding == /\ WorkersOK /\ OneWorkerPerJob /\ RunningIsHeldOrLost
           /\ BusyIsRunning

\* No certificate is older than one issued before: what a worker has loaded
\* into the proxy and the services, if they take any, is at least what its job
\* issued.
ServedSoFar ==
    /\ \A j \in Jobs : cert >= issued[j]
    /\ cert >= web /\ (mail = None \/ cert >= mail)
    /\ \A w \in Workers :
          /\ worker[w].pc \in {"services", "finish"} => web >= issued[worker[w].job]
          /\ worker[w].pc = "finish" => mail = None \/ mail >= issued[worker[w].job]

Serving == ServedSoFar /\ SucceededIsServed

JobsIInv == TablesOK /\ Holding /\ Serving

-----------------------------------------------------------------------------
(* Who holds which job.                                                    *)

\* The steps at which a worker holds a job.
LEMMA BusyPCs == Busy \subseteq PCs /\ "stopped" \notin Busy /\ "select" \notin Busy
  BY DEF Busy, PCs

\* A stopped worker is well formed.
LEMMA StoppedFits == /\ Stopped \in Places /\ Fits(Stopped)
                     /\ Stopped.pc = "stopped"
  BY JobAssumptions DEF Stopped, Places, PCs, Certs, Fits

\* What is known of a worker with a job.
LEMMA PlaceFacts ==
  ASSUME TablesOK, Holding, NEW w \in Workers
  PROVE  /\ worker[w] \in Places
         /\ worker[w].pc \notin {"stopped", "select"} =>
               /\ worker[w].job \in Jobs
               /\ job[worker[w].job] \in Rows
  BY JobAssumptions DEF TablesOK, Holding, WorkersOK, Fits, Jobs, Rows

\* One worker moves on: with the job it had, or to hold none as before.
LEMMA MoveKeeps ==
  ASSUME TablesOK, Holding, NEW w \in Workers, NEW r \in Places, Fits(r),
         Become(w, r), UNCHANGED <<job, jobs, lost>>,
         r.pc \in Busy <=> worker[w].pc \in Busy,
         r.pc \in Busy => r.job = worker[w].job
  PROVE  Holding'
<1>1. /\ worker' \in [Workers -> Places]
      /\ worker'[w] = r
      /\ \A v \in Workers \ {w} : worker'[v] = worker[v]
  BY DEF Become, Holding, WorkersOK
<1>2. WorkersOK'
  BY <1>1 DEF Holding, WorkersOK, Fits
<1>3. OneWorkerPerJob'
  BY <1>1 DEF Holding, OneWorkerPerJob
<1>4. RunningIsHeldOrLost'
  BY <1>1 DEF Holding, RunningIsHeldOrLost
<1>5. BusyIsRunning'
  BY <1>1 DEF Holding, BusyIsRunning
<1> QED BY <1>2, <1>3, <1>4, <1>5 DEF Holding

\* One worker lets its job go: answered, or lost.
LEMMA ReleaseKeeps ==
  ASSUME TablesOK, Holding, NEW w \in Workers, NEW r \in Places, Fits(r),
         Become(w, r), r.pc \notin Busy,
         UNCHANGED jobs, lost \subseteq lost',
         \A j \in Jobs : \/ job'[j] = job[j]
                         \/ worker[w].pc \in Busy /\ j = worker[w].job,
         worker[w].pc \in Busy =>
             \/ worker[w].job \in lost'
             \/ job'[worker[w].job].status # "running"
  PROVE  Holding'
<1>1. /\ worker' \in [Workers -> Places]
      /\ worker'[w] = r
      /\ \A v \in Workers \ {w} : worker'[v] = worker[v]
  BY DEF Become, Holding, WorkersOK
<1>2. WorkersOK'
  BY <1>1 DEF Holding, WorkersOK, Fits
<1>3. OneWorkerPerJob'
  BY <1>1 DEF Holding, OneWorkerPerJob
<1>4. RunningIsHeldOrLost'
  BY <1>1 DEF Holding, RunningIsHeldOrLost
<1>5. BusyIsRunning'
  <2> SUFFICES ASSUME NEW v \in Workers \ {w}, worker[v].pc \in Busy
               PROVE  job'[worker[v].job].status = "running"
    BY <1>1 DEF BusyIsRunning
  <2>1. worker[v].job \in Jobs
    BY BusyPCs, PlaceFacts
  <2>2. job'[worker[v].job] = job[worker[v].job]
    BY <2>1 DEF Holding, OneWorkerPerJob
  <2> QED BY <2>2 DEF Holding, BusyIsRunning
<1> QED BY <1>2, <1>3, <1>4, <1>5 DEF Holding

\* So is one that begins a round.
LEMMA SelectFits ==
  ASSUME NEW d \in 0..(Limit - 1)
  PROVE  /\ Selecting(d) \in Places /\ Fits(Selecting(d))
         /\ Selecting(d).pc = "select"
  BY JobAssumptions DEF Selecting, Places, PCs, Certs, Fits

\* An UPDATE of a job's status changes this row, and nothing else of it.
LEMMA SetStatusKeeps ==
  ASSUME TablesOK, NEW j \in Jobs, job[j] \in Rows,
         NEW status \in Statuses, SetStatus(j, status)
  PROVE  /\ job' \in [Jobs -> Rows \cup {None}]
         /\ \A k \in Jobs : job'[k] # None <=> job[k] # None
         /\ job'[j].status = status
         /\ \A k \in Jobs \ {j} : job'[k] = job[k]
  BY JobAssumptions DEF TablesOK, SetStatus, Rows

\* So is one that goes on to its next round or stops.
LEMMA NextRoundFits ==
  ASSUME TablesOK, Holding, NEW w \in Workers, NextRound(w)
  PROVE  \E r \in Places : Fits(r) /\ Become(w, r) /\ r.pc \notin Busy
<1> DEFINE done == worker[w].done + 1
<1>1. CASE done < Limit
  <2>1. done \in 0..(Limit - 1)
    BY <1>1, JobAssumptions DEF Holding, WorkersOK, Places
  <2> QED BY <1>1, <2>1, SelectFits, BusyPCs DEF NextRound
<1>2. CASE ~(done < Limit)
  BY <1>2, StoppedFits, BusyPCs DEF NextRound, Stop
<1> QED BY <1>1, <1>2

\* Going on with the same job.
LEMMA GotoKeeps ==
  ASSUME TablesOK, Holding, NEW w \in Workers, NEW label \in Busy,
         Goto(w, label), worker[w].pc \in Busy, UNCHANGED <<job, jobs, lost>>
  PROVE  Holding'
<1> DEFINE r == [worker[w] EXCEPT !.pc = label]
<1>1. r \in Places /\ r.pc = label /\ r.job = worker[w].job
  BY PlaceFacts, BusyPCs DEF Places
<1>2. Fits(r)
  BY <1>1, BusyPCs DEF Holding, WorkersOK, Fits
<1> QED BY <1>1, <1>2, MoveKeeps DEF Goto

-----------------------------------------------------------------------------
(* One lemma per action.                                                   *)

\* A new job is queued: no worker holds it.
LEMMA KeepsCreate ==
  ASSUME JobsIInv, NEW kind \in Kinds, Create(kind)
  PROVE  JobsIInv'
<1>1. TablesOK'
  BY JobAssumptions DEF JobsIInv, Create, TablesOK, Rows, Statuses, Jobs, files,
                        history
<1>2. Holding'
  <2>1. /\ jobs' \in Jobs /\ jobs \in Nat /\ jobs' = jobs + 1
        /\ job'[jobs'].status = "queued"
        /\ \A k \in Jobs \ {jobs'} : job'[k] = job[k]
    BY JobAssumptions DEF JobsIInv, Create, TablesOK, Jobs
  <2>2. ASSUME NEW w \in Workers, worker[w].pc \in Busy
        PROVE  worker[w].job \in Jobs \ {jobs'}
    BY <2>1, <2>2, PlaceFacts, BusyPCs DEF JobsIInv, Holding, WorkersOK, Fits
  <2>3. WorkersOK'
    BY <2>1 DEF JobsIInv, Create, Holding, WorkersOK, Fits
  <2>4. OneWorkerPerJob'
    BY DEF JobsIInv, Create, Holding, OneWorkerPerJob
  <2>5. RunningIsHeldOrLost'
    BY <2>1 DEF JobsIInv, Create, Holding, RunningIsHeldOrLost, history
  <2>6. BusyIsRunning'
    BY <2>1, <2>2 DEF JobsIInv, Create, Holding, BusyIsRunning
  <2> QED BY <2>3, <2>4, <2>5, <2>6 DEF Holding
<1>3. Serving'
  BY JobAssumptions DEF JobsIInv, Create, Serving, ServedSoFar, SucceededIsServed,
                        files, history, TablesOK, Jobs, Certs
<1> QED BY <1>1, <1>2, <1>3 DEF JobsIInv

\* A worker starts with no job.
LEMMA KeepsStart ==
  ASSUME JobsIInv, NEW w \in Workers, Start(w)
  PROVE  JobsIInv'
<1>1. TablesOK'
  BY DEF JobsIInv, Start, TablesOK, files, history
<1>2. Holding'
  <2>1. 0 \in 0..(Limit - 1)
    BY JobAssumptions
  <2> QED BY <2>1, SelectFits, MoveKeeps, BusyPCs DEF JobsIInv, Start, At, history
<1>3. Serving'
  <2>1. ServedSoFar'
    BY PlaceFacts DEF JobsIInv, Serving, ServedSoFar, Start, Become, Selecting,
                      files, history, Holding, WorkersOK, Places, At
  <2>2. SucceededIsServed'
    BY DEF JobsIInv, Serving, SucceededIsServed, Start, files, history, At
  <2> QED BY <2>1, <2>2 DEF Serving
<1> QED BY <1>1, <1>2, <1>3 DEF JobsIInv

\* The job selected is not held yet: that takes the claim.
LEMMA KeepsSelect ==
  ASSUME JobsIInv, NEW w \in Workers, Select(w)
  PROVE  JobsIInv'
<1>1. TablesOK'
  BY DEF JobsIInv, Select, TablesOK, files, history
<1>2. Holding'
  <2>1. CASE Stop(w)
    BY <2>1, StoppedFits, MoveKeeps, BusyPCs DEF JobsIInv, Select, At, Stop, history
  <2>2. ASSUME NEW j \in Jobs, Queued(j),
               Become(w, [worker[w] EXCEPT !.pc = "claim", !.job = j])
        PROVE  Holding'
    <3> DEFINE r == [worker[w] EXCEPT !.pc = "claim", !.job = j]
    <3>1. r \in Places /\ r.pc = "claim" /\ r.job = j
      BY PlaceFacts DEF JobsIInv, Places, PCs
    <3>2. Fits(r)
      BY <2>2, <3>1 DEF JobsIInv, Fits, Queued, TablesOK, Jobs
    <3>3. "claim" \notin Busy
      BY DEF Busy
    <3> QED BY <2>2, <3>1, <3>2, <3>3, MoveKeeps, BusyPCs DEF JobsIInv, Select,
                                                              At, history
  <2> QED BY <2>1, <2>2 DEF Select
<1>3. Serving'
  <2>1. ServedSoFar'
    <3>1. /\ worker'[w].pc \in {"stopped", "claim"}
          /\ \A v \in Workers \ {w} : worker'[v] = worker[v]
      <4>1. PICK r : Become(w, r) /\ r.pc \in {"stopped", "claim"}
        <5>1. CASE Stop(w)
          BY <5>1, StoppedFits DEF Stop
        <5>2. ASSUME NEW j \in Jobs,
                     Become(w, [worker[w] EXCEPT !.pc = "claim", !.job = j])
              PROVE  \E r : Become(w, r) /\ r.pc \in {"stopped", "claim"}
          <6> DEFINE r == [worker[w] EXCEPT !.pc = "claim", !.job = j]
          <6>1. r.pc = "claim"
            BY PlaceFacts DEF JobsIInv, Places
          <6> QED BY <5>2, <6>1
        <5> QED BY <5>1, <5>2 DEF Select
      <4> QED BY <4>1 DEF JobsIInv, Become, Holding, WorkersOK
    <3> QED BY <3>1 DEF JobsIInv, Serving, ServedSoFar, Select, files, history
  <2>2. SucceededIsServed'
    BY DEF JobsIInv, Serving, SucceededIsServed, Select, files, history, At
  <2> QED BY <2>1, <2>2 DEF Serving
<1> QED BY <1>1, <1>2, <1>3 DEF JobsIInv

\* The claim changes the row of a queued job, so no other worker holds it.
LEMMA KeepsClaim ==
  ASSUME JobsIInv, NEW w \in Workers, Claim(w)
  PROVE  JobsIInv'
<1> DEFINE j == worker[w].job
<1>1. TablesOK'
  <2>1. worker[w].job \in Jobs /\ job[worker[w].job] \in Rows
    BY PlaceFacts DEF JobsIInv, Claim, At
  <2>2. /\ job' \in [Jobs -> Rows \cup {None}]
        /\ \A k \in Jobs : job'[k] # None <=> job[k] # None
    BY <2>1, SetStatusKeeps DEF JobsIInv, Claim, Statuses, TablesOK
  <2>3. Others(w) \subseteq Jobs
    BY PlaceFacts, BusyPCs DEF JobsIInv, Others
  <2>4. excused' \subseteq Jobs
    BY <2>1, <2>3 DEF JobsIInv, Claim, TablesOK
  <2> QED BY <2>2, <2>4 DEF JobsIInv, Claim, TablesOK, files
<1>2. Holding'
  <2>1. CASE Queued(j)
    <3> DEFINE r == [worker[w] EXCEPT !.pc = "work"]
    <3>1. r \in Places /\ r.pc = "work" /\ r.job = j /\ "work" \in Busy
      BY PlaceFacts DEF JobsIInv, Places, PCs, Busy
    <3>2. /\ worker' \in [Workers -> Places]
          /\ worker'[w] = r
          /\ \A v \in Workers \ {w} : worker'[v] = worker[v]
      BY <2>1, <3>1 DEF JobsIInv, Claim, Goto, Become, Holding, WorkersOK
    <3>3. /\ j \in Jobs /\ job[j] \in Rows /\ job[j].status = "queued"
          /\ job'[j].status = "running"
          /\ \A k \in Jobs \ {j} : job'[k] = job[k]
      BY <2>1, PlaceFacts DEF JobsIInv, Claim, At, Queued, SetStatus, TablesOK, Rows
    <3>4. ASSUME NEW v \in Workers \ {w}, worker[v].pc \in Busy
          PROVE  worker[v].job \in Jobs /\ worker[v].job # j
      BY <3>3, <3>4, PlaceFacts, BusyPCs DEF JobsIInv, Holding, BusyIsRunning
    <3>5. WorkersOK'
      BY <2>1, <3>1, <3>2 DEF JobsIInv, Claim, At, Holding, WorkersOK, Fits
    <3>6. OneWorkerPerJob'
      BY ZenonT(40), <3>1, <3>2, <3>4 DEF JobsIInv, Holding, OneWorkerPerJob
    <3>7. RunningIsHeldOrLost'
      <4>1. UNCHANGED lost
        BY DEF Claim, history
      <4>2. "claim" \notin Busy /\ worker[w].pc = "claim"
        BY DEF Claim, At, Busy
      <4> SUFFICES ASSUME NEW k \in Jobs, job'[k] # None, job'[k].status = "running",
                          k \notin lost
                   PROVE  \E v \in Workers : worker'[v].pc \in Busy /\ worker'[v].job = k
        BY <4>1 DEF RunningIsHeldOrLost
      <4>3. CASE k = j
        BY <3>1, <3>2, <4>3
      <4>4. CASE k # j
        <5>1. PICK v \in Workers : worker[v].pc \in Busy /\ worker[v].job = k
          BY <3>3, <4>4 DEF JobsIInv, Holding, RunningIsHeldOrLost
        <5> QED BY <3>2, <4>2, <5>1
      <4> QED BY <4>3, <4>4
    <3>8. BusyIsRunning'
      <4>1. ASSUME NEW v \in Workers \ {w}, worker[v].pc \in Busy
            PROVE  job'[worker[v].job].status = "running"
        <5>1. worker[v].job \in Jobs \ {j}
          BY <3>4, <4>1
        <5>2. job[worker[v].job].status = "running"
          BY <4>1 DEF JobsIInv, Holding, BusyIsRunning
        <5> QED BY <3>3, <5>1, <5>2
      <4>2. job'[worker'[w].job].status = "running"
        BY <3>1, <3>2, <3>3
      <4>3. ASSUME NEW v \in Workers \ {w}, worker'[v].pc \in Busy
            PROVE  job'[worker'[v].job].status = "running"
        BY <3>2, <4>1, <4>3
      <4> QED BY <4>2, <4>3 DEF BusyIsRunning
    <3> QED BY <3>5, <3>6, <3>7, <3>8 DEF Holding
  <2>2. CASE ~Queued(j)
    <3>1. "claim" \notin Busy
      BY DEF Busy
    <3> QED BY <2>2, <3>1, StoppedFits, MoveKeeps, BusyPCs DEF JobsIInv, Claim,
                                                               At, Stop, history
  <2> QED BY <2>1, <2>2
<1>3. Serving'
  <2>1. ServedSoFar'
    BY PlaceFacts DEF JobsIInv, Serving, ServedSoFar, Claim, Become, Goto, Stop,
                      Stopped, files, history, Holding, WorkersOK, Places
  <2>2. SucceededIsServed'
    BY PlaceFacts DEF JobsIInv, Serving, SucceededIsServed, Claim, SetStatus,
                      files, history, At, TablesOK, Rows
  <2> QED BY <2>1, <2>2 DEF Serving
<1> QED BY <1>1, <1>2, <1>3 DEF JobsIInv

\* A failure is answered: the row leaves running as the worker lets it go.
LEMMA KeepsFail ==
  ASSUME JobsIInv, NEW w \in Workers, Fail(w)
  PROVE  JobsIInv'
<1>1. TablesOK'
  <2>1. worker[w].job \in Jobs /\ job[worker[w].job] \in Rows
    BY PlaceFacts DEF JobsIInv, Fail, At
  <2>2. /\ job' \in [Jobs -> Rows \cup {None}]
        /\ \A k \in Jobs : job'[k] # None <=> job[k] # None
    BY <2>1, SetStatusKeeps DEF JobsIInv, Fail, Statuses, TablesOK
  <2> QED BY <2>1, <2>2 DEF JobsIInv, Fail, TablesOK, files, history
<1>2. Holding'
  <2>1. PICK r \in Places : Fits(r) /\ Become(w, r) /\ r.pc \notin Busy
    BY NextRoundFits DEF JobsIInv, Fail
  <2>2. /\ worker[w].pc \in Busy
        /\ lost \subseteq lost' /\ UNCHANGED jobs
        /\ \A k \in Jobs : job'[k] = job[k] \/ k = worker[w].job
        /\ worker[w].job \in lost' \/ job'[worker[w].job].status # "running"
    BY PlaceFacts DEF JobsIInv, Fail, At, Busy, PCs, SetStatus, TablesOK, Rows,
                      history
  <2> QED BY <2>1, <2>2, ReleaseKeeps DEF JobsIInv
<1>3. Serving'
  <2>1. ServedSoFar'
    <3>1. PICK r \in Places : Become(w, r) /\ r.pc \notin Busy
      BY NextRoundFits DEF JobsIInv, Fail
    <3> QED BY <3>1 DEF JobsIInv, Serving, ServedSoFar, Fail, Become, Busy, PCs,
                        files, history, Holding, WorkersOK
  <2>2. SucceededIsServed'
    BY PlaceFacts DEF JobsIInv, Serving, ServedSoFar, SucceededIsServed, Fail,
                      SetStatus, At, files, history, TablesOK, Rows
  <2> QED BY <2>1, <2>2 DEF Serving
<1> QED BY <1>1, <1>2, <1>3 DEF JobsIInv

\* A worker that cannot write its answer leaves the job lost.
LEMMA KeepsGiveUp ==
  ASSUME JobsIInv, NEW w \in Workers, GiveUp(w)
  PROVE  JobsIInv'
<1>1. TablesOK'
  BY DEF JobsIInv, GiveUp, TablesOK, files, history
<1>2. Holding'
  <2>1. worker[w].pc \in Busy /\ "fail" \in Busy
    BY DEF GiveUp, Failing, Busy, PCs
  <2> QED BY <2>1, GotoKeeps DEF JobsIInv, GiveUp, history
<1>3. Serving'
  <2>1. ServedSoFar'
    BY PlaceFacts DEF JobsIInv, Serving, ServedSoFar, GiveUp, Become, Goto, Stop,
                      Stopped, files, history, Holding, WorkersOK, Places
  <2>2. SucceededIsServed'
    BY DEF JobsIInv, Serving, SucceededIsServed, GiveUp, files, history
  <2> QED BY <2>1, <2>2 DEF Serving
<1> QED BY <1>1, <1>2, <1>3 DEF JobsIInv

\* From the claim to the command the worker keeps its job.
LEMMA KeepsWork ==
  ASSUME JobsIInv, NEW w \in Workers, Work(w)
  PROVE  JobsIInv'
<1>1. TablesOK'
  BY DEF JobsIInv, Work, TablesOK, files, history
<1>2. Holding'
  <2>1. worker[w].pc \in Busy /\ "sync" \in Busy
    BY DEF Work, At, Busy, PCs
  <2> QED BY <2>1, GotoKeeps DEF JobsIInv, Work, history
<1>3. Serving'
  <2>1. ServedSoFar'
    BY PlaceFacts DEF JobsIInv, Serving, ServedSoFar, Work, Become, Goto, Stop,
                      Stopped, files, history, Holding, WorkersOK, Places
  <2>2. SucceededIsServed'
    BY DEF JobsIInv, Serving, SucceededIsServed, Work, files, history
  <2> QED BY <2>1, <2>2 DEF Serving
<1> QED BY <1>1, <1>2, <1>3 DEF JobsIInv

\* The certificate on disk grows newer, never older.
LEMMA KeepsCertbot ==
  ASSUME JobsIInv, NEW w \in Workers, Certbot(w)
  PROVE  JobsIInv'
<1>1. TablesOK'
  <2>1. cert' \in Certs
    BY JobAssumptions DEF JobsIInv, Certbot, TablesOK, Certs
  <2> QED BY <2>1, PlaceFacts DEF JobsIInv, Certbot, At, TablesOK
<1>2. Holding'
  <2>1. worker[w].pc \in Busy /\ "issued" \in Busy
    BY DEF Certbot, At, Busy, PCs
  <2> QED BY <2>1, GotoKeeps DEF JobsIInv, Certbot, history
<1>3. Serving'
  <2>1. /\ worker[w].job \in Jobs /\ job[worker[w].job].status = "running"
        /\ \A v \in Workers : v # w /\ worker[v].pc \in Busy => worker[v].job # worker[w].job
    BY PlaceFacts DEF JobsIInv, Holding, BusyIsRunning, OneWorkerPerJob, Certbot,
                      At, Busy, PCs
  <2>2. cert' >= cert /\ cert' \in Nat /\ cert \in Nat
    BY JobAssumptions DEF JobsIInv, TablesOK, Certs, Certbot
  <2>3. ServedSoFar'
    <3>1. /\ worker'[w].pc = "issued"
          /\ \A v \in Workers \ {w} : worker'[v] = worker[v]
      BY PlaceFacts DEF JobsIInv, Certbot, Goto, Become, Holding, WorkersOK, Places
    <3>2. /\ issued'[worker[w].job] = cert'
          /\ \A k \in Jobs \ {worker[w].job} : issued'[k] = issued[k]
      BY <2>1 DEF JobsIInv, Certbot, TablesOK
    <3>3. \A k \in Jobs : issued[k] \in Nat
      BY DEF JobsIInv, TablesOK, Certs
    <3>4. web \in Nat /\ mail \in Nat \cup {None} /\ UNCHANGED <<web, mail>>
      BY DEF JobsIInv, TablesOK, Certs, Certbot
    <3>5. \A k \in Jobs : cert' >= issued'[k]
      BY <2>2, <3>2, <3>3 DEF JobsIInv, Serving, ServedSoFar
    <3>6. \A v \in Workers \ {w} : worker[v].pc \in {"services", "finish"} =>
             worker[v].job \in Jobs \ {worker[w].job}
      BY <2>1, PlaceFacts DEF JobsIInv, Busy, PCs
    <3>7. \A v \in Workers :
             /\ worker'[v].pc \in {"services", "finish"} => web' >= issued'[worker'[v].job]
             /\ worker'[v].pc = "finish" => mail' = None \/ mail' >= issued'[worker'[v].job]
      BY <3>1, <3>2, <3>4, <3>6 DEF JobsIInv, Serving, ServedSoFar
    <3> QED BY <2>2, <3>4, <3>5, <3>7 DEF JobsIInv, Serving, ServedSoFar
  <2>4. SucceededIsServed'
    BY <2>1 DEF JobsIInv, Serving, SucceededIsServed, Certbot, TablesOK
  <2> QED BY <2>3, <2>4 DEF Serving
<1> QED BY <1>1, <1>2, <1>3 DEF JobsIInv

\* What is recorded as issued is what certbot left.
LEMMA KeepsIssued ==
  ASSUME JobsIInv, NEW w \in Workers, Issued(w)
  PROVE  JobsIInv'
<1>1. TablesOK'
  BY DEF JobsIInv, Issued, TablesOK, files, history
<1>2. Holding'
  <2>1. worker[w].pc \in Busy /\ "sync" \in Busy
    BY DEF Issued, At, Busy, PCs
  <2> QED BY <2>1, GotoKeeps DEF JobsIInv, Issued, history
<1>3. Serving'
  <2>1. ServedSoFar'
    BY PlaceFacts DEF JobsIInv, Serving, ServedSoFar, Issued, Become, Goto, Stop,
                      Stopped, files, history, Holding, WorkersOK, Places
  <2>2. SucceededIsServed'
    BY DEF JobsIInv, Serving, SucceededIsServed, Issued, files, history
  <2> QED BY <2>1, <2>2 DEF Serving
<1> QED BY <1>1, <1>2, <1>3 DEF JobsIInv

\* The inventory is read from the disk.
LEMMA KeepsSync ==
  ASSUME JobsIInv, NEW w \in Workers, Sync(w)
  PROVE  JobsIInv'
<1>1. TablesOK'
  BY PlaceFacts DEF JobsIInv, Sync, At, TablesOK, files
<1>2. Holding'
  <2> DEFINE r == [worker[w] EXCEPT !.pc = IF inUse /\ cert # 0 THEN "upsert"
                                           ELSE "proxy",
                                    !.cert = cert]
  <2>1. r \in Places /\ r.pc \in {"proxy", "upsert"} /\ r.job = worker[w].job
    BY PlaceFacts DEF JobsIInv, Places, PCs, TablesOK
  <2>2. worker[w].pc \in Busy /\ {"proxy", "upsert"} \subseteq Busy
    BY DEF Sync, At, Busy, PCs
  <2>3. Fits(r)
    BY <2>1, <2>2, BusyPCs DEF JobsIInv, Holding, WorkersOK, Fits
  <2> QED BY <2>1, <2>2, <2>3, MoveKeeps DEF JobsIInv, Sync
<1>3. Serving'
  <2>1. ServedSoFar'
    BY PlaceFacts DEF JobsIInv, Serving, ServedSoFar, Sync, Become, Goto, Stop,
                      Stopped, files, history, Holding, WorkersOK, Places
  <2>2. SucceededIsServed'
    BY DEF JobsIInv, Serving, SucceededIsServed, Sync, files
  <2> QED BY <2>1, <2>2 DEF Serving
<1> QED BY <1>1, <1>2, <1>3 DEF JobsIInv

\* An update of inventory rows concerns no job.
LEMMA KeepsUpsert ==
  ASSUME JobsIInv, NEW w \in Workers, Upsert(w)
  PROVE  JobsIInv'
<1>1. TablesOK'
  <2>1. rows' \in Seq(Certs)
    BY PlaceFacts DEF JobsIInv, Upsert, TablesOK, Places
  <2> QED BY <2>1 DEF JobsIInv, Upsert, TablesOK, files, history
<1>2. Holding'
  <2>1. worker[w].pc \in Busy /\ "insert" \in Busy /\ "proxy" \in Busy
    BY DEF Upsert, At, Busy, PCs
  <2> QED BY <2>1, GotoKeeps DEF JobsIInv, Upsert, history
<1>3. Serving'
  <2>1. ServedSoFar'
    BY PlaceFacts DEF JobsIInv, Serving, ServedSoFar, Upsert, Become, Goto, Stop,
                      Stopped, files, history, Holding, WorkersOK, Places
  <2>2. SucceededIsServed'
    BY DEF JobsIInv, Serving, SucceededIsServed, Upsert, files, history
  <2> QED BY <2>1, <2>2 DEF Serving
<1> QED BY <1>1, <1>2, <1>3 DEF JobsIInv

\* Nor does the insertion of one.
LEMMA KeepsInsert ==
  ASSUME JobsIInv, NEW w \in Workers, Insert(w)
  PROVE  JobsIInv'
<1>1. TablesOK'
  BY PlaceFacts DEF JobsIInv, Insert, TablesOK, Places, files, history
<1>2. Holding'
  <2>1. worker[w].pc \in Busy /\ "proxy" \in Busy
    BY DEF Insert, At, Busy, PCs
  <2> QED BY <2>1, GotoKeeps DEF JobsIInv, Insert, history
<1>3. Serving'
  <2>1. ServedSoFar'
    BY PlaceFacts DEF JobsIInv, Serving, ServedSoFar, Insert, Become, Goto, Stop,
                      Stopped, files, history, Holding, WorkersOK, Places
  <2>2. SucceededIsServed'
    BY DEF JobsIInv, Serving, SucceededIsServed, Insert, files, history
  <2> QED BY <2>1, <2>2 DEF Serving
<1> QED BY <1>1, <1>2, <1>3 DEF JobsIInv

\* The proxy configuration concerns no job.
LEMMA KeepsSyncProxy ==
  ASSUME JobsIInv, NEW w \in Workers, SyncProxy(w)
  PROVE  JobsIInv'
<1>1. TablesOK'
  BY DEF JobsIInv, SyncProxy, TablesOK, history
<1>2. Holding'
  <2>1. worker[w].pc \in Busy /\ "services" \in Busy
    BY DEF SyncProxy, At, Busy, PCs
  <2> QED BY <2>1, GotoKeeps DEF JobsIInv, SyncProxy, history
<1>3. Serving'
  <2>1. ServedSoFar'
    <3>1. /\ worker[w].pc = "proxy" /\ worker'[w].pc = "services"
          /\ worker'[w].job = worker[w].job /\ worker[w].job \in Jobs
          /\ \A v \in Workers \ {w} : worker'[v] = worker[v]
      BY PlaceFacts DEF JobsIInv, SyncProxy, At, Goto, Become, Holding, WorkersOK,
                        Places
    <3>2. /\ cert \in Nat /\ web \in Nat /\ mail \in Nat \cup {None}
          /\ \A k \in Jobs : issued[k] \in Nat
      BY DEF JobsIInv, TablesOK, Certs
    <3>3. \A v \in Workers : worker[v].pc \in {"services", "finish"} => worker[v].job \in Jobs
      BY PlaceFacts DEF JobsIInv
    <3> QED BY <3>1, <3>2, <3>3 DEF JobsIInv, Serving, ServedSoFar, SyncProxy,
                                    history
  <2>2. SucceededIsServed'
    BY JobAssumptions DEF JobsIInv, Serving, ServedSoFar, SucceededIsServed,
                          SyncProxy, history, TablesOK, Certs
  <2> QED BY <2>1, <2>2 DEF Serving
<1> QED BY <1>1, <1>2, <1>3 DEF JobsIInv

\* The services reloaded serve the certificate on disk, the job's or a newer one.
LEMMA KeepsApply ==
  ASSUME JobsIInv, NEW w \in Workers, Apply(w)
  PROVE  JobsIInv'
<1>1. TablesOK'
  BY DEF JobsIInv, Apply, LoadMail, TablesOK, history
<1>2. Holding'
  <2>1. worker[w].pc \in Busy /\ "finish" \in Busy
    BY DEF Apply, LoadMail, At, Busy, PCs
  <2> QED BY <2>1, GotoKeeps DEF JobsIInv, Apply, LoadMail, history
<1>3. Serving'
  <2>1. ServedSoFar'
    <3>1. /\ worker[w].pc = "services" /\ worker'[w].pc = "finish"
          /\ worker'[w].job = worker[w].job /\ worker[w].job \in Jobs
          /\ \A v \in Workers \ {w} : worker'[v] = worker[v]
      BY PlaceFacts DEF JobsIInv, Apply, LoadMail, At, Goto, Become, Holding, WorkersOK,
                        Places
    <3>2. /\ cert \in Nat /\ web \in Nat /\ mail \in Nat \cup {None}
          /\ \A k \in Jobs : issued[k] \in Nat
      BY DEF JobsIInv, TablesOK, Certs
    <3>3. \A v \in Workers : worker[v].pc \in {"services", "finish"} => worker[v].job \in Jobs
      BY PlaceFacts DEF JobsIInv
    <3> QED BY <3>1, <3>2, <3>3 DEF JobsIInv, Serving, ServedSoFar, Apply, LoadMail, history
  <2>2. SucceededIsServed'
    BY JobAssumptions DEF JobsIInv, Serving, ServedSoFar, SucceededIsServed,
                          Apply, LoadMail, history, TablesOK, Certs
  <2> QED BY <2>1, <2>2 DEF Serving
<1> QED BY <1>1, <1>2, <1>3 DEF JobsIInv

\* A success is written when both services serve the job's certificate.
LEMMA KeepsFinish ==
  ASSUME JobsIInv, NEW w \in Workers, Finish(w)
  PROVE  JobsIInv'
<1>1. TablesOK'
  <2>1. worker[w].job \in Jobs /\ job[worker[w].job] \in Rows
    BY PlaceFacts DEF JobsIInv, Finish, At
  <2>2. /\ job' \in [Jobs -> Rows \cup {None}]
        /\ \A k \in Jobs : job'[k] # None <=> job[k] # None
    BY <2>1, SetStatusKeeps DEF JobsIInv, Finish, Statuses, TablesOK
  <2> QED BY <2>1, <2>2 DEF JobsIInv, Finish, TablesOK, files, history
<1>2. Holding'
  <2>1. PICK r \in Places : Fits(r) /\ Become(w, r) /\ r.pc \notin Busy
    BY NextRoundFits DEF JobsIInv, Finish
  <2>2. /\ worker[w].pc \in Busy
        /\ lost \subseteq lost' /\ UNCHANGED jobs
        /\ \A k \in Jobs : job'[k] = job[k] \/ k = worker[w].job
        /\ worker[w].job \in lost' \/ job'[worker[w].job].status # "running"
    BY PlaceFacts DEF JobsIInv, Finish, At, Busy, PCs, SetStatus, TablesOK, Rows,
                      history
  <2> QED BY <2>1, <2>2, ReleaseKeeps DEF JobsIInv
<1>3. Serving'
  <2>1. ServedSoFar'
    <3>1. PICK r \in Places : Become(w, r) /\ r.pc \notin Busy
      BY NextRoundFits DEF JobsIInv, Finish
    <3> QED BY <3>1 DEF JobsIInv, Serving, ServedSoFar, Finish, Become, Busy, PCs,
                        files, history, Holding, WorkersOK
  <2>2. SucceededIsServed'
    BY PlaceFacts DEF JobsIInv, Serving, ServedSoFar, SucceededIsServed, Finish,
                      SetStatus, At, files, history, TablesOK, Rows
  <2> QED BY <2>1, <2>2 DEF Serving
<1> QED BY <1>1, <1>2, <1>3 DEF JobsIInv

\* A killed worker leaves its job running, and lost.
LEMMA KeepsCrash ==
  ASSUME JobsIInv, NEW w \in Workers, Crash(w)
  PROVE  JobsIInv'
<1>1. TablesOK'
  BY PlaceFacts DEF JobsIInv, Crash, At, TablesOK, files
<1>2. Holding'
  <2>1. lost \subseteq lost' /\ (worker[w].pc \in Busy => worker[w].job \in lost')
    BY BusyPCs DEF Crash, Busy
  <2> QED BY <2>1, StoppedFits, ReleaseKeeps, BusyPCs DEF JobsIInv, Crash, Stop
<1>3. Serving'
  <2>1. ServedSoFar'
    BY PlaceFacts DEF JobsIInv, Serving, ServedSoFar, Crash, Become, Goto, Stop,
                      Stopped, files, history, Holding, WorkersOK, Places, At
  <2>2. SucceededIsServed'
    BY DEF JobsIInv, Serving, SucceededIsServed, Crash, files, history, At
  <2> QED BY <2>1, <2>2 DEF Serving
<1> QED BY <1>1, <1>2, <1>3 DEF JobsIInv

\* The status of the domain concerns no job.
LEMMA KeepsUpdateDomain ==
  ASSUME JobsIInv, UpdateDomain
  PROVE  JobsIInv'
<1>1. TablesOK'
  BY DEF JobsIInv, UpdateDomain, TablesOK, files, history
<1>2. Holding'
  BY DEF JobsIInv, UpdateDomain, Holding, WorkersOK, Fits, OneWorkerPerJob,
         RunningIsHeldOrLost, BusyIsRunning, history
<1>3. Serving'
  BY DEF JobsIInv, UpdateDomain, Serving, ServedSoFar, SucceededIsServed, files,
         history
<1> QED BY <1>1, <1>2, <1>3 DEF JobsIInv

-----------------------------------------------------------------------------
(* The theorems.                                                           *)

\* The initial state: no job, no worker, no certificate.
LEMMA InitInv == Init => JobsIInv
<1> SUFFICES ASSUME Init PROVE JobsIInv
  OBVIOUS
<1>1. TablesOK
  BY JobAssumptions DEF Init, TablesOK, Jobs, Certs
<1>2. Holding
  BY StoppedFits, BusyPCs DEF Init, Holding, WorkersOK, OneWorkerPerJob,
                              RunningIsHeldOrLost, BusyIsRunning
<1>3. Serving
  BY StoppedFits DEF Init, Serving, ServedSoFar, SucceededIsServed
<1> QED BY <1>1, <1>2, <1>3 DEF JobsIInv

\* A stuttering step keeps the invariant.
LEMMA NothingKeeps ==
  ASSUME JobsIInv, UNCHANGED vars
  PROVE  JobsIInv'
<1>1. TablesOK'
  BY DEF JobsIInv, TablesOK, vars, files, history
<1>2. Holding'
  BY DEF JobsIInv, Holding, WorkersOK, Fits, OneWorkerPerJob, RunningIsHeldOrLost,
         BusyIsRunning, vars, history
<1>3. Serving'
  BY DEF JobsIInv, Serving, ServedSoFar, SucceededIsServed, vars, files, history
<1> QED BY <1>1, <1>2, <1>3 DEF JobsIInv

\* The strengthened invariant holds however many workers overlap, fail or die.
THEOREM JobsAlways == Spec => []JobsIInv
<1>1. JobsIInv /\ [Next]_vars => JobsIInv'
  <2> SUFFICES ASSUME JobsIInv, [Next]_vars PROVE JobsIInv'
    OBVIOUS
  <2>1. ASSUME NEW kind \in Kinds, Create(kind) PROVE JobsIInv'
    BY <2>1, KeepsCreate
  <2>2. ASSUME NEW w \in Workers, Step(w) PROVE JobsIInv'
    BY <2>2, KeepsStart, KeepsSelect, KeepsClaim, KeepsFail, KeepsGiveUp,
       KeepsWork, KeepsCertbot, KeepsIssued, KeepsSync, KeepsUpsert, KeepsInsert,
       KeepsSyncProxy, KeepsApply, KeepsFinish, KeepsCrash DEF Step
  <2>3. CASE UpdateDomain
    BY <2>3, KeepsUpdateDomain
  <2>4. CASE UNCHANGED vars
    BY <2>4, NothingKeeps
  <2> QED BY <2>1, <2>2, <2>3, <2>4 DEF Next
<1> QED BY InitInv, <1>1, PTL DEF Spec

\* Jobs, inventory and workers are well formed in every reachable state.
THEOREM JobTypes == Spec => []TypeOK
<1>1. JobsIInv => TypeOK
  BY DEF JobsIInv, Holding, TypeOK
<1> QED BY <1>1, JobsAlways, PTL

\* The guard of the claiming UPDATE keeps any number of workers apart.
THEOREM WorkersApart == Spec => []OneWorkerPerJob
<1>1. JobsIInv => OneWorkerPerJob
  BY DEF JobsIInv, Holding
<1> QED BY <1>1, JobsAlways, PTL

\* Only a death of the worker or a failed report leaves a job running for ever.
THEOREM RunningIsAccounted == Spec => []RunningIsHeldOrLost
<1>1. JobsIInv => RunningIsHeldOrLost
  BY DEF JobsIInv, Holding
<1> QED BY <1>1, JobsAlways, PTL

\* A job answered with success is served by the proxy and the mail services.
THEOREM SuccessIsServed == Spec => []SucceededIsServed
<1>1. JobsIInv => SucceededIsServed
  BY DEF JobsIInv, Serving
<1> QED BY <1>1, JobsAlways, PTL

\* The status of a job tells what became of it.
THEOREM StatusCorrect == Spec => []StatusIsTrue
<1>1. RunningIsHeldOrLost /\ SucceededIsServed => StatusIsTrue
  BY DEF StatusIsTrue
<1> QED BY <1>1, RunningIsAccounted, SuccessIsServed, PTL

-----------------------------------------------------------------------------
(* The table implements the abstract queue.                                *)

\* The initial state is the empty queue.
LEMMA InitIsQueueInit == Init => Queue!Init
  BY DEF Init, Queue!Init, With

\* A step that leaves the table alone is a stutter of the queue.
LEMMA SameTable ==
  ASSUME UNCHANGED job
  PROVE  UNCHANGED <<With("queued"), With("running"), With("succeeded"), With("failed")>>
  BY DEF With

\* A step that sets the status of one job.
LEMMA StatusMoves ==
  ASSUME JobsIInv, NEW j \in Jobs, job[j] \in Rows, NEW old \in Statuses,
         job[j].status = old, NEW new \in Statuses \ {old}, SetStatus(j, new)
  PROVE  /\ j \in With(old)
         /\ With(old)' = With(old) \ {j}
         /\ With(new)' = With(new) \cup {j}
         /\ \A other \in Statuses \ {old, new} : With(other)' = With(other)
<1>1. /\ job'[j] # None /\ job'[j].status = new /\ job[j] # None
      /\ \A k \in Jobs \ {j} : job'[k] = job[k]
  BY SetStatusKeeps, JobAssumptions DEF JobsIInv
<1> QED BY <1>1 DEF With

\* Creating a job adds it to the queue.
LEMMA CreateIsAdd ==
  ASSUME JobsIInv, NEW kind \in Kinds, Create(kind)
  PROVE  Queue!Add
<1> DEFINE j == jobs'
<1>1. /\ j \in Jobs /\ job[j] = None
      /\ job'[j] \in Rows /\ job'[j].status = "queued"
      /\ \A k \in Jobs \ {j} : job'[k] = job[k]
  BY JobAssumptions DEF JobsIInv, Create, TablesOK, Jobs, Rows, Statuses
<1>2. job'[j] # None
  BY <1>1, JobAssumptions
<1>3. j \notin With("queued") \cup With("running") \cup With("succeeded") \cup With("failed")
  BY <1>1 DEF With
<1>4. /\ With("queued")' = With("queued") \cup {j}
      /\ UNCHANGED <<With("running"), With("succeeded"), With("failed")>>
  BY <1>1, <1>2 DEF With
<1> QED BY <1>1, <1>3, <1>4 DEF Queue!Add

\* A claim that changes its row takes a queued job; one that does not is a stutter.
LEMMA ClaimIsTake ==
  ASSUME JobsIInv, NEW w \in Workers, Claim(w)
  PROVE  Queue!Take \/ UNCHANGED job
<1> DEFINE j == worker[w].job
<1>1. j \in Jobs /\ job[j] \in Rows
  BY PlaceFacts DEF JobsIInv, Claim, At
<1>2. CASE Queued(j)
  <2>1. SetStatus(j, "running") /\ job[j].status = "queued"
    BY <1>2 DEF Claim, Queued
  <2>2. /\ j \in With("queued")
        /\ With("queued")' = With("queued") \ {j}
        /\ With("running")' = With("running") \cup {j}
        /\ UNCHANGED <<With("succeeded"), With("failed")>>
    BY <1>1, <2>1, StatusMoves DEF Statuses
  <2> QED BY <2>2 DEF Queue!Take
<1>3. CASE ~Queued(j)
  BY <1>3 DEF Claim
<1> QED BY <1>2, <1>3

\* An answer moves a running job to succeeded or failed.
LEMMA AnswerIsAnswer ==
  ASSUME JobsIInv, NEW w \in Workers, worker[w].pc \in Busy,
         NEW new \in {"succeeded", "failed"}, SetStatus(worker[w].job, new)
  PROVE  Queue!Answer
<1> DEFINE j == worker[w].job
<1>1. j \in Jobs /\ job[j] \in Rows /\ job[j].status = "running"
  BY PlaceFacts, BusyPCs DEF JobsIInv, Holding, BusyIsRunning
<1>2. /\ j \in With("running")
      /\ With("running")' = With("running") \ {j}
      /\ With(new)' = With(new) \cup {j}
      /\ \A other \in Statuses \ {"running", new} : With(other)' = With(other)
  BY <1>1, StatusMoves DEF Statuses
<1>3. CASE new = "succeeded"
  BY <1>2, <1>3 DEF Queue!Answer, Statuses
<1>4. CASE new = "failed"
  BY <1>2, <1>4 DEF Queue!Answer, Statuses
<1> QED BY <1>3, <1>4

\* Every behaviour of the workers is one of the abstract queue: a job is
\* handed out once and its answer is final.
THEOREM JobQueueImplemented == Spec => ImplementsJobQueue
<1> DEFINE queue == <<With("queued"), With("running"), With("succeeded"), With("failed")>>
<1>1. JobsIInv /\ [Next]_vars => [Queue!Next]_queue
  <2> SUFFICES ASSUME JobsIInv, [Next]_vars PROVE Queue!Next \/ UNCHANGED job
    BY SameTable
  <2>1. ASSUME NEW kind \in Kinds, Create(kind) PROVE Queue!Next
    BY <2>1, CreateIsAdd DEF Queue!Next
  <2>2. ASSUME NEW w \in Workers, Claim(w) PROVE Queue!Next \/ UNCHANGED job
    BY <2>2, ClaimIsTake DEF Queue!Next
  <2>3. ASSUME NEW w \in Workers, Fail(w) PROVE Queue!Next \/ UNCHANGED job
    <3>1. worker[w].pc \in Busy
      BY <2>3 DEF Fail, At, Busy, PCs
    <3> QED BY <2>3, <3>1, AnswerIsAnswer DEF Fail, Queue!Next
  <2>4. ASSUME NEW w \in Workers, Finish(w) PROVE Queue!Next
    <3>1. worker[w].pc \in Busy
      BY <2>4 DEF Finish, At, Busy, PCs
    <3> QED BY <2>4, <3>1, AnswerIsAnswer DEF Finish, Queue!Next
  <2>5. ASSUME NEW w \in Workers, Step(w), ~Claim(w), ~Fail(w), ~Finish(w)
        PROVE  UNCHANGED job
    BY <2>5 DEF Step, Start, Select, GiveUp, Work, Certbot, Issued, Sync,
                Upsert,
                Insert, SyncProxy, Apply, LoadMail, Crash
  <2>6. CASE UpdateDomain \/ UNCHANGED vars
    BY <2>6 DEF UpdateDomain, vars
  <2> QED BY <2>1, <2>2, <2>3, <2>4, <2>5, <2>6 DEF Next
<1> QED BY InitIsQueueInit, <1>1, JobsAlways, PTL DEF Spec, Queue!Spec,
                                                     ImplementsJobQueue

-----------------------------------------------------------------------------
(* The inventory.                                                          *)

\* Two jobs worked on at one time are both remembered as excused.
OverlapIsExcused ==
    \A v, w \in Workers :
        v # w /\ worker[v].pc \in Busy /\ worker[w].pc \in Busy =>
            worker[v].job \in excused

\* What a worker is about to record is at least what any job issued that was
\* not excused: such a job ended before the certificate was read.
WillRecord ==
    \A w \in Workers, j \in Jobs \ excused :
        worker[w].pc \in {"upsert", "insert"} => worker[w].cert >= issued[j]

\* A job that has, or is about to have, its success recorded.
PastRecording(j) ==
    \/ job[j] # None /\ job[j].status = "succeeded"
    \/ \E w \in Workers : /\ worker[w].pc \in {"proxy", "services", "finish"}
                          /\ worker[w].job = j

\* The same, or its worker is about to add a row to rows that were all equal.
Matching(j) ==
    \/ PastRecording(j)
    \/ \E w \in Workers : worker[w].pc = "insert" /\ worker[w].job = j

Recorded ==
    \A j \in Jobs \ excused :
        issued[j] # 0 =>
            /\ Matching(j) => \A i \in DOMAIN rows : rows[i] >= issued[j]
            /\ PastRecording(j) => rows # <<>>

Recording == OverlapIsExcused /\ WillRecord /\ Recorded

Late == {"proxy", "services", "finish"}
Enough(c) == rows # <<>> /\ \A i \in DOMAIN rows : rows[i] >= c

\* A step of one worker that writes no row and issues nothing.  It may go on
\* to write only a certificate as new as all that count, and past the writing
\* only if the rows are.
LEMMA RecordKeeps ==
  ASSUME JobsIInv, Recording, NEW w \in Workers, NEW r \in Places, Become(w, r),
         UNCHANGED <<issued, rows>>, excused \subseteq excused',
         r.pc \in Busy => worker[w].pc \in Busy /\ r.job = worker[w].job,
         r.pc # "insert",
         r.pc = "upsert" => \A j \in Jobs \ excused : r.cert >= issued[j],
         r.pc \in Late =>
             r.job \in excused' \/ issued[r.job] = 0 \/ Enough(issued[r.job]),
         \A j \in Jobs :
             job'[j] # None /\ job'[j].status = "succeeded" => PastRecording(j)
  PROVE  Recording'
<1>1. /\ worker'[w] = r
      /\ \A v \in Workers \ {w} : worker'[v] = worker[v]
  BY DEF Become, JobsIInv, Holding, WorkersOK
<1>2. OverlapIsExcused'
  BY <1>1 DEF Recording, OverlapIsExcused
<1>3. WillRecord'
  BY <1>1 DEF Recording, WillRecord
<1>4. Recorded'
  <2> SUFFICES ASSUME NEW j \in Jobs \ excused', issued[j] # 0
               PROVE  /\ Matching(j)' => \A i \in DOMAIN rows : rows[i] >= issued[j]
                      /\ PastRecording(j)' => rows # <<>>
    BY DEF Recorded
  <2>1. ASSUME PastRecording(j)' PROVE PastRecording(j) \/ Enough(issued[j])
    BY <1>1, <2>1 DEF PastRecording, Late
  <2>2. ASSUME Matching(j)' PROVE Matching(j) \/ Enough(issued[j])
    BY <1>1, <2>1, <2>2 DEF Matching
  <2> QED BY <2>1, <2>2 DEF Recording, Recorded, Enough
<1> QED BY <1>2, <1>3, <1>4 DEF Recording

\* The same of a step that goes on with the job, and the certificate read.
LEMMA RecordGoto ==
  ASSUME JobsIInv, Recording, NEW w \in Workers, NEW label \in Busy \ {"upsert", "insert"},
         Goto(w, label), worker[w].pc \in Busy, UNCHANGED <<job, issued, excused, rows>>,
         label \in Late => worker[w].pc \in Late
  PROVE  Recording'
<1> DEFINE r == [worker[w] EXCEPT !.pc = label]
<1>1. r \in Places /\ r.pc = label /\ r.job = worker[w].job
  BY PlaceFacts, BusyPCs DEF JobsIInv, Places
<1>2. \A j \in Jobs :
         job'[j] # None /\ job'[j].status = "succeeded" => PastRecording(j)
  BY DEF PastRecording
<1>3. ASSUME label \in Late
      PROVE  r.job \in excused \/ issued[r.job] = 0 \/ Enough(issued[r.job])
  <2>1. worker[w].job \in Jobs
    BY PlaceFacts, BusyPCs DEF JobsIInv
  <2>2. PastRecording(worker[w].job)
    BY <1>3 DEF PastRecording, Late
  <2> QED BY <1>1, <2>1, <2>2 DEF Recording, Recorded, Enough, Matching
<1> QED BY <1>1, <1>2, <1>3, RecordKeeps DEF Goto

\* The same of a step after which the worker has no job.
LEMMA RecordRelease ==
  ASSUME JobsIInv, Recording, NEW w \in Workers, NEW r \in Places, Become(w, r),
         r.pc \notin Busy, UNCHANGED <<issued, excused, rows>>,
         \A j \in Jobs :
             job'[j] # None /\ job'[j].status = "succeeded" => PastRecording(j)
  PROVE  Recording'
  BY RecordKeeps, BusyPCs DEF Busy, PCs, Late

\* A claim: whoever else works now shares with this worker.
LEMMA RecordClaim ==
  ASSUME JobsIInv, Recording, NEW w \in Workers, Claim(w)
  PROVE  Recording'
<1> DEFINE j == worker[w].job
           r == [worker[w] EXCEPT !.pc = "work"]
<1>1. CASE ~Queued(j)
  <2>1. Become(w, Stopped) /\ UNCHANGED <<job, issued, excused, rows>>
    BY <1>1 DEF Claim, Stop
  <2> QED BY <2>1, StoppedFits, BusyPCs, RecordRelease DEF PastRecording
<1>2. CASE Queued(j)
  <2>1. /\ worker'[w] = r /\ r.job = j /\ r.pc = "work"
        /\ \A v \in Workers \ {w} : worker'[v] = worker[v]
    BY <1>2 DEF Claim, Goto, Become, JobsIInv, Holding, WorkersOK, Places
  <2>2. /\ j \in Jobs /\ job'[j].status = "running"
        /\ \A k \in Jobs \ {j} : job'[k] = job[k]
        /\ UNCHANGED <<issued, rows>> /\ excused \subseteq excused'
    BY <1>2, PlaceFacts DEF JobsIInv, Claim, At, SetStatus, TablesOK, Rows
  <2>3. OverlapIsExcused'
    <3> SUFFICES ASSUME NEW u \in Workers, NEW v \in Workers, u # v,
                        worker'[u].pc \in Busy, worker'[v].pc \in Busy
                 PROVE  worker'[u].job \in excused'
      BY DEF OverlapIsExcused
    <3>1. CASE u # w /\ v # w
      BY <2>1, <2>2, <3>1 DEF Recording, OverlapIsExcused
    <3>2. CASE v = w
      <4>1. worker[u].job \in Others(w)
        BY <2>1, <3>2 DEF Others
      <4> QED BY <1>2, <2>1, <3>2, <4>1 DEF Claim
    <3>3. CASE u = w
      <4>1. worker[v].job \in Others(w)
        BY <2>1, <3>3 DEF Others
      <4> QED BY <1>2, <2>1, <3>3, <4>1 DEF Claim
    <3> QED BY <3>1, <3>2, <3>3
  <2>4. WillRecord'
    BY <2>1, <2>2 DEF Recording, WillRecord
  <2>5. \A k \in Jobs : /\ PastRecording(k)' => PastRecording(k)
                        /\ Matching(k)' => Matching(k)
    BY <2>1, <2>2 DEF PastRecording, Matching
  <2>6. Recorded'
    BY <2>2, <2>5 DEF Recording, Recorded
  <2> QED BY <2>3, <2>4, <2>6 DEF Recording
<1> QED BY <1>1, <1>2

\* certbot: the job at hand is not yet recorded, and if anyone is about to
\* record, the two share.
LEMMA RecordCertbot ==
  ASSUME JobsIInv, Recording, NEW w \in Workers, Certbot(w)
  PROVE  Recording'
<1> DEFINE j == worker[w].job
           r == [worker[w] EXCEPT !.pc = "issued"]
<1>1. /\ worker'[w] = r /\ r.job = j /\ r.pc = "issued"
      /\ \A v \in Workers \ {w} : worker'[v] = worker[v]
  BY DEF Certbot, Goto, Become, JobsIInv, Holding, WorkersOK, Places
<1>2. /\ j \in Jobs /\ worker[w].pc = "work" /\ worker[w].pc \in Busy
      /\ \A k \in Jobs \ {j} : issued'[k] = issued[k]
      /\ UNCHANGED <<job, rows, excused>>
  BY PlaceFacts DEF JobsIInv, Certbot, At, TablesOK, Busy, PCs
<1>3. OverlapIsExcused'
  BY <1>1, <1>2 DEF Recording, OverlapIsExcused
<1>4. WillRecord'
  <2> SUFFICES ASSUME NEW v \in Workers, NEW k \in Jobs \ excused,
                      worker'[v].pc \in {"upsert", "insert"}
               PROVE  worker'[v].cert >= issued'[k]
    BY <1>2 DEF WillRecord
  <2>1. v # w /\ worker[v].pc \in Busy /\ worker'[v] = worker[v]
    BY <1>1 DEF Busy, PCs
  <2>2. k # j
    BY <1>2, <2>1 DEF Recording, OverlapIsExcused
  <2> QED BY <1>2, <2>1, <2>2 DEF Recording, WillRecord
<1>5. Recorded'
  <2>1. \A k \in Jobs : /\ PastRecording(k)' => PastRecording(k)
                        /\ Matching(k)' => Matching(k)
    BY <1>1, <1>2 DEF PastRecording, Matching
  <2>2. ~Matching(j)
    <3>1. job[j].status = "running"
      BY <1>2 DEF JobsIInv, Holding, BusyIsRunning
    <3>2. \A v \in Workers :
             worker[v].pc \in Late \cup {"insert"} => worker[v].job # j
      BY <1>2 DEF JobsIInv, Holding, OneWorkerPerJob, Late, Busy, PCs
    <3> QED BY <3>1, <3>2 DEF Matching, PastRecording, Late
  <2>3. ~PastRecording(j)
    BY <2>2 DEF Matching
  <2> QED BY <1>2, <2>1, <2>2, <2>3 DEF Recording, Recorded
<1> QED BY <1>3, <1>4, <1>5 DEF Recording

\* The inventory read is at least as new as all that was issued.
LEMMA RecordSync ==
  ASSUME JobsIInv, Recording, NEW w \in Workers, Sync(w)
  PROVE  Recording'
<1> DEFINE label == IF inUse /\ cert # 0 THEN "upsert" ELSE "proxy"
           r == [worker[w] EXCEPT !.pc = label, !.cert = cert]
<1>1. /\ worker[w].pc \in Busy /\ worker[w].job \in Jobs
      /\ r \in Places /\ r.pc = label /\ r.job = worker[w].job /\ r.cert = cert
  BY PlaceFacts DEF JobsIInv, Sync, At, Busy, Places, PCs, TablesOK
<1>2. \A j \in Jobs : cert >= issued[j] /\ issued[j] \in Nat /\ cert \in Nat
  BY DEF JobsIInv, Serving, ServedSoFar, TablesOK, Certs
<1>3. r.pc \in Late => r.job \in excused' \/ issued[r.job] = 0
  BY <1>1, <1>2 DEF Sync, Late
<1>4. \A j \in Jobs :
         job'[j] # None /\ job'[j].status = "succeeded" => PastRecording(j)
  BY DEF PastRecording, Sync
<1>5. Become(w, r) /\ UNCHANGED <<issued, rows>> /\ excused \subseteq excused'
  BY DEF Sync
<1>6. r.pc # "insert"
  BY <1>1
<1> QED BY <1>1, <1>2, <1>3, <1>4, <1>5, <1>6, RecordKeeps

\* A step that writes the worker's certificate into rows.  What was recorded
\* stays so, and the worker's own job is if it goes on.
LEMMA RecordWrite ==
  ASSUME JobsIInv, Recording, NEW w \in Workers, worker[w].pc \in {"upsert", "insert"},
         NEW label \in {"insert", "proxy"}, Goto(w, label),
         UNCHANGED <<job, issued, excused>>,
         rows # <<>> => rows' # <<>>,
         label = "proxy" => rows' # <<>>,
         \A i \in DOMAIN rows' :
             \/ rows'[i] = worker[w].cert
             \/ i \in DOMAIN rows /\ rows'[i] = rows[i] /\ worker[w].pc = "insert"
  PROVE  Recording'
<1> DEFINE c == worker[w].cert
           r == [worker[w] EXCEPT !.pc = label]
<1>1. /\ worker'[w] = r /\ r.job = worker[w].job /\ r.pc = label /\ r.cert = c
      /\ \A v \in Workers \ {w} : worker'[v] = worker[v]
      /\ worker[w].pc \in Busy /\ label \in Busy
  BY DEF Goto, Become, JobsIInv, Holding, WorkersOK, Places, Busy, PCs
<1>2. OverlapIsExcused'
  BY <1>1 DEF Recording, OverlapIsExcused
<1>3. WillRecord'
  BY <1>1 DEF Recording, WillRecord
<1>4. Recorded'
  <2> SUFFICES ASSUME NEW j \in Jobs \ excused, issued[j] # 0
               PROVE  /\ Matching(j)' => \A i \in DOMAIN rows' : rows'[i] >= issued[j]
                      /\ PastRecording(j)' => rows' # <<>>
    BY DEF Recorded
  <2>1. c >= issued[j]
    BY DEF Recording, WillRecord
  <2>2. ASSUME Matching(j)' PROVE Matching(j) \/ worker[w].job = j
    BY ZenonT(40), <1>1, <2>2 DEF Matching, PastRecording
  <2>3. ASSUME Matching(j)', worker[w].pc = "insert" PROVE Matching(j)
    BY <2>2, <2>3 DEF Matching
  <2>4. ASSUME PastRecording(j)' PROVE PastRecording(j) \/ label = "proxy"
    BY <1>1, <2>4 DEF PastRecording
  <2> QED BY <2>1, <2>3, <2>4 DEF Recording, Recorded
<1> QED BY <1>2, <1>3, <1>4 DEF Recording

\* The UPDATE of every row.  If it changed none, the worker adds a row.
LEMMA RecordUpsert ==
  ASSUME JobsIInv, Recording, NEW w \in Workers, Upsert(w)
  PROVE  Recording'
<1> DEFINE c == worker[w].cert
           same == \A i \in DOMAIN rows : rows[i] = c
           label == IF same THEN "insert" ELSE "proxy"
<1>1. rows' = [i \in DOMAIN rows |-> c] /\ DOMAIN rows' = DOMAIN rows
  BY DEF Upsert
<1>2. rows # <<>> => rows' # <<>>
  BY <1>1 DEF JobsIInv, TablesOK
<1>3. label = "proxy" => rows # <<>>
  OBVIOUS
<1>4. Goto(w, label) /\ UNCHANGED <<job, issued, excused>>
  BY DEF Upsert, history
<1>5. worker[w].pc \in {"upsert", "insert"} /\ label \in {"insert", "proxy"}
  BY DEF Upsert, At
<1> HIDE DEF label
<1> QED BY <1>1, <1>2, <1>3, <1>4, <1>5, RecordWrite

\* The INSERT of a row.
LEMMA RecordInsert ==
  ASSUME JobsIInv, Recording, NEW w \in Workers, Insert(w)
  PROVE  Recording'
<1> DEFINE c == worker[w].cert
<1>1. rows \in Seq(Certs) /\ c \in Certs /\ rows' = Append(rows, c)
  BY PlaceFacts DEF JobsIInv, TablesOK, Insert, Places
<1>2. rows' # <<>> /\ \A i \in DOMAIN rows' :
                          rows'[i] = c \/ (i \in DOMAIN rows /\ rows'[i] = rows[i])
  BY <1>1
<1>3. worker[w].pc = "insert" /\ Goto(w, "proxy") /\ UNCHANGED <<job, issued, excused>>
  BY DEF Insert, At, history
<1> QED BY <1>2, <1>3, RecordWrite

\* A run starts or selects: it holds no job yet.
LEMMA RecordStart ==
  ASSUME JobsIInv, Recording, NEW w \in Workers, Start(w) \/ Select(w)
  PROVE  Recording'
<1>1. UNCHANGED <<job, issued, excused, rows>>
  BY DEF Start, Select, history
<1>2. PICK r \in Places : Become(w, r) /\ r.pc \notin Busy
  <2>1. CASE Start(w)
    BY <2>1, SelectFits, BusyPCs, JobAssumptions DEF Start
  <2>2. CASE Select(w) /\ Stop(w)
    BY <2>2, StoppedFits, BusyPCs DEF Stop
  <2>3. ASSUME NEW j \in Jobs, Become(w, [worker[w] EXCEPT !.pc = "claim", !.job = j])
        PROVE  \E r \in Places : Become(w, r) /\ r.pc \notin Busy
    <3> DEFINE r == [worker[w] EXCEPT !.pc = "claim", !.job = j]
    <3>1. r \in Places /\ r.pc = "claim"
      BY PlaceFacts DEF JobsIInv, Places, PCs
    <3> QED BY <2>3, <3>1 DEF Busy
  <2> QED BY <2>1, <2>2, <2>3 DEF Select
<1>3. \A j \in Jobs :
         job'[j] # None /\ job'[j].status = "succeeded" => PastRecording(j)
  BY <1>1 DEF PastRecording
<1> QED BY <1>1, <1>2, <1>3, RecordRelease

\* A job ends: it was past recording if it ended well.
LEMMA RecordEnd ==
  ASSUME JobsIInv, Recording, NEW w \in Workers, Fail(w) \/ Finish(w) \/ Crash(w)
  PROVE  Recording'
<1>1. UNCHANGED <<issued, excused, rows>>
  BY DEF Fail, Finish, Crash, history
<1>2. PICK r \in Places : Become(w, r) /\ r.pc \notin Busy
  <2>1. CASE Fail(w) \/ Finish(w)
    BY <2>1, NextRoundFits DEF JobsIInv, Fail, Finish
  <2>2. CASE Crash(w)
    BY <2>2, StoppedFits, BusyPCs DEF Crash, Stop
  <2> QED BY <2>1, <2>2
<1>3. ASSUME NEW j \in Jobs, job'[j] # None, job'[j].status = "succeeded"
      PROVE  PastRecording(j)
  <2>1. CASE Crash(w)
    BY <1>3, <2>1 DEF Crash, PastRecording
  <2>2. CASE Fail(w)
    <3>1. worker[w].job \in Jobs /\ job[worker[w].job] \in Rows
      BY <2>2, PlaceFacts DEF JobsIInv, Fail, At
    <3>2. job'[j] = job[j]
      BY <1>3, <2>2, <3>1 DEF JobsIInv, TablesOK, Fail, SetStatus, Rows
    <3> QED BY <1>3, <3>2 DEF PastRecording
  <2>3. CASE Finish(w)
    <3>1. job'[j] = job[j] \/ j = worker[w].job
      BY <2>3 DEF JobsIInv, TablesOK, Finish, SetStatus
    <3> QED BY <1>3, <2>3, <3>1 DEF PastRecording, Finish, At
  <2> QED BY <2>1, <2>2, <2>3
<1> QED BY <1>1, <1>2, <1>3, RecordRelease

\* The remaining steps go on with the job.
LEMMA RecordGoesOn ==
  ASSUME JobsIInv, Recording, NEW w \in Workers,
         GiveUp(w) \/ Work(w) \/ Issued(w) \/ SyncProxy(w) \/ Apply(w)
  PROVE  Recording'
<1>1. UNCHANGED <<job, issued, excused, rows>>
  BY DEF GiveUp, Work, Issued, SyncProxy, Apply, LoadMail, history
<1>2. worker[w].pc \in Busy
  BY DEF GiveUp, Work, Issued, SyncProxy, Apply, LoadMail, At, Failing, Busy, PCs
<1>3. CASE GiveUp(w)
  <2>1. "fail" \in Busy \ {"upsert", "insert"} /\ "fail" \notin Late
    BY DEF Busy, PCs, Late
  <2> QED BY <1>1, <1>2, <1>3, <2>1, RecordGoto DEF GiveUp
<1>4. CASE Work(w) \/ Issued(w)
  <2>1. "sync" \in Busy \ {"upsert", "insert"} /\ "sync" \notin Late
    BY DEF Busy, PCs, Late
  <2> QED BY <1>1, <1>2, <1>4, <2>1, RecordGoto DEF Work, Issued
<1>5. CASE SyncProxy(w)
  <2>1. "services" \in Busy \ {"upsert", "insert"} /\ worker[w].pc \in Late
    BY <1>5 DEF SyncProxy, At, Busy, PCs, Late
  <2> QED BY <1>1, <1>2, <1>5, <2>1, RecordGoto DEF SyncProxy
<1>6. CASE Apply(w)
  <2>1. "finish" \in Busy \ {"upsert", "insert"} /\ worker[w].pc \in Late
    BY <1>6 DEF Apply, LoadMail, At, Busy, PCs, Late
  <2> QED BY <1>1, <1>2, <1>6, <2>1, RecordGoto DEF Apply, LoadMail
<1> QED BY <1>3, <1>4, <1>5, <1>6

\* No worker takes part in a new job, or in a step of something else.
LEMMA RecordApart ==
  ASSUME JobsIInv, Recording,
         (\E kind \in Kinds : Create(kind)) \/ UpdateDomain \/ UNCHANGED vars
  PROVE  Recording'
<1>1. UNCHANGED <<worker, rows, issued, excused>>
  BY DEF Create, UpdateDomain, vars, history
<1>2. \A j \in Jobs : PastRecording(j)' => PastRecording(j)
  <2>1. ASSUME NEW j \in Jobs, job'[j] # None, job'[j].status = "succeeded"
        PROVE  job[j] # None /\ job[j].status = "succeeded"
    BY <2>1 DEF Create, UpdateDomain, vars, JobsIInv, TablesOK
  <2> QED BY <1>1, <2>1 DEF PastRecording
<1>3. \A j \in Jobs : Matching(j)' => Matching(j)
  BY <1>1, <1>2 DEF Matching
<1>4. OverlapIsExcused' /\ WillRecord'
  BY <1>1 DEF Recording, OverlapIsExcused, WillRecord
<1>5. Recorded'
  BY <1>1, <1>2, <1>3 DEF Recording, Recorded
<1> QED BY <1>4, <1>5 DEF Recording

\* The inventory names the certificate of a job, or a newer one, from its
\* success on, if the job was worked on alone and the domain was in use when the
\* inventory was taken.
THEOREM SuccessIsOnRecord == Spec => []SuccessIsRecorded
<1>1. Init => Recording
  BY StoppedFits, BusyPCs DEF Init, Recording, OverlapIsExcused, WillRecord,
     Recorded, Stopped
<1>2. JobsIInv /\ Recording /\ [Next]_vars => Recording'
  <2> SUFFICES ASSUME JobsIInv, Recording, [Next]_vars PROVE Recording'
    OBVIOUS
  <2>1. ASSUME NEW w \in Workers, Step(w) PROVE Recording'
    BY <2>1, RecordStart, RecordClaim, RecordEnd, RecordGoesOn, RecordCertbot,
       RecordSync, RecordUpsert, RecordInsert DEF Step
  <2> QED BY <2>1, RecordApart DEF Next
<1>3. Recording => SuccessIsRecorded
  BY DEF Recording, Recorded, SuccessIsRecorded, PastRecording, Matching
<1> QED BY <1>1, <1>2, <1>3, JobsAlways, PTL DEF Spec


-----------------------------------------------------------------------------
(* Quarantine: the inductive invariant.                                    *)


\* A request that is executing has chosen a recorded event and an outcome that
\* goes with the place it has reached.
RequestsConsistent ==
    \A w \in Resolvers :
        req[w].pc # "idle" =>
            /\ req[w].event \in Events
            /\ row[req[w].event] # "none"
            /\ req[w].want \in Outcomes
            /\ req[w].pc \in {"opened", "copying", "delivered"}
                   => req[w].want = "released"
            /\ req[w].pc = "filed" => req[w].want = "deleted"
            /\ req[w].pc \in {"opened", "copying"} => req[w].source \in Events

\* A request past its UPDATE works on a row that is still held, and no other
\* request is past its UPDATE of the same row.
LocksExclusive ==
    \A w \in Resolvers :
        req[w].pc \in LockStates =>
            /\ row[req[w].event] = "held"
            /\ \A v \in Resolvers : HoldsRow(v, req[w].event) => v = w

\* A row exists only after the run that stores its message inserted it.
RowsWereInserted ==
    \A e \in Events : store[e] \in {"idle", "renamed"} => row[e] = "none"

\* A message is filed under its own path only.
FilesInPlace ==
    \A p \in Paths : stored[p] # Absent => p = PathOf(stored[p])

\* A release that is about to be recorded has handed the message over.
DeliveredBeforeUpdate ==
    \A w \in Resolvers :
        (/\ req[w].pc \in {"delivered"} \cup LockStates
         /\ req[w].want = "released") => handed[req[w].event] # << >>

\* A deletion that is about to be committed has left no copy of its message.
PurgedBeforeCommit ==
    \A w \in Resolvers :
        (/\ req[w].pc \in {"filed", "audited"}
         /\ req[w].want = "deleted") =>
            \A p \in Paths : stored[p] # req[w].event

QuarantineIInv == /\ QuarantineTypeOK
                  /\ RequestsConsistent
                  /\ LocksExclusive
                  /\ RowsWereInserted
                  /\ FilesInPlace
                  /\ DeliveredBeforeUpdate
                  /\ PurgedBeforeCommit
                  /\ AuditMatchesStatus
                  /\ ReleasedWasDelivered
                  /\ DeletedLeavesNoCopy

-----------------------------------------------------------------------------

\* Every event has a path of the store.
LEMMA PathInPaths == \A e \in Events : PathOf(e) \in Paths
BY DEF Paths

\* Every event has a name in its mailbox.
LEMMA SlotInSlots == \A e \in Events : Slot(e) \in Slots
BY DEF Slots

Requests == [pc : Stages, event : Events \cup {Absent},
             want : Outcomes \cup {"none"}, source : Events \cup {Absent}]

\* The two ways an action moves a request keep its type.
LEMMA RequestMoves ==
    ASSUME req \in [Resolvers -> Requests], NEW w \in Resolvers
    PROVE  /\ \A label \in Stages : Reach(w, label) => req' \in [Resolvers -> Requests]
           /\ Return(w) => req' \in [Resolvers -> Requests]
BY DEF Requests, Reach, Return, Idle, Stages

\* The SMTP hand-over keeps the types.
LEMMA HandType ==
    ASSUME handed \in [Events -> Seq(Events)], NEW w \in Resolvers,
           req[w].event \in Events, req[w].source \in Events, Hand(w)
    PROVE  handed' \in [Events -> Seq(Events)]
BY DEF Hand

\* Every step keeps the types.
LEMMA TypeStep == QuarantineIInv /\ [QuarantineNext]_quarantineVars => QuarantineTypeOK'
<1> SUFFICES ASSUME QuarantineIInv, [QuarantineNext]_quarantineVars PROVE QuarantineTypeOK'
  OBVIOUS
<1> DEFINE Typed == /\ row \in [Events -> RowStates]
                    /\ stored \in [Paths -> Events \cup {Absent}]
                    /\ inbox \in [Slots -> Events \cup {Absent}]
                    /\ handed \in [Events -> Seq(Events)]
                    /\ audit \in [Events -> Seq(Outcomes)]
                    /\ announced \subseteq Events
                    /\ store \in [Events -> {"idle", "renamed", "inserted", "done", "failed"}]
                    /\ req \in [Resolvers -> Requests]
                    /\ attempts \in 0..MaxAttempts
<1>a. Typed /\ (Typed' => QuarantineTypeOK') /\ RequestsConsistent
  BY DEF QuarantineIInv, QuarantineTypeOK, Requests
<1> HIDE DEF Typed
<1>b. {"idle", "read", "opened", "copying", "delivered", "updated", "filed", "audited"} = Stages
  BY DEF Stages, LockStates
<1>c. {"none", "held", "released", "deleted"} = RowStates
  BY DEF RowStates, Outcomes
<1>d. Absent \notin Events /\ MaxAttempts \in Nat
  BY ConstantAssumptions
<1> USE PathInPaths, SlotInSlots, RequestMoves, <1>a, <1>b, <1>d
<1>1. ASSUME NEW e \in Events, Storing(e) PROVE Typed'
  <2>1. CASE StoreFile(e) \/ InsertRowFails(e)
    BY <2>1 DEF Typed, StoreFile, InsertRowFails
  <2>2. CASE InsertRow(e)
    BY <2>2, <1>c DEF Typed, InsertRow
  <2>3. CASE AnnounceRow(e) \/ StoreStops(e)
    BY <2>3 DEF Typed, AnnounceRow, StoreStops
  <2> QED BY <1>1, <2>1, <2>2, <2>3 DEF Storing
<1>2. ASSUME NEW w \in Resolvers, NEW e \in Events, NEW o \in Outcomes, Begin(w, e, o)
      PROVE  Typed'
  <2>1. req' \in [Resolvers -> Requests]
    BY <1>2 DEF Typed, Begin, Requests
  <2>2. attempts' \in 0..MaxAttempts
    BY <1>2 DEF Typed, Begin
  <2> QED BY <1>2, <2>1, <2>2 DEF Typed, Begin
<1>3. ASSUME NEW s \in Slots, ReadInbox(s) PROVE Typed'
  BY <1>3 DEF Typed, ReadInbox
<1>4. ASSUME NEW w \in Resolvers, OpenSource(w) PROVE Typed'
  <2>1. stored[PathOf(req[w].event)] \in Events
    BY <1>4 DEF OpenSource, RequestsConsistent, Typed
  <2>2. req' \in [Resolvers -> Requests]
    BY <1>4, <2>1 DEF OpenSource, Typed, Requests, Outcomes
  <2> QED BY <1>4, <2>2 DEF Typed, OpenSource
<1>5. ASSUME NEW w \in Resolvers, SendSMTP(w) \/ CopyMessage(w) PROVE Typed'
  <2>1. handed' \in [Events -> Seq(Events)]
    BY <1>5, HandType DEF SendSMTP, CopyMessage, RequestsConsistent, Typed
  <2>2. req' \in [Resolvers -> Requests]
    BY <1>5 DEF Typed, SendSMTP, CopyMessage
  <2> QED BY <1>5, <2>1, <2>2 DEF Typed, SendSMTP, CopyMessage
<1>6. ASSUME NEW w \in Resolvers, CreateTarget(w) \/ CopyFails(w) PROVE Typed'
  <2>1. req[w].event \in Events
    BY <1>6 DEF CreateTarget, CopyFails, RequestsConsistent
  <2>2. inbox' \in [Slots -> Events \cup {Absent}]
    BY <1>6, <2>1 DEF Typed, CreateTarget, CopyFails
  <2> QED BY <1>6, <2>2 DEF Typed, CreateTarget, CopyFails
<1>7. ASSUME NEW w \in Resolvers, RefuseRelease(w) \/ Abort(w) PROVE Typed'
  BY <1>7 DEF Typed, RefuseRelease, Abort
<1>8. ASSUME NEW w \in Resolvers, UpdateRow(w) \/ DeleteFile(w) \/ InsertAudit(w)
      PROVE  Typed'
  <2>1. req' \in [Resolvers -> Requests]
    BY <1>8 DEF Typed, UpdateRow, DeleteFile, InsertAudit
  <2> QED BY <1>8, <2>1 DEF Typed, UpdateRow, DeleteFile, InsertAudit
<1>9. ASSUME NEW w \in Resolvers, Commit(w) PROVE Typed'
  <2>1. req[w].event \in Events /\ req[w].want \in Outcomes
    BY <1>9 DEF Commit, RequestsConsistent
  <2> QED BY <1>9, <2>1, <1>c DEF Typed, Commit, Outcomes
<1>10. CASE UNCHANGED quarantineVars
  BY <1>10 DEF Typed, quarantineVars
<1> QED
  BY <1>1, <1>2, <1>3, <1>4, <1>5, <1>6, <1>7, <1>8, <1>9, <1>10
  DEF QuarantineNext, Progress, Failure

\* What the two moves do to each request, field by field.
LEMMA GotoEffect ==
    ASSUME req \in [Resolvers -> Requests], NEW w \in Resolvers,
           NEW label, Reach(w, label)
    PROVE  \A v \in Resolvers :
               /\ req'[v].pc = IF v = w THEN label ELSE req[v].pc
               /\ req'[v].event = req[v].event
               /\ req'[v].want = req[v].want
               /\ req'[v].source = req[v].source
BY DEF Requests, Reach

\* What answering a request changes.
LEMMA ReturnEffect ==
    ASSUME req \in [Resolvers -> Requests], NEW w \in Resolvers, Return(w)
    PROVE  /\ req'[w].pc = "idle"
           /\ \A v \in Resolvers : v # w => req'[v] = req[v]
BY DEF Requests, Return, Idle

\* Every step keeps the requests well formed, on rows that exist.
LEMMA RequestsStep == QuarantineIInv /\ [QuarantineNext]_quarantineVars => RequestsConsistent'
<1> SUFFICES ASSUME QuarantineIInv, [QuarantineNext]_quarantineVars PROVE RequestsConsistent'
  OBVIOUS
<1>a. /\ req \in [Resolvers -> Requests]
      /\ row \in [Events -> RowStates]
      /\ RequestsConsistent
  BY DEF QuarantineIInv, QuarantineTypeOK, Requests
<1>1. ASSUME NEW e \in Events, Storing(e) PROVE RequestsConsistent'
  BY <1>1, <1>a DEF RequestsConsistent, Storing, StoreFile, InsertRow,
     InsertRowFails, AnnounceRow, StoreStops
<1>2. ASSUME NEW w \in Resolvers, NEW e \in Events, NEW o \in Outcomes, Begin(w, e, o)
      PROVE  RequestsConsistent'
  BY <1>2, <1>a DEF RequestsConsistent, Begin
<1>3. CASE (\E s \in Slots : ReadInbox(s)) \/ UNCHANGED quarantineVars
  BY <1>3, <1>a DEF RequestsConsistent, ReadInbox, quarantineVars
<1>4. ASSUME NEW w \in Resolvers, OpenSource(w) PROVE RequestsConsistent'
  <2>1. stored[PathOf(req[w].event)] \in Events
    BY <1>4, PathInPaths DEF OpenSource, RequestsConsistent, QuarantineIInv, QuarantineTypeOK
  <2> QED BY <1>4, <2>1, <1>a DEF RequestsConsistent, OpenSource
<1>5. ASSUME NEW w \in Resolvers, NEW label, Reach(w, label), UNCHANGED row,
             label # "opened",
             label \in {"copying", "delivered"} =>
                 req[w].want = "released" /\ req[w].source \in Events,
             label = "filed" => req[w].want = "deleted",
             req[w].pc # "idle"
      PROVE  RequestsConsistent'
  BY <1>5, <1>a, GotoEffect DEF RequestsConsistent
<1>6. ASSUME NEW w \in Resolvers, Return(w), UNCHANGED row PROVE RequestsConsistent'
  BY <1>6, <1>a, ReturnEffect DEF RequestsConsistent
<1>7. ASSUME NEW w \in Resolvers,
             SendSMTP(w) \/ CreateTarget(w) \/ CopyMessage(w) \/ RefuseRelease(w)
               \/ CopyFails(w) \/ Abort(w) \/ UpdateRow(w) \/ DeleteFile(w)
               \/ InsertAudit(w)
      PROVE  RequestsConsistent'
  BY <1>5, <1>6, <1>7, <1>a DEF RequestsConsistent, SendSMTP, CreateTarget,
     CopyMessage, RefuseRelease, CopyFails, Abort, UpdateRow, AtUpdate,
     DeleteFile, InsertAudit
<1>8. ASSUME NEW w \in Resolvers, Commit(w) PROVE RequestsConsistent'
  BY <1>8, <1>a, ReturnEffect DEF RequestsConsistent, Commit, Outcomes
<1> QED
  BY <1>1, <1>2, <1>3, <1>4, <1>7, <1>8 DEF QuarantineNext, Progress, Failure

\* Every step keeps the row locks exclusive: only the guarded UPDATE takes one.
LEMMA LocksStep == QuarantineIInv /\ [QuarantineNext]_quarantineVars => LocksExclusive'
<1> SUFFICES ASSUME QuarantineIInv, [QuarantineNext]_quarantineVars PROVE LocksExclusive'
  OBVIOUS
<1>a. /\ req \in [Resolvers -> Requests]
      /\ row \in [Events -> RowStates]
      /\ RequestsConsistent /\ LocksExclusive /\ RowsWereInserted
  BY DEF QuarantineIInv, QuarantineTypeOK, Requests
<1>b. /\ \A l \in {"idle", "read", "opened", "copying", "delivered"} : l \notin LockStates
      /\ "idle" \notin LockStates
  BY DEF LockStates
<1>1. ASSUME NEW e \in Events, Storing(e) PROVE LocksExclusive'
  BY <1>1, <1>a, <1>b DEF LocksExclusive, HoldsRow, Storing, StoreFile,
                          InsertRow,
     InsertRowFails, AnnounceRow, StoreStops, RequestsConsistent
<1>2. ASSUME NEW w \in Resolvers, NEW e \in Events, NEW o \in Outcomes, Begin(w, e, o)
      PROVE  LocksExclusive'
  BY <1>2, <1>a, <1>b DEF LocksExclusive, HoldsRow, Begin
<1>3. CASE (\E s \in Slots : ReadInbox(s)) \/ UNCHANGED quarantineVars
  BY <1>3, <1>a DEF LocksExclusive, HoldsRow, ReadInbox, quarantineVars
<1>4. ASSUME NEW w \in Resolvers, OpenSource(w) PROVE LocksExclusive'
  BY <1>4, <1>a, <1>b DEF LocksExclusive, HoldsRow, OpenSource
<1>5. ASSUME NEW w \in Resolvers, NEW label, Reach(w, label), UNCHANGED row,
             label \in LockStates =>
                 /\ row[req[w].event] = "held"
                 /\ \A v \in Resolvers : HoldsRow(v, req[w].event) => v = w
      PROVE  LocksExclusive'
  BY <1>5, <1>a, GotoEffect DEF LocksExclusive, HoldsRow
<1>6. ASSUME NEW w \in Resolvers, Return(w), UNCHANGED row PROVE LocksExclusive'
  BY <1>6, <1>a, <1>b, ReturnEffect DEF LocksExclusive, HoldsRow
<1>7. ASSUME NEW w \in Resolvers,
             SendSMTP(w) \/ CreateTarget(w) \/ CopyMessage(w) \/ RefuseRelease(w)
               \/ CopyFails(w) \/ Abort(w)
      PROVE  LocksExclusive'
  BY <1>5, <1>6, <1>7, <1>b DEF SendSMTP, CreateTarget, CopyMessage,
     RefuseRelease, CopyFails, Abort
<1>8. ASSUME NEW w \in Resolvers, UpdateRow(w) PROVE LocksExclusive'
  BY <1>5, <1>6, <1>8, <1>b DEF UpdateRow, AtUpdate
<1>9. ASSUME NEW w \in Resolvers, DeleteFile(w) \/ InsertAudit(w) PROVE LocksExclusive'
  <2>1. req[w].pc \in LockStates
    BY <1>9 DEF DeleteFile, InsertAudit, LockStates
  <2> QED BY <1>5, <1>9, <2>1, <1>a DEF DeleteFile, InsertAudit, LocksExclusive
<1>10. ASSUME NEW w \in Resolvers, Commit(w) PROVE LocksExclusive'
  <2>1. HoldsRow(w, req[w].event)
    BY <1>10 DEF Commit, HoldsRow, LockStates
  <2>2. \A v \in Resolvers \ {w} :
            req[v].pc \in LockStates => row'[req[v].event] = row[req[v].event]
    BY <1>10, <2>1, <1>a DEF Commit, LocksExclusive, HoldsRow,
                             RequestsConsistent
  <2> QED BY <1>10, <2>2, <1>a, <1>b, ReturnEffect DEF Commit, LocksExclusive,
                                                       HoldsRow
<1> QED
  BY <1>1, <1>2, <1>3, <1>4, <1>7, <1>8, <1>9, <1>10 DEF QuarantineNext, Progress, Failure

\* Only InsertRow and Commit write the row, and Commit's event has one already.
LEMMA RowsStep == QuarantineIInv /\ [QuarantineNext]_quarantineVars => RowsWereInserted'
<1> SUFFICES ASSUME QuarantineIInv, [QuarantineNext]_quarantineVars PROVE RowsWereInserted'
  OBVIOUS
<1>a. /\ row \in [Events -> RowStates]
      /\ store \in [Events -> {"idle", "renamed", "inserted", "done", "failed"}]
      /\ RequestsConsistent /\ RowsWereInserted
  BY DEF QuarantineIInv, QuarantineTypeOK
<1>1. ASSUME NEW e \in Events, Storing(e) PROVE RowsWereInserted'
  BY <1>1, <1>a DEF RowsWereInserted, Storing, StoreFile, InsertRow,
     InsertRowFails, AnnounceRow, StoreStops
<1>2. ASSUME NEW w \in Resolvers, Commit(w) PROVE RowsWereInserted'
  BY <1>2, <1>a DEF RowsWereInserted, Commit, RequestsConsistent
<1>3. CASE UNCHANGED <<row, store>>
  BY <1>3, <1>a DEF RowsWereInserted
<1> QED
  BY <1>1, <1>2, <1>3 DEF QuarantineNext, Progress, Failure, quarantineVars, Begin, ReadInbox,
     OpenSource, SendSMTP, CreateTarget, RefuseRelease, CopyMessage, CopyFails,
     UpdateRow, DeleteFile, InsertAudit, Abort

\* Every step files a message under its own path only.
LEMMA FilesStep == QuarantineIInv /\ [QuarantineNext]_quarantineVars => FilesInPlace'
<1> SUFFICES ASSUME QuarantineIInv, [QuarantineNext]_quarantineVars PROVE FilesInPlace'
  OBVIOUS
<1>a. stored \in [Paths -> Events \cup {Absent}] /\ FilesInPlace /\ Absent \notin Events
  BY ConstantAssumptions DEF QuarantineIInv, QuarantineTypeOK
<1>1. ASSUME NEW e \in Events, stored' = [stored EXCEPT ![PathOf(e)] = e]
      PROVE  FilesInPlace'
  BY <1>1, <1>a DEF FilesInPlace
<1>2. ASSUME NEW p, stored' = [stored EXCEPT ![p] = Absent] PROVE FilesInPlace'
  BY <1>2, <1>a DEF FilesInPlace
<1>3. CASE UNCHANGED stored
  BY <1>3, <1>a DEF FilesInPlace
<1> QED
  BY <1>1, <1>2, <1>3 DEF QuarantineNext, Storing, Progress, Failure, quarantineVars, StoreFile,
     InsertRow, InsertRowFails, AnnounceRow, StoreStops, Begin, ReadInbox,
     OpenSource, SendSMTP, CreateTarget, RefuseRelease, CopyMessage, CopyFails,
     UpdateRow, DeleteFile, InsertAudit, Commit, Abort

\* handed only grows.
LEMMA HandedGrows ==
    ASSUME QuarantineIInv, [QuarantineNext]_quarantineVars
    PROVE  \A e \in Events : handed[e] # << >> => handed'[e] # << >>
<1>a. handed \in [Events -> Seq(Events)] /\ RequestsConsistent
  BY DEF QuarantineIInv, QuarantineTypeOK
<1>1. ASSUME NEW w \in Resolvers, SendSMTP(w) \/ CopyMessage(w)
      PROVE  \A e \in Events : handed[e] # << >> => handed'[e] # << >>
  <2>1. req[w].event \in Events /\ req[w].source \in Events
    BY <1>1, <1>a DEF SendSMTP, CopyMessage, RequestsConsistent
  <2>2. \A s \in Seq(Events) : Append(s, req[w].source) # << >>
    BY <2>1
  <2> QED BY <1>1, <1>a, <2>1, <2>2 DEF SendSMTP, CopyMessage, Hand
<1>2. CASE UNCHANGED handed
  BY <1>2
<1> QED
  BY <1>1, <1>2 DEF QuarantineNext, Storing, Progress, Failure, quarantineVars, StoreFile,
     InsertRow, InsertRowFails, AnnounceRow, StoreStops, Begin, ReadInbox,
     OpenSource, CreateTarget, RefuseRelease, CopyFails, UpdateRow, DeleteFile,
     InsertAudit, Commit, Abort

\* Every step hands a message over before its release can be recorded.
LEMMA DeliveredStep == QuarantineIInv /\ [QuarantineNext]_quarantineVars => DeliveredBeforeUpdate'
<1> SUFFICES ASSUME QuarantineIInv, [QuarantineNext]_quarantineVars PROVE DeliveredBeforeUpdate'
  OBVIOUS
<1>a. /\ req \in [Resolvers -> Requests]
      /\ handed \in [Events -> Seq(Events)]
      /\ RequestsConsistent /\ DeliveredBeforeUpdate
  BY DEF QuarantineIInv, QuarantineTypeOK, Requests
<1>b. \A e \in Events : handed[e] # << >> => handed'[e] # << >>
  BY HandedGrows
<1>c. \A l \in {"idle", "read", "opened", "copying"} :
          l \notin {"delivered"} \cup LockStates
  BY DEF LockStates
<1>1. CASE UNCHANGED req
  BY <1>1, <1>a, <1>b, <1>c DEF DeliveredBeforeUpdate, RequestsConsistent
<1>2. ASSUME NEW w \in Resolvers, NEW e \in Events, NEW o \in Outcomes, Begin(w, e, o)
      PROVE  DeliveredBeforeUpdate'
  BY <1>2, <1>a, <1>b, <1>c DEF DeliveredBeforeUpdate, Begin, RequestsConsistent
<1>3. ASSUME NEW w \in Resolvers, OpenSource(w) PROVE DeliveredBeforeUpdate'
  BY <1>3, <1>a, <1>b, <1>c DEF DeliveredBeforeUpdate, OpenSource,
                                RequestsConsistent
<1>4. ASSUME NEW w \in Resolvers, NEW label, Reach(w, label),
             label \in {"delivered"} \cup LockStates /\ req[w].want = "released"
                 => handed'[req[w].event] # << >>,
             req[w].pc # "idle"
      PROVE  DeliveredBeforeUpdate'
  <2> SUFFICES ASSUME NEW v \in Resolvers,
                      req'[v].pc \in {"delivered"} \cup LockStates,
                      req'[v].want = "released"
               PROVE  handed'[req'[v].event] # << >>
    BY DEF DeliveredBeforeUpdate
  <2>1. /\ req'[v].pc = IF v = w THEN label ELSE req[v].pc
        /\ req'[v].event = req[v].event /\ req'[v].want = req[v].want
    BY <1>4, <1>a, GotoEffect
  <2>2. CASE v = w
    BY <1>4, <2>1, <2>2
  <2>3. CASE v # w
    BY <2>1, <2>3, <1>a, <1>b, <1>c DEF DeliveredBeforeUpdate,
                                        RequestsConsistent
  <2> QED BY <2>2, <2>3
<1>5. ASSUME NEW w \in Resolvers, Return(w) PROVE DeliveredBeforeUpdate'
  BY <1>5, <1>a, <1>b, <1>c, ReturnEffect DEF DeliveredBeforeUpdate,
                                              RequestsConsistent
<1>6. ASSUME NEW w \in Resolvers, CreateTarget(w) \/ CopyFails(w) \/ RefuseRelease(w)
               \/ Abort(w) \/ Commit(w)
      PROVE  DeliveredBeforeUpdate'
  BY <1>4, <1>5, <1>6, <1>c DEF CreateTarget, CopyFails, RefuseRelease, Abort,
                                Commit
<1>7. ASSUME NEW w \in Resolvers, SendSMTP(w) \/ CopyMessage(w)
      PROVE  DeliveredBeforeUpdate'
  <2>1. req[w].event \in Events /\ req[w].source \in Events
    BY <1>7, <1>a DEF SendSMTP, CopyMessage, RequestsConsistent
  <2>2. handed'[req[w].event] # << >>
    BY <1>7, <1>a, <2>1 DEF SendSMTP, CopyMessage, Hand
  <2> QED BY <1>4, <1>5, <1>7, <2>2 DEF SendSMTP, CopyMessage
<1>8. ASSUME NEW w \in Resolvers, UpdateRow(w) \/ DeleteFile(w) \/ InsertAudit(w)
      PROVE  DeliveredBeforeUpdate'
  <2>1. req[w].pc # "idle" /\ UNCHANGED handed
    BY <1>8 DEF UpdateRow, AtUpdate, DeleteFile, InsertAudit
  <2>2. req[w].want = "released" => handed[req[w].event] # << >>
    BY <1>8, <1>a DEF UpdateRow, AtUpdate, DeleteFile, InsertAudit,
       DeliveredBeforeUpdate, RequestsConsistent, LockStates
  <2> QED BY <1>4, <1>5, <1>8, <2>1, <2>2 DEF UpdateRow, DeleteFile, InsertAudit
<1> QED
  BY <1>1, <1>2, <1>3, <1>6, <1>7, <1>8 DEF QuarantineNext, Progress, Failure, Storing,
     StoreFile, InsertRow, InsertRowFails, AnnounceRow, StoreStops, ReadInbox, quarantineVars

\* Only StoreFile of an event not yet recorded files a message, so what a
\* deletion has removed does not come back.
LEMMA NoRefiling ==
    ASSUME QuarantineIInv, [QuarantineNext]_quarantineVars
    PROVE  \A e \in Events, p \in Paths :
               row[e] # "none" /\ stored[p] # e => stored'[p] # e
<1>a. /\ stored \in [Paths -> Events \cup {Absent}]
      /\ RowsWereInserted /\ Absent \notin Events
  BY ConstantAssumptions DEF QuarantineIInv, QuarantineTypeOK
<1> DEFINE Kept == \A e \in Events, p \in Paths :
                       row[e] # "none" /\ stored[p] # e => stored'[p] # e
<1>1. ASSUME NEW f \in Events, StoreFile(f) PROVE Kept
  BY <1>1, <1>a DEF StoreFile, RowsWereInserted
<1>2. ASSUME NEW p, stored' = [stored EXCEPT ![p] = Absent] PROVE Kept
  BY <1>2, <1>a
<1>3. CASE UNCHANGED stored
  BY <1>3
<1> QED
  BY <1>1, <1>2, <1>3 DEF QuarantineNext, Storing, Progress, Failure, quarantineVars,
     InsertRow, InsertRowFails, AnnounceRow, StoreStops, Begin, ReadInbox,
     OpenSource, SendSMTP, CreateTarget, RefuseRelease, CopyMessage, CopyFails,
     UpdateRow, DeleteFile, InsertAudit, Commit, Abort

\* Every step leaves no copy of a message whose deletion can be committed.
LEMMA PurgedStep == QuarantineIInv /\ [QuarantineNext]_quarantineVars => PurgedBeforeCommit'
<1> SUFFICES ASSUME QuarantineIInv, [QuarantineNext]_quarantineVars PROVE PurgedBeforeCommit'
  OBVIOUS
<1>a. /\ req \in [Resolvers -> Requests]
      /\ RequestsConsistent /\ PurgedBeforeCommit
  BY DEF QuarantineIInv, QuarantineTypeOK, Requests
<1>b. \A e \in Events, p \in Paths :
          row[e] # "none" /\ stored[p] # e => stored'[p] # e
  BY NoRefiling
<1>1. CASE UNCHANGED req
  BY <1>1, <1>a, <1>b DEF PurgedBeforeCommit, RequestsConsistent
<1>2. ASSUME NEW w \in Resolvers, NEW e \in Events, NEW o \in Outcomes, Begin(w, e, o)
      PROVE  PurgedBeforeCommit'
  BY <1>2, <1>a, <1>b DEF PurgedBeforeCommit, Begin, RequestsConsistent
<1>3. ASSUME NEW w \in Resolvers, OpenSource(w) PROVE PurgedBeforeCommit'
  BY <1>3, <1>a, <1>b DEF PurgedBeforeCommit, OpenSource, RequestsConsistent
<1>4. ASSUME NEW w \in Resolvers, NEW label, Reach(w, label),
             label \in {"filed", "audited"} /\ req[w].want = "deleted"
                 => \A p \in Paths : stored'[p] # req[w].event
      PROVE  PurgedBeforeCommit'
  <2> SUFFICES ASSUME NEW v \in Resolvers, NEW p \in Paths,
                      req'[v].pc \in {"filed", "audited"},
                      req'[v].want = "deleted"
               PROVE  stored'[p] # req'[v].event
    BY DEF PurgedBeforeCommit
  <2>1. /\ req'[v].pc = IF v = w THEN label ELSE req[v].pc
        /\ req'[v].event = req[v].event /\ req'[v].want = req[v].want
    BY <1>4, <1>a, GotoEffect
  <2>2. CASE v = w
    BY <1>4, <2>1, <2>2
  <2>3. CASE v # w
    BY <2>1, <2>3, <1>a, <1>b DEF PurgedBeforeCommit, RequestsConsistent
  <2> QED BY <2>2, <2>3
<1>5. ASSUME NEW w \in Resolvers, Return(w) PROVE PurgedBeforeCommit'
  BY <1>5, <1>a, <1>b, ReturnEffect DEF PurgedBeforeCommit, RequestsConsistent
<1>6. ASSUME NEW w \in Resolvers, SendSMTP(w) \/ CreateTarget(w) \/ CopyMessage(w)
               \/ CopyFails(w) \/ RefuseRelease(w) \/ UpdateRow(w) \/ Abort(w)
               \/ Commit(w)
      PROVE  PurgedBeforeCommit'
  BY <1>4, <1>5, <1>6 DEF SendSMTP, CreateTarget, CopyMessage, CopyFails,
     RefuseRelease, UpdateRow, Abort, Commit
<1>7. ASSUME NEW w \in Resolvers, DeleteFile(w) PROVE PurgedBeforeCommit'
  <2>1. \A p \in Paths : stored'[p] # req[w].event
    BY <1>7, <1>a, ConstantAssumptions DEF DeleteFile, QuarantineIInv, QuarantineTypeOK,
       FilesInPlace, RequestsConsistent
  <2> QED BY <1>4, <1>7, <2>1 DEF DeleteFile
<1>8. ASSUME NEW w \in Resolvers, InsertAudit(w) PROVE PurgedBeforeCommit'
  <2>1. req[w].want = "deleted" => \A p \in Paths : stored[p] # req[w].event
    BY <1>8, <1>a DEF InsertAudit, PurgedBeforeCommit
  <2> QED BY <1>4, <1>8, <2>1 DEF InsertAudit
<1> QED
  BY <1>1, <1>2, <1>3, <1>6, <1>7, <1>8 DEF QuarantineNext, Progress, Failure, Storing,
     StoreFile, InsertRow, InsertRowFails, AnnounceRow, StoreStops, ReadInbox, quarantineVars

\* The three invariants on what is committed change with InsertRow and Commit
\* only; the other steps keep what they say.
LEMMA CommittedStep ==
    QuarantineIInv /\ [QuarantineNext]_quarantineVars => /\ AuditMatchesStatus'
                          /\ ReleasedWasDelivered'
                          /\ DeletedLeavesNoCopy'
<1> SUFFICES ASSUME QuarantineIInv, [QuarantineNext]_quarantineVars
             PROVE  AuditMatchesStatus' /\ ReleasedWasDelivered' /\ DeletedLeavesNoCopy'
  OBVIOUS
<1>a. /\ row \in [Events -> RowStates]
      /\ audit \in [Events -> Seq(Outcomes)]
      /\ RequestsConsistent /\ RowsWereInserted /\ LocksExclusive
      /\ DeliveredBeforeUpdate /\ PurgedBeforeCommit
      /\ AuditMatchesStatus /\ ReleasedWasDelivered /\ DeletedLeavesNoCopy
  BY DEF QuarantineIInv, QuarantineTypeOK
<1>b. \A e \in Events : handed[e] # << >> => handed'[e] # << >>
  BY HandedGrows
<1>c. \A e \in Events, p \in Paths :
          row[e] # "none" /\ stored[p] # e => stored'[p] # e
  BY NoRefiling
<1>1. ASSUME NEW e \in Events, InsertRow(e)
      PROVE  AuditMatchesStatus' /\ ReleasedWasDelivered' /\ DeletedLeavesNoCopy'
  <2>1. row[e] = "none"
    BY <1>1, <1>a DEF InsertRow, RowsWereInserted
  <2> QED BY <1>1, <2>1, <1>a DEF InsertRow, AuditMatchesStatus,
             ReleasedWasDelivered, DeletedLeavesNoCopy, Outcomes
<1>2. ASSUME NEW w \in Resolvers, Commit(w)
      PROVE  AuditMatchesStatus' /\ ReleasedWasDelivered' /\ DeletedLeavesNoCopy'
  <2>1. /\ req[w].event \in Events /\ row[req[w].event] = "held"
        /\ req[w].want \in Outcomes
    <3>1. req[w].pc = "audited" /\ req[w].pc \in LockStates
      BY <1>2 DEF Commit, LockStates
    <3>2. row[req[w].event] = "held"
      BY <3>1, <1>a DEF LocksExclusive
    <3> QED BY <3>1, <3>2, <1>a DEF RequestsConsistent
  <2>2. AuditMatchesStatus'
    <3>1. audit[req[w].event] = << >>
      BY <2>1, <1>a DEF AuditMatchesStatus, Outcomes
    <3>2. Append(<< >>, req[w].want) = <<req[w].want>>
      BY <2>1
    <3>3. \A e \in Events :
             /\ row'[e] = IF e = req[w].event THEN req[w].want ELSE row[e]
             /\ audit'[e] = IF e = req[w].event THEN <<req[w].want>> ELSE audit[e]
      BY <1>2, <1>a, <3>1, <3>2 DEF Commit
    <3> QED BY <2>1, <3>3, <1>a DEF AuditMatchesStatus
  <2>3. req[w].want = "released" => handed[req[w].event] # << >>
    BY <1>2, <1>a DEF Commit, DeliveredBeforeUpdate, LockStates
  <2>4. ReleasedWasDelivered'
    BY <1>2, <2>1, <2>3, <1>a DEF Commit, ReleasedWasDelivered
  <2>5. req[w].want = "deleted" => \A p \in Paths : stored[p] # req[w].event
    BY <1>2, <1>a DEF Commit, PurgedBeforeCommit
  <2>6. DeletedLeavesNoCopy'
    BY <1>2, <2>1, <2>5, <1>a DEF Commit, DeletedLeavesNoCopy
  <2> QED BY <2>2, <2>4, <2>6
<1>3. CASE UNCHANGED <<row, audit>>
  BY <1>3, <1>a, <1>b, <1>c DEF AuditMatchesStatus, ReleasedWasDelivered,
     DeletedLeavesNoCopy
<1> QED
  BY <1>1, <1>2, <1>3 DEF QuarantineNext, Progress, Failure, Storing, quarantineVars, StoreFile,
     InsertRowFails, AnnounceRow, StoreStops, Begin, ReadInbox, OpenSource,
     SendSMTP, CreateTarget, RefuseRelease, CopyMessage, CopyFails, UpdateRow,
     DeleteFile, InsertAudit, Abort

-----------------------------------------------------------------------------

\* The initial state: no event, no file, every request idle.
LEMMA InitIInv == QuarantineInit => QuarantineIInv
<1> SUFFICES ASSUME QuarantineInit PROVE QuarantineIInv
  OBVIOUS
<1>1. QuarantineTypeOK
  BY ConstantAssumptions DEF QuarantineInit, QuarantineTypeOK, RowStates, Stages, Idle
<1>2. /\ AuditMatchesStatus /\ ReleasedWasDelivered /\ DeletedLeavesNoCopy
      /\ RowsWereInserted
  BY DEF QuarantineInit, AuditMatchesStatus, ReleasedWasDelivered, DeletedLeavesNoCopy,
     RowsWereInserted, Outcomes
<1>3. FilesInPlace
  BY DEF QuarantineInit, FilesInPlace
<1>4. /\ RequestsConsistent /\ LocksExclusive
      /\ DeliveredBeforeUpdate /\ PurgedBeforeCommit
  BY DEF QuarantineInit, RequestsConsistent, LocksExclusive, DeliveredBeforeUpdate,
     PurgedBeforeCommit, LockStates, Idle
<1> QED BY <1>1, <1>2, <1>3, <1>4 DEF QuarantineIInv

\* The inductive invariant: types, what each request's place implies about its
\* event, exclusive row locks, and the properties of what is committed.
THEOREM QuarantineAlways == QuarantineSpec => []QuarantineIInv
<1>1. QuarantineInit => QuarantineIInv
  BY InitIInv
<1>2. QuarantineIInv /\ [QuarantineNext]_quarantineVars => QuarantineIInv'
  BY TypeStep, RequestsStep, LocksStep, RowsStep, FilesStep, DeliveredStep,
     PurgedStep, CommittedStep DEF QuarantineIInv
<1> QED BY <1>1, <1>2, PTL DEF QuarantineSpec

\* Every variable keeps its type, in every instance.
THEOREM QuarantineTypes == QuarantineSpec => []QuarantineTypeOK
<1>1. QuarantineIInv => QuarantineTypeOK
  BY DEF QuarantineIInv
<1> QED BY <1>1, QuarantineAlways, PTL

\* However many resolutions of an event run at once, its audit trail is exactly
\* its committed resolution.
THEOREM AuditCorrect == QuarantineSpec => []AuditMatchesStatus
<1>1. QuarantineIInv => AuditMatchesStatus
  BY DEF QuarantineIInv
<1> QED BY <1>1, QuarantineAlways, PTL

\* A row never says released before the recipient was handed a message.
THEOREM ReleaseCorrect == QuarantineSpec => []ReleasedWasDelivered
<1>1. QuarantineIInv => ReleasedWasDelivered
  BY DEF QuarantineIInv
<1> QED BY <1>1, QuarantineAlways, PTL

\* Once a row says deleted, the store has no copy of its message, even where
\* several messages share a path.
THEOREM DeleteCorrect == QuarantineSpec => []DeletedLeavesNoCopy
<1>1. QuarantineIInv => DeletedLeavesNoCopy
  BY DEF QuarantineIInv
<1> QED BY <1>1, QuarantineAlways, PTL

\* The outcome in a row is what happened to the message.
THEOREM OutcomeCorrect == QuarantineSpec => []ResolvedAsRecorded
<1>1. ReleasedWasDelivered /\ DeletedLeavesNoCopy => ResolvedAsRecorded
  BY DEF ResolvedAsRecorded
<1> QED BY <1>1, ReleaseCorrect, DeleteCorrect, PTL

\* A released copy waiting in new/ is never overwritten by another release.
THEOREM CopyStays == QuarantineSpec => CopyNotOverwritten
<1> DEFINE Kept == \A s \in Slots : inbox[s] # Absent => inbox'[s] \in {inbox[s], Absent}
<1>1. QuarantineIInv /\ [QuarantineNext]_quarantineVars => [Kept]_quarantineVars
  <2> SUFFICES ASSUME QuarantineIInv, [QuarantineNext]_quarantineVars PROVE Kept
    OBVIOUS
  <2>a. inbox \in [Slots -> Events \cup {Absent}]
    BY DEF QuarantineIInv, QuarantineTypeOK
  <2>1. ASSUME NEW w \in Resolvers, CreateTarget(w) PROVE Kept
    BY <2>1, <2>a DEF CreateTarget
  <2>2. ASSUME NEW s, inbox' = [inbox EXCEPT ![s] = Absent] PROVE Kept
    BY <2>2, <2>a
  <2>3. CASE UNCHANGED inbox
    BY <2>3
  <2> QED
    BY <2>1, <2>2, <2>3 DEF QuarantineNext, Storing, Progress, Failure, quarantineVars, StoreFile,
       InsertRow, InsertRowFails, AnnounceRow, StoreStops, Begin, ReadInbox,
       OpenSource, SendSMTP, RefuseRelease, CopyMessage, CopyFails,
       UpdateRow, DeleteFile, InsertAudit, Commit, Abort
<1> QED BY <1>1, QuarantineAlways, PTL DEF QuarantineSpec, CopyNotOverwritten

\* Where its path is its own, the file of a held message goes away only by a
\* resolution that wants it deleted and has locked the row.
THEOREM RemovalCorrect == QuarantineSpec => OnlyADeleteRemovesAHeldFile
<1> DEFINE Justified ==
      \A e \in Events :
         (HasOwnPath(e) /\ row[e] = "held" /\ stored[PathOf(e)] = e)
            => \/ stored'[PathOf(e)] = e
               \/ \E w \in Resolvers : HoldsRow(w, e) /\ req[w].want = "deleted"
<1>1. QuarantineIInv /\ [QuarantineNext]_quarantineVars => [Justified]_quarantineVars
  <2> SUFFICES ASSUME QuarantineIInv, [QuarantineNext]_quarantineVars PROVE Justified
    OBVIOUS
  <2>a. /\ stored \in [Paths -> Events \cup {Absent}]
        /\ RequestsConsistent /\ RowsWereInserted
    BY DEF QuarantineIInv, QuarantineTypeOK
  <2>1. ASSUME NEW f \in Events, StoreFile(f) \/ InsertRowFails(f) PROVE Justified
    <3> SUFFICES ASSUME NEW e \in Events,
                        HasOwnPath(e), row[e] = "held", stored[PathOf(e)] = e
                 PROVE  stored'[PathOf(e)] = e
      OBVIOUS
    <3>1. e # f
      BY <2>1, <2>a DEF StoreFile, InsertRowFails, RowsWereInserted
    <3>2. PathOf(e) # PathOf(f)
      BY <3>1 DEF HasOwnPath
    <3>3. stored' = [stored EXCEPT ![PathOf(f)] = stored'[PathOf(f)]]
      BY <2>1, <2>a, PathInPaths DEF StoreFile, InsertRowFails
    <3> QED BY <3>2, <3>3, <2>a, PathInPaths
  <2>2. ASSUME NEW w \in Resolvers, DeleteFile(w) PROVE Justified
    <3>1. /\ req[w].event \in Events /\ req[w].want = "deleted"
          /\ HoldsRow(w, req[w].event)
      BY <2>2, <2>a DEF DeleteFile, RequestsConsistent, HoldsRow, LockStates
    <3> QED BY <2>2, <3>1, <2>a DEF DeleteFile, HasOwnPath
  <2>3. CASE UNCHANGED stored
    BY <2>3
  <2> QED
    BY <2>1, <2>2, <2>3 DEF QuarantineNext, Storing, Progress, Failure, quarantineVars,
       InsertRow, AnnounceRow, StoreStops, Begin, ReadInbox, OpenSource,
       SendSMTP, CreateTarget, RefuseRelease, CopyMessage, CopyFails,
       UpdateRow, InsertAudit, Commit, Abort
<1> QED BY <1>1, QuarantineAlways, PTL DEF QuarantineSpec, OnlyADeleteRemovesAHeldFile

\* Every behaviour of the pipeline is one of the abstract specification: an
\* event is held once and resolved at most once, its log entry appearing with it.
THEOREM ResolutionImplemented == QuarantineSpec => ImplementsResolution
<1>1. QuarantineInit => Abstract!Init
  BY DEF QuarantineInit, Abstract!Init
<1>2. QuarantineIInv /\ [QuarantineNext]_quarantineVars => [Abstract!Next]_<<row, audit>>
  <2> SUFFICES ASSUME QuarantineIInv, [QuarantineNext]_quarantineVars
               PROVE  Abstract!Next \/ UNCHANGED <<row, audit>>
    OBVIOUS
  <2>1. ASSUME NEW e \in Events, InsertRow(e) PROVE Abstract!Next
    BY <2>1 DEF QuarantineIInv, RowsWereInserted, InsertRow, Abstract!Next, Abstract!Hold
  <2>2. ASSUME NEW w \in Resolvers, Commit(w) PROVE Abstract!Next
    <3>0. req[w].pc = "audited" /\ req[w].pc \in LockStates
      BY <2>2 DEF Commit, LockStates
    <3>1. /\ req[w].event \in Events /\ row[req[w].event] = "held"
          /\ req[w].want \in {"released", "deleted"}
      BY <3>0 DEF QuarantineIInv, LocksExclusive, RequestsConsistent, Outcomes
    <3>2. Abstract!Resolve(req[w].event, req[w].want)
      BY <2>2, <3>1 DEF Commit, Abstract!Resolve
    <3> QED BY <3>1, <3>2 DEF Abstract!Next
  <2>3. CASE UNCHANGED <<row, audit>>
    BY <2>3
  <2> QED
    BY <2>1, <2>2, <2>3 DEF QuarantineNext, Storing, Progress, Failure, quarantineVars, StoreFile,
       InsertRowFails, AnnounceRow, StoreStops, Begin, ReadInbox, OpenSource,
       SendSMTP, CreateTarget, RefuseRelease, CopyMessage, CopyFails,
       UpdateRow, DeleteFile, InsertAudit, Abort
<1> QED
  BY <1>1, <1>2, QuarantineAlways, PTL DEF QuarantineSpec, ImplementsResolution, Abstract!Spec

=============================================================================
