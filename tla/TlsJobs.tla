------------------------------- MODULE TlsJobs -------------------------------
(***************************************************************************)
(* The TLS certificate jobs: the admin panel queues them in a table, and   *)
(* `mailctl process-tls-jobs`, started every minute by a systemd timer or  *)
(* by hand, takes them one after the other: certbot, the certificate       *)
(* inventory, the proxy, the mail services.                                *)
(*                                                                         *)
(*   cmd/mailctl/main.go           the worker and the inventory            *)
(*   internal/admin/sql_store.go   CreateTLSCertificateJob                 *)
(*                                                                         *)
(* Certificates of one domain: a certificate is its generation, 0 is none. *)
(* Every statement of a worker commits by itself, and a worker may be      *)
(* killed between any two of them.                                         *)
(***************************************************************************)
EXTENDS Naturals, Sequences

CONSTANTS
    Workers,  \* runs of process-tls-jobs that may overlap
    None,     \* no job
    Limit,    \* --limit: jobs of one run
    MaxJobs,  \* bound: jobs created
    MaxCerts, \* bound: certificates issued
    MaxRows   \* bound: rows of the inventory

Kinds == {"issue", "renew", "check", "deploy"}
Statuses == {"queued", "running", "succeeded", "failed"}
Rows == [kind : Kinds, status : Statuses]

ASSUME JobAssumptions ==
    /\ Limit \in Nat \ {0}
    /\ MaxJobs \in Nat /\ MaxCerts \in Nat /\ MaxRows \in Nat
    /\ None \notin Nat /\ None \notin Rows

Jobs == 1..MaxJobs
Certs == 0..MaxCerts

VARIABLES
    inUse,  \* the domain's status is pending or active
    job,    \* job -> its row in tls_certificate_jobs, or None
    jobs,   \* how many were created: ids ascend with created_at
    cert,   \* the certificate under /etc/letsencrypt/live
    rows,   \* tls_certificates: the rows of that path
    web,    \* the certificate nginx has loaded
    mail,   \* the certificate the mail services have loaded, None when their
            \* tables leave the domain out
    worker, \* worker -> its place in the loop, its job, the certificate read
    issued, \* job -> the certificate in place when its certbot run returned
    lost,   \* jobs whose worker died, or could not record their result
    excused \* jobs that were worked on while another was, or whose inventory
            \* run passed over the domain

files == <<cert, web, mail>>
history == <<issued, lost, excused>>
vars == <<inUse, job, jobs, files, rows, worker, history>>

Stopped == [pc |-> "stopped", job |-> None, cert |-> 0, done |-> 0]
Selecting(done) == [pc |-> "select", job |-> None, cert |-> 0, done |-> done]

Init == /\ inUse \in BOOLEAN
        /\ job = [j \in Jobs |-> None]
        /\ jobs = 0
        /\ cert = 0 /\ rows = <<>> /\ web = 0 /\ mail = 0
        /\ worker = [w \in Workers |-> Stopped]
        /\ issued = [j \in Jobs |-> 0]
        /\ lost = {} /\ excused = {}

Queued(j) == job[j] # None /\ job[j].status = "queued"
SetStatus(j, status) == job' = [job EXCEPT ![j].status = status]
At(w, label) == worker[w].pc = label
Become(w, r) == worker' = [worker EXCEPT ![w] = r]
Goto(w, label) == Become(w, [worker[w] EXCEPT !.pc = label])
Stop(w) == Become(w, Stopped)

PCs == {"stopped", "select", "claim", "work", "issued", "sync", "upsert",
        "insert", "proxy", "services", "finish", "fail"}
Busy == PCs \ {"stopped", "select", "claim"}
Others(w) == {worker[v].job : v \in {v \in Workers \ {w} : worker[v].pc \in Busy}}

-----------------------------------------------------------------------------
(* The admin panel.                                                        *)

\* CreateTLSCertificateJob; "import" jobs are worked on as "issue" jobs are.
Create(kind) ==
    /\ jobs < MaxJobs
    /\ jobs' = jobs + 1
    /\ job' = [job EXCEPT ![jobs'] = [kind |-> kind, status |-> "queued"]]
    /\ UNCHANGED <<inUse, files, rows, worker, history>>

\* UpdateDomain and DeleteDomain: jobs of the domain are created and worked on
\* whatever its status.
UpdateDomain ==
    /\ inUse' = ~inUse
    /\ UNCHANGED <<job, jobs, files, rows, worker, history>>

-----------------------------------------------------------------------------
(* The loop of process-tls-jobs.                                           *)

Start(w) ==
    /\ At(w, "stopped")
    /\ Become(w, Selecting(0))
    /\ UNCHANGED <<inUse, job, jobs, files, rows, history>>

\* claimTLSJob selects the oldest queued job;
Select(w) ==
    /\ At(w, "select")
    /\ \/ (\A j \in Jobs : ~Queued(j)) /\ Stop(w)
       \/ \E j \in Jobs :
             /\ Queued(j) /\ \A k \in Jobs : Queued(k) => j <= k
             /\ Become(w, [worker[w] EXCEPT !.pc = "claim", !.job = j])
    /\ UNCHANGED <<inUse, job, jobs, files, rows, history>>

\* Variant: the UPDATE is by id alone.
ClaimBlind(w) ==
    /\ At(w, "claim")
    /\ SetStatus(worker[w].job, "running")
    /\ Goto(w, "work")
    /\ UNCHANGED <<inUse, jobs, files, rows, history>>

\* and takes it unless another worker was faster.  A lost claim reads as an
\* empty queue: it ends the run.
Claim(w) ==
    /\ At(w, "claim")
    /\ IF Queued(worker[w].job)
       THEN /\ SetStatus(worker[w].job, "running") /\ Goto(w, "work")
            /\ excused' = excused \cup
                  IF Others(w) = {} THEN {} ELSE Others(w) \cup {worker[w].job}
       ELSE Stop(w) /\ UNCHANGED <<job, excused>>
    /\ UNCHANGED <<inUse, jobs, files, rows, issued, lost>>

\* Variant: one job more than --limit.
NextRoundPast(w) ==
    LET done == worker[w].done + 1 IN
    IF done <= Limit THEN Become(w, Selecting(done))
    ELSE Stop(w)

\* The end of a round of the loop.
NextRound(w) ==
    LET done == worker[w].done + 1 IN
    IF done < Limit THEN Become(w, Selecting(done))
    ELSE Stop(w)

\* Variant: a failed job is queued again.
FailRequeues(w) ==
    /\ At(w, "fail")
    /\ SetStatus(worker[w].job, "queued")
    /\ NextRound(w)
    /\ UNCHANGED <<inUse, jobs, files, rows, history>>

\* updateTLSJobFailed, whose own error is ignored.
Fail(w) ==
    LET j == worker[w].job IN
    /\ At(w, "fail")
    /\ \/ SetStatus(j, "failed") /\ UNCHANGED lost
       \/ lost' = lost \cup {j} /\ UNCHANGED job
    /\ NextRound(w)
    /\ UNCHANGED <<inUse, jobs, files, rows, issued, excused>>

-----------------------------------------------------------------------------
(* processTLSJob.                                                          *)

Failing == {"work", "issued", "sync", "upsert", "insert", "proxy", "services",
            "finish"}

\* A step of it ends in an error: no hostname, a challenge that is not
\* automated, no DNS token, a command or statement that fails.
GiveUp(w) ==
    /\ worker[w].pc \in Failing
    /\ Goto(w, "fail")
    /\ UNCHANGED <<inUse, job, jobs, files, rows, history>>

\* A check or a deployment needs no certificate from the authority.
Work(w) ==
    /\ At(w, "work")
    /\ job[worker[w].job].kind \in {"check", "deploy"}
    /\ Goto(w, "sync")
    /\ UNCHANGED <<inUse, job, jobs, files, rows, history>>

\* runCertbotForTLSJob: a renewal is forced, otherwise certbot may find the
\* certificate in place not due.
Certbot(w) ==
    LET j == worker[w].job IN
    /\ At(w, "work")
    /\ job[j].kind \in {"issue", "renew"}
    /\ \/ cert < MaxCerts /\ cert' = cert + 1
       \/ job[j].kind = "issue" /\ cert # 0 /\ UNCHANGED cert
    /\ issued' = [issued EXCEPT ![j] = cert']
    /\ Goto(w, "issued")
    /\ UNCHANGED <<inUse, job, jobs, rows, web, mail, lost, excused>>

\* The last progress report of it is the one whose error counts.
Issued(w) ==
    /\ At(w, "issued")
    /\ Goto(w, "sync")
    /\ UNCHANGED <<inUse, job, jobs, files, rows, history>>

\* syncTLSInventory reads the certificate, if there is one and the domain is in
\* use.
Sync(w) ==
    LET found == inUse /\ cert # 0 IN
    /\ At(w, "sync")
    /\ Become(w, [worker[w] EXCEPT !.pc = IF found THEN "upsert" ELSE "proxy",
                                   !.cert = cert])
    /\ excused' = excused \cup IF inUse THEN {} ELSE {worker[w].job}
    /\ UNCHANGED <<inUse, job, jobs, files, rows, issued, lost>>

\* Variant: a certificate that is on record is left alone.
UpsertOnce(w) ==
    /\ At(w, "upsert")
    /\ Goto(w, IF rows = <<>> THEN "insert" ELSE "proxy")
    /\ UNCHANGED <<inUse, job, jobs, files, rows, history>>

\* The UPDATE reports the rows it changed, not the rows it matched.
Upsert(w) ==
    LET c == worker[w].cert
        same == \A i \in DOMAIN rows : rows[i] = c
    IN
    /\ At(w, "upsert")
    /\ rows' = [i \in DOMAIN rows |-> c]
    /\ Goto(w, IF same THEN "insert" ELSE "proxy")
    /\ UNCHANGED <<inUse, job, jobs, files, history>>

Insert(w) ==
    /\ At(w, "insert")
    /\ Len(rows) < MaxRows
    /\ rows' = Append(rows, worker[w].cert)
    /\ Goto(w, "proxy")
    /\ UNCHANGED <<inUse, job, jobs, files, history>>

\* sync-proxy --reload.
SyncProxy(w) ==
    /\ At(w, "proxy")
    /\ web' = cert
    /\ Goto(w, "services")
    /\ UNCHANGED <<inUse, job, jobs, cert, mail, rows, history>>

\* The services are given this certificate.  Their tables leave out a domain
\* that is not in use, but for the main host's.
LoadMail(w, c) ==
    /\ At(w, "services")
    /\ mail' \in {c} \cup IF inUse THEN {} ELSE {None}
    /\ Goto(w, "finish")
    /\ UNCHANGED <<inUse, job, jobs, cert, web, rows, history>>

\* Variant: the services are given what the inventory holds.
ApplyRecorded(w) == LoadMail(w, worker[w].cert)

\* mailctl render, apply-mail-config.
Apply(w) == LoadMail(w, cert)

\* The last UPDATE does not look at the status it replaces.
Finish(w) ==
    /\ At(w, "finish")
    /\ SetStatus(worker[w].job, "succeeded")
    /\ NextRound(w)
    /\ UNCHANGED <<inUse, jobs, files, rows, history>>

\* The process is killed, the machine restarts, or a statement of the claim
\* fails, which is fatal.
Crash(w) ==
    /\ ~At(w, "stopped")
    /\ Stop(w)
    /\ lost' = lost \cup IF worker[w].pc \in {"select", "claim"} THEN {}
                         ELSE {worker[w].job}
    /\ UNCHANGED <<inUse, job, jobs, files, rows, issued, excused>>

-----------------------------------------------------------------------------

Step(w) == \/ Start(w) \/ Select(w) \/ Claim(w) \/ Fail(w) \/ GiveUp(w)
           \/ Work(w) \/ Certbot(w) \/ Issued(w)
           \/ Sync(w) \/ Upsert(w) \/ Insert(w)
           \/ SyncProxy(w) \/ Apply(w) \/ Finish(w) \/ Crash(w)

Next == \/ \E kind \in Kinds : Create(kind)
        \/ UpdateDomain
        \/ \E w \in Workers : Step(w)

Spec == Init /\ [][Next]_vars

\* The timer starts a worker again, commands return (an error is a return),
\* and neither kills nor errors are so frequent that a statement that is
\* tried again and again never succeeds.
Fairness == \A w \in Workers :
    /\ WF_vars(Start(w)) /\ WF_vars(Fail(w)) /\ WF_vars(GiveUp(w))
    /\ SF_vars(Select(w)) /\ SF_vars(Claim(w))

FairSpec == Spec /\ Fairness

-----------------------------------------------------------------------------
(* Properties                                                              *)

Places == [pc : PCs, job : Jobs \cup {None}, cert : Certs, done : 0..(Limit - 1)]

TablesOK ==
    /\ inUse \in BOOLEAN
    /\ jobs \in 0..MaxJobs
    /\ job \in [Jobs -> Rows \cup {None}]
    /\ \A j \in Jobs : job[j] # None <=> j <= jobs
    /\ cert \in Certs /\ web \in Certs /\ mail \in Certs \cup {None}
    /\ rows \in Seq(Certs)
    /\ issued \in [Jobs -> Certs]
    /\ lost \subseteq Jobs /\ excused \subseteq Jobs

\* A worker past its SELECT has a job that exists.
Fits(r) == r.pc \notin {"stopped", "select"} => r.job \in 1..jobs
WorkersOK == worker \in [Workers -> Places] /\ \A w \in Workers : Fits(worker[w])

\* Jobs fill the table in the order of their ids; each worker is well formed.
TypeOK == TablesOK /\ WorkersOK

\* Two runs of the worker that overlap never work on the same job.
OneWorkerPerJob ==
    \A v, w \in Workers :
        v # w /\ worker[v].pc \in Busy /\ worker[w].pc \in Busy =>
            worker[v].job # worker[w].job

\* A job that is shown as running is being worked on, unless its worker was
\* killed or failed to record the failure: every error path answers the job.
RunningIsHeldOrLost ==
    \A j \in Jobs :
        job[j] # None /\ job[j].status = "running" =>
            \/ j \in lost
            \/ \E w \in Workers : worker[w].pc \in Busy /\ worker[w].job = j

\* When a job is answered with success, both the proxy and the mail services
\* serve a certificate at least as new as the one its certbot run left, also
\* when another worker issued and deployed in between.  The mail services do not
\* if the domain was out of use when they were given their tables.
SucceededIsServed ==
    \A j \in Jobs :
        job[j] # None /\ job[j].status = "succeeded" =>
            web >= issued[j] /\ (mail = None \/ mail >= issued[j])

\* The status of a job tells what became of it: running ones have a worker or
\* have lost it, succeeded ones are served.
StatusIsTrue == RunningIsHeldOrLost /\ SucceededIsServed

\* When a job is answered with success, the inventory holds in every row of
\* the path the certificate of that job or a newer one, for good.  Two kinds of
\* jobs are left out: one that was worked on while another was, whose worker may
\* write last what it had read first, and one whose inventory run passed over the
\* domain, because it was not in use.
SuccessIsRecorded ==
    \A j \in Jobs \ excused :
        job[j] # None /\ job[j].status = "succeeded" /\ issued[j] # 0 =>
            rows # <<>> /\ \A i \in DOMAIN rows : rows[i] >= issued[j]

\* The table is a JobQueue: one worker per job, once, with a final answer.
With(status) == {j \in Jobs : job[j] # None /\ job[j].status = status}
Queue == INSTANCE JobQueue WITH
    queued <- With("queued"), taken <- With("running"),
    succeeded <- With("succeeded"), failed <- With("failed")
ImplementsJobQueue == Queue!Spec

\* A queued job is taken, however the jobs before it end.
QueuedIsTaken == \A j \in Jobs : Queued(j) ~> ~Queued(j)

=============================================================================
