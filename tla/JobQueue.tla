------------------------------- MODULE JobQueue -------------------------------
(* What the tls_certificate_jobs table promises: each job is handed to one   *)
(* worker, once, and its result is final.                                    *)

CONSTANTS Jobs

VARIABLES
    queued,    \* jobs that wait
    taken,     \* jobs handed to a worker and not answered
    succeeded, failed

Init == queued = {} /\ taken = {} /\ succeeded = {} /\ failed = {}

Add == \E j \in Jobs \ (queued \cup taken \cup succeeded \cup failed) :
          /\ queued' = queued \cup {j}
          /\ UNCHANGED <<taken, succeeded, failed>>

Take == \E j \in queued :
           /\ queued' = queued \ {j}
           /\ taken' = taken \cup {j}
           /\ UNCHANGED <<succeeded, failed>>

Answer == \E j \in taken :
             /\ taken' = taken \ {j}
             /\ \/ succeeded' = succeeded \cup {j} /\ UNCHANGED failed
                \/ failed' = failed \cup {j} /\ UNCHANGED succeeded
             /\ UNCHANGED queued

Next == Add \/ Take \/ Answer

Spec == Init /\ [][Next]_<<queued, taken, succeeded, failed>>

=============================================================================
