----------------------------- MODULE Resolution -----------------------------
(***************************************************************************)
(* What the quarantine promises an administrator, whatever happens         *)
(* underneath: an event appears once as held, is resolved at most once,    *)
(* and the log entry of the resolution appears in the same instant.        *)
(***************************************************************************)
EXTENDS Sequences

CONSTANT Events

VARIABLES status, log

Init == /\ status = [e \in Events |-> "none"]
        /\ log = [e \in Events |-> << >>]

Hold(e) == /\ status[e] = "none"
           /\ status' = [status EXCEPT ![e] = "held"]
           /\ UNCHANGED log

Resolve(e, outcome) == /\ status[e] = "held"
                       /\ status' = [status EXCEPT ![e] = outcome]
                       /\ log' = [log EXCEPT ![e] = Append(@, outcome)]

Next == \E e \in Events : \/ Hold(e)
                          \/ \E o \in {"released", "deleted"} : Resolve(e, o)

Spec == Init /\ [][Next]_<<status, log>>

=============================================================================
