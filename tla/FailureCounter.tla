--------------------------- MODULE FailureCounter ---------------------------
(***************************************************************************)
(* What a login limiter counts, as the in-memory LoginLimiter does it      *)
(* under its mutex: a failure adds one to its key's tally, or starts a new *)
(* tally when the window is over; a success or an administrator forgets    *)
(* keys.  Nothing else changes a tally.                                    *)
(***************************************************************************)
EXTENDS Integers

CONSTANTS Keys, Window, None

VARIABLES tally, now

Init == /\ tally = [k \in Keys |-> None]
        /\ now = 0

\* t is the time the failing attempt read, at or before now.
Fail(k, t) ==
    /\ tally' = [tally EXCEPT ![k] =
                    IF @ = None \/ t - @.first > Window
                    THEN [count |-> 1, first |-> t]
                    ELSE [count |-> @.count + 1, first |-> @.first]]
    /\ UNCHANGED now

Forget(K) ==
    /\ tally' = [k \in Keys |-> IF k \in K THEN None ELSE tally[k]]
    /\ UNCHANGED now

Tick == now' = now + 1 /\ UNCHANGED tally

Next == \/ \E k \in Keys, t \in 0..now : Fail(k, t)
        \/ \E K \in SUBSET Keys : Forget(K)
        \/ Tick

Spec == Init /\ [][Next]_<<tally, now>>

=============================================================================
