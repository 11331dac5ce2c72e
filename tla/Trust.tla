-------------------------------- MODULE Trust --------------------------------
(***************************************************************************)
(* What the session manager promises: a session is signed in once, may be  *)
(* raised to trusted and lowered again while it lasts, and never returns   *)
(* after it has ended, whatever was in progress on it.                     *)
(***************************************************************************)
CONSTANT Sessions

VARIABLES signed, trusted, gone

Init == signed = {} /\ trusted = {} /\ gone = {}

SignIn(s) == /\ s \notin signed \cup gone
             /\ signed' = signed \cup {s}
             /\ UNCHANGED <<trusted, gone>>

Raise(s) == /\ s \in signed
            /\ trusted' = trusted \cup {s}
            /\ UNCHANGED <<signed, gone>>

Lower(s) == trusted' = trusted \ {s} /\ UNCHANGED <<signed, gone>>

End(S) == /\ signed' = signed \ S
          /\ trusted' = trusted \ S
          /\ gone' = gone \cup (signed \cap S)

Next == \/ \E s \in Sessions : SignIn(s)
        \/ \E s \in signed : Raise(s) \/ Lower(s)
        \/ \E S \in SUBSET signed : End(S)

Spec == Init /\ [][Next]_<<signed, trusted, gone>>

=============================================================================
