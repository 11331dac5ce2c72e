------------------------------ MODULE MCCompose ------------------------------
(* The instance of Compose for TLC.                                        *)
EXTENDS Compose, TLC

CONSTANTS r1, r2, m1, m2, own, shared

Symmetry == Permutations(Requests) \cup Permutations(Messages) \cup Permutations(Mailboxes)

Senders == {window.from} \cup {request[r].from : r \in Busy}
             \cup {draft[n].mailbox : n \in {k \in Names : draft[k] # None}}

\* The versions of two messages, or the senders and repeated sends of one: both
\* are explored, and not what they multiply to.
Explored ==
    \/ Cardinality(Senders) = 1 /\ sends <= 1
    \/ \A m, k \in Messages : text[m] <= 1 /\ (text[m] # 0 /\ text[k] # 0 => m = k)

==============================================================================
