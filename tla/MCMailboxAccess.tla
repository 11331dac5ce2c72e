--------------------------- MODULE MCMailboxAccess ---------------------------
(* Instances of MailboxAccess for TLC.                                     *)
EXTENDS MailboxAccess, TLC

CONSTANTS w1, w2, a1

Policy(available, forced, hosted) ==
    [available |-> available, forced |-> forced, hosted |-> hosted]

OptionalOnly == {Policy(TRUE, FALSE, FALSE)}
\* Nothing offered; an authenticator forced; the hosted service.
SomePolicies == {Policy(FALSE, FALSE, FALSE), Policy(TRUE, TRUE, FALSE),
                 Policy(TRUE, FALSE, TRUE)}

Symmetry == Permutations(Workers)

\* Two generated secrets, or three sessions, of which the first enrols and two are
\* opened by one challenge: both are explored, and not what they multiply to.
Explored == secrets <= 1 \/ sessions <= 2

=============================================================================
