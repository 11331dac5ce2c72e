---------------------------- MODULE MCQuarantine ----------------------------
(* Instances of Quarantine for TLC.                                        *)
EXTENDS Quarantine, TLC

CONSTANTS e1, e2, e3, w1, w2, m1, t1, r1

\* Two copies of one message, which share a storage path, and one message
\* without a Message-ID, all for one mailbox.
SharedIDs == e1 :> m1 @@ e2 :> m1 @@ e3 :> NoID
OneTenant == [e \in Events |-> t1]
OneRecipient == [e \in Events |-> r1]

\* One process releases into the Maildir itself, the other over SMTP.
Mixed == w1 :> TRUE @@ w2 :> FALSE
OverSMTP == [w \in Resolvers |-> FALSE]

=============================================================================
