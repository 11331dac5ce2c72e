---------------------------- MODULE MCLoginGuard ----------------------------
(* An instance of LoginGuard for TLC: one account, which every login reaches *)
(* from one client address, so that two logins share both their keys.       *)
EXTENDS LoginGuard, TLC

CONSTANTS w1, w2, d1, a1, l1, ip1, acct

OneClient == l1 :> <<ip1, acct>>
OneName == l1 :> a1
LocksOneAccount == ip1 :> None @@ acct :> a1
OwnedByAccount == a1 :> {acct}

\* Two failures lock a key for one unit of time, three for two.
TwoStepPenalties == {[failures |-> 2, lockout |-> 1],
                     [failures |-> 3, lockout |-> 2]}

=============================================================================
