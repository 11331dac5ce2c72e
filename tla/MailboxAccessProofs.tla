------------------------ MODULE MailboxAccessProofs ------------------------
(***************************************************************************)
(* Proofs about MailboxAccess, for every set of requests, accounts and     *)
(* policies and whatever the bounds: type correctness, SecretProved,       *)
(* SessionsProven, ResetIsFinal and ChallengeUsesBounded.                  *)
(***************************************************************************)
EXTENDS MailboxAccess, FiniteSetTheorems, TLAPS

-----------------------------------------------------------------------------
(* The inductive invariant.                                                *)

\* The secret a verification is about to write is one whose code was accepted.
EnablesProved ==
    \A w \in Workers : req[w].pc = "enable" => req[w].code \in proved

\* A login begun under an enabled authenticator still sees it enabled, has read
\* it as enabled, or has been answered.
Honoured(r) == r.needs => \/ r.pc = "security" /\ mfa[r.account].enabled # None
                          \/ r.pc = "decide" /\ r.enabled
NeedsHonoured == \A w \in Workers : Honoured(req[w])
\* The same of a request r in the next state.
HonouredNext(r) == r.needs => \/ r.pc = "security" /\ mfa'[r.account].enabled # None
                              \/ r.pc = "decide" /\ r.enabled

RowsOK == /\ UserOK /\ MfaOK /\ PolicyOK /\ ChallengeOK /\ SessionOK
          /\ CountersOK /\ HistoryOK
Pending == RequestsOK /\ EnablesProved /\ NeedsHonoured

IInv == RowsOK /\ Pending /\ SecretProved /\ SessionsProven

\* What a step does to the tables that requests depend on: no proof is lost and
\* no authenticator is disabled.
Steady == /\ MfaOK /\ MfaOK'
          /\ proved \subseteq proved'
          /\ \A a \in Accounts : mfa[a].enabled # None => mfa'[a].enabled # None

-----------------------------------------------------------------------------
(* Requests: what keeps them well formed.                                  *)

\* A step that replaces one request by a well formed one keeps Pending.
LEMMA BecomeKeeps ==
  ASSUME Pending, Steady,
         NEW w \in Workers, NEW r \in Requests, Become(w, r), WellFormed(r),
         r.pc = "enable" => r.code \in proved',
         HonouredNext(r)
  PROVE  Pending'
<1>1. /\ req' \in [Workers -> Requests]
      /\ req'[w] = r
      /\ \A v \in Workers \ {w} : req'[v] = req[v]
  BY DEF Become, Pending, RequestsOK
<1>2. RequestsOK'
  BY <1>1 DEF Pending, RequestsOK, WellFormed
<1>3. EnablesProved'
  BY <1>1 DEF Pending, Steady, EnablesProved
<1>4. NeedsHonoured'
  BY <1>1 DEF Pending, Steady, NeedsHonoured, Honoured, HonouredNext,
              RequestsOK, WellFormed, Requests, Optional
<1> QED BY <1>2, <1>3, <1>4 DEF Pending

\* A step that leaves the requests alone keeps Pending.
LEMMA StutterKeeps ==
  ASSUME Pending, Steady, UNCHANGED req
  PROVE  Pending'
<1>1. RequestsOK'
  BY DEF Pending, RequestsOK, WellFormed
<1>2. EnablesProved'
  BY DEF Pending, Steady, EnablesProved
<1>3. NeedsHonoured'
  BY DEF Pending, Steady, NeedsHonoured, Honoured, RequestsOK, WellFormed,
         Requests, Optional
<1> QED BY <1>1, <1>2, <1>3 DEF Pending

\* An idle request is well formed and owes nothing.
LEMMA IdleFits == /\ Idle \in Requests
                  /\ WellFormed(Idle)
                  /\ Idle.pc = "idle"
                  /\ ~Idle.needs
  BY DEF Idle, Requests, WellFormed, PCs, Optional

\* Answering a request keeps Pending.
LEMMA ReturnKeeps ==
  ASSUME Pending, Steady, NEW w \in Workers, Return(w)
  PROVE  Pending'
<1>1. HonouredNext(Idle)
  BY IdleFits DEF Honoured, HonouredNext
<1> QED BY <1>1, IdleFits, BecomeKeeps DEF Return

\* What is known of a request in progress.
LEMMA RequestFacts ==
  ASSUME Pending, NEW w \in Workers
  PROVE  /\ req[w] \in Requests
         /\ WellFormed(req[w])
         /\ Honoured(req[w])
         /\ req[w].pc \notin {"idle"} => req[w].account \in Accounts
         /\ req[w].pc \notin {"security", "decide"} => ~req[w].needs
  BY DEF Pending, RequestsOK, NeedsHonoured, Honoured, WellFormed, Requests,
         Optional

\* Going on to a later step of the same handler.
LEMMA GotoKeeps ==
  ASSUME Pending, Steady, NEW w \in Workers,
         NEW label \in PCs \ {"security", "decide"},
         Goto(w, label),
         req[w].pc # "idle",
         ~req[w].needs,
         label = "enable" => req[w].code \in proved' /\ req[w].code # None,
         label \in {"code", "approval", "spend"} => req[w].token # None
  PROVE  Pending'
<1> DEFINE r == [req[w] EXCEPT !.pc = label]
<1>1. r \in Requests /\ WellFormed(r)
  BY RequestFacts DEF Requests, WellFormed
<1>2. r.pc = label /\ r.code = req[w].code /\ ~r.needs
  BY RequestFacts DEF Requests
<1>3. HonouredNext(r)
  BY <1>2 DEF Honoured, HonouredNext
<1> QED BY <1>1, <1>2, <1>3, BecomeKeeps DEF Goto

\* Going on to spend the challenge, the second factor verified.
LEMMA SpendKeeps ==
  ASSUME Pending, Steady, NEW w \in Workers,
         Become(w, [req[w] EXCEPT !.pc = "spend", !.factor = TRUE]),
         req[w].pc # "idle", ~req[w].needs, req[w].token # None
  PROVE  Pending'
<1> DEFINE r == [req[w] EXCEPT !.pc = "spend", !.factor = TRUE]
<1>1. r \in Requests /\ WellFormed(r)
  BY RequestFacts DEF Requests, WellFormed, PCs
<1>2. r.pc = "spend" /\ ~r.needs
  BY RequestFacts DEF Requests
<1>3. HonouredNext(r)
  BY <1>2 DEF Honoured, HonouredNext
<1> QED BY <1>1, <1>2, <1>3, BecomeKeeps

\* What a request is once it has read the account's security row.
LEMMA SecurityReadFacts ==
  ASSUME Pending, RowsOK, NEW w \in Workers, ReadSecurity(w), Active(w)
  PROVE  /\ SecurityRead(w) \in Requests /\ WellFormed(SecurityRead(w))
         /\ SecurityRead(w).pc = "decide"
         /\ SecurityRead(w).needs = req[w].needs
         /\ SecurityRead(w).token = req[w].token
         /\ SecurityRead(w).enabled = (mfa[req[w].account].enabled # None)
<1>1. policy.available \in BOOLEAN /\ policy.forced \in BOOLEAN
  BY AccessAssumptions DEF RowsOK, PolicyOK
<1> QED BY ZenonT(40), <1>1, RequestFacts DEF SecurityRead, ReadSecurity, Requests, WellFormed, PCs

-----------------------------------------------------------------------------
(* One lemma per action.                                                   *)

\* A login that reads the security row sees an authenticator that was enabled
\* before it began.
LEMMA KeepsReadSecurity ==
  ASSUME IInv, NEW w \in Workers, ReadSecurity(w)
  PROVE  IInv'
<1>0. Pending /\ RowsOK
  BY DEF IInv
<1>1. RowsOK'
  BY AccessAssumptions DEF IInv, ReadSecurity, RowsOK, UserOK, MfaOK,
                           PolicyOK, ChallengeOK, SessionOK, CountersOK,
                           HistoryOK, tables, counters, history
<1>2. SecretProved' /\ SessionsProven'
  BY AccessAssumptions DEF IInv, ReadSecurity, SecretProved, SessionsProven,
                           tables, history
<1>3. Pending'
  <2> USE <1>0
  <2>1. Steady
    BY <1>1 DEF ReadSecurity, Steady, RowsOK, tables, history
  <2>2. CASE Active(w)
    <3> DEFINE r == SecurityRead(w)
    <3>1. /\ r \in Requests /\ WellFormed(r)
          /\ r.pc = "decide" /\ r.needs = req[w].needs
          /\ r.enabled = (mfa[req[w].account].enabled # None)
      BY <2>2, SecurityReadFacts DEF ReadSecurity
    <3>2. HonouredNext(r)
      BY <3>1, RequestFacts DEF Honoured, HonouredNext, ReadSecurity
    <3> HIDE DEF r
    <3> QED BY <2>1, <2>2, <3>1, <3>2, BecomeKeeps DEF ReadSecurity, r
  <2>3. CASE ~Active(w)
    BY <2>1, <2>3, ReturnKeeps DEF ReadSecurity
  <2> QED BY <2>2, <2>3
<1> QED BY <1>1, <1>2, <1>3 DEF IInv

\* The decision creates a session only where no authenticator was read.
LEMMA KeepsDecide ==
  ASSUME IInv, NEW w \in Workers, Decide(w)
  PROVE  IInv'
<1>0. Pending /\ RowsOK
  BY DEF IInv
<1>1. RowsOK'
  <2>1. UserOK' /\ MfaOK' /\ PolicyOK' /\ SessionOK' /\ HistoryOK'
    BY <1>0 DEF Decide, RowsOK, UserOK, MfaOK, PolicyOK, SessionOK, HistoryOK,
                history
  <2>2. CountersOK'
    BY <1>0, AccessAssumptions DEF Decide, NewChallenge, RowsOK, CountersOK
  <2>3. ChallengeOK'
    <3>1. CASE UNCHANGED challenge
      BY <1>0, <3>1 DEF RowsOK, ChallengeOK
    <3>2. ASSUME NEW purpose \in {"login", "setup"}, NEW provider \in {"totp", "proidentity"},
                 NewChallenge(w, purpose, provider)
          PROVE  ChallengeOK'
      <4>1. [account |-> req[w].account, purpose |-> purpose,
             provider |-> provider, password |-> req[w].password] \in Challenges
        BY <1>0, RequestFacts DEF Decide, Requests, Challenges
      <4> QED BY <1>0, <3>2, <4>1 DEF NewChallenge, RowsOK, ChallengeOK,
                                      Optional
    <3> QED BY <3>1, <3>2 DEF Decide
  <2> QED BY <2>1, <2>2, <2>3 DEF RowsOK
<1>2. SecretProved' /\ SessionsProven'
  BY AccessAssumptions DEF IInv, Decide, SecretProved, SessionsProven, history
<1>3. Pending'
  <2> USE <1>0
  <2>1. Steady
    BY <1>1 DEF Decide, Steady, RowsOK, tables, history
  <2>2. CASE Goto(w, "create") /\ ~req[w].enabled
    <3>1. ~req[w].needs
      BY <2>2, RequestFacts DEF Decide, Honoured
    <3> QED BY <2>1, <2>2, <3>1, GotoKeeps DEF Decide, PCs
  <2>3. CASE Return(w)
    BY <2>1, <2>3, ReturnKeeps
  <2> QED BY <2>2, <2>3 DEF Decide, NewChallenge
<1> QED BY <1>1, <1>2, <1>3 DEF IInv

\* A session is created by a request that owes no second factor, or has shown it.
LEMMA KeepsCreate ==
  ASSUME IInv, NEW w \in Workers, Create(w)
  PROVE  IInv'
<1>0. Pending /\ RowsOK
  BY DEF IInv
<1>1. RowsOK'
  <2>1. UserOK' /\ MfaOK' /\ PolicyOK' /\ ChallengeOK'
    BY <1>0 DEF Create, RowsOK, UserOK, MfaOK, PolicyOK, ChallengeOK, tables
  <2>2. CountersOK'
    BY <1>0, AccessAssumptions DEF Create, RowsOK, CountersOK
  <2>3. SessionOK'
    <3>1. [account |-> req[w].account, password |-> req[w].password,
           proven |-> req[w].needs => req[w].factor]
             \in [account : Accounts, password : Nat, proven : BOOLEAN]
      BY <1>0, RequestFacts DEF Create, Requests
    <3> QED BY <1>0, <3>1 DEF Create, RowsOK, SessionOK, Optional
  <2>4. HistoryOK'
    BY <1>0, RequestFacts DEF Create, RowsOK, HistoryOK, Requests, Optional
  <2> QED BY <2>1, <2>2, <2>3, <2>4 DEF RowsOK
<1>2. SecretProved' /\ SessionsProven'
  BY AccessAssumptions DEF IInv, Create, SecretProved, SessionsProven, Pending,
                           NeedsHonoured, Honoured, RowsOK, SessionOK, tables
<1>3. Pending'
  <2> USE <1>0
  <2>1. Steady
    BY <1>1 DEF Create, Steady, RowsOK, tables, history
  <2> QED BY <2>1, ReturnKeeps DEF Create
<1> QED BY <1>1, <1>2, <1>3 DEF IInv

\* A code is checked against the enabled secret only.
LEMMA KeepsCheckCode ==
  ASSUME IInv, NEW w \in Workers, CheckCode(w)
  PROVE  IInv'
<1>0. Pending /\ RowsOK
  BY DEF IInv
<1>1. RowsOK'
  BY AccessAssumptions DEF IInv, CheckCode, RowsOK, UserOK, MfaOK, PolicyOK,
                           ChallengeOK, SessionOK, CountersOK, HistoryOK,
                           tables, counters, history
<1>2. SecretProved' /\ SessionsProven'
  BY AccessAssumptions DEF IInv, CheckCode, SecretProved, SessionsProven,
                           tables, history
<1>3. Pending'
  <2> USE <1>0
  <2>1. Steady
    BY <1>1 DEF CheckCode, Steady, RowsOK, tables, history
  <2>2. CASE Become(w, [req[w] EXCEPT !.pc = "spend", !.factor = TRUE])
    BY <2>1, <2>2, RequestFacts, SpendKeeps DEF CheckCode, WellFormed
  <2>3. CASE Return(w)
    BY <2>1, <2>3, ReturnKeeps
  <2> QED BY <2>2, <2>3 DEF CheckCode
<1> QED BY <1>1, <1>2, <1>3 DEF IInv

\* The provider's answer changes the challenge and the request alone.
LEMMA KeepsAskProvider ==
  ASSUME IInv, NEW w \in Workers, AskProvider(w)
  PROVE  IInv'
<1>0. Pending /\ RowsOK
  BY DEF IInv
<1>1. RowsOK'
  BY AccessAssumptions DEF IInv, AskProvider, RowsOK, UserOK, MfaOK, PolicyOK,
                           ChallengeOK, SessionOK, CountersOK, HistoryOK,
                           Optional, counters, history
<1>2. SecretProved' /\ SessionsProven'
  BY AccessAssumptions DEF IInv, AskProvider, SecretProved, SessionsProven,
                           history
<1>3. Pending'
  <2> USE <1>0
  <2>1. Steady
    BY <1>1 DEF AskProvider, Steady, RowsOK, tables, history
  <2>2. CASE Become(w, [req[w] EXCEPT !.pc = "spend", !.factor = TRUE])
    BY <2>1, <2>2, RequestFacts, SpendKeeps DEF AskProvider, WellFormed
  <2>3. CASE Return(w)
    BY <2>1, <2>3, ReturnKeeps
  <2> QED BY <2>2, <2>3 DEF AskProvider
<1> QED BY <1>1, <1>2, <1>3 DEF IInv

\* Spending a challenge never touches the authenticator.
LEMMA KeepsSpend ==
  ASSUME IInv, NEW w \in Workers, Spend(w)
  PROVE  IInv'
<1>0. Pending /\ RowsOK
  BY DEF IInv
<1>1. RowsOK'
  BY AccessAssumptions DEF IInv, Pending, Spend, RowsOK, RequestsOK, UserOK,
                           MfaOK, PolicyOK, ChallengeOK, SessionOK,
                           CountersOK, HistoryOK, Requests, Optional,
                           counters, WellFormed
<1>2. SecretProved' /\ SessionsProven'
  BY AccessAssumptions DEF IInv, Spend, SecretProved, SessionsProven
<1>3. Pending'
  <2> USE <1>0
  <2>1. Steady
    BY <1>1 DEF Spend, Steady, RowsOK, tables, history
  <2> QED BY <2>1, RequestFacts, GotoKeeps DEF Spend, PCs
<1> QED BY <1>1, <1>2, <1>3 DEF IInv

\* The empty secret is one, whatever the bound.
LEMMA EmptyIsSecret == Empty \in Secrets
BY AccessAssumptions DEF Empty, Secrets

\* Without a row there is neither an enabled nor a pending secret.
LEMMA NoAuthenticatorHasNone ==
    NoAuthenticator.enabled = None /\ NoAuthenticator.pending = None
BY DEF NoAuthenticator

\* A new enrolment replaces the pending secret and keeps the enabled one.
LEMMA KeepsBeginEnrollment ==
  ASSUME IInv, NEW w \in Workers, BeginEnrollment(w)
  PROVE  IInv'
<1>0. Pending /\ RowsOK
  BY DEF IInv
<1>1. RowsOK'
  <2>1. UserOK' /\ PolicyOK' /\ ChallengeOK' /\ SessionOK' /\ HistoryOK'
    BY <1>0 DEF BeginEnrollment, RowsOK, UserOK, PolicyOK, ChallengeOK,
                SessionOK, HistoryOK, history
  <2>2. CountersOK' /\ (secrets' # secrets => secrets' \in Secrets)
    BY <1>0, AccessAssumptions DEF BeginEnrollment, RowsOK, CountersOK,
                                   Secrets, Empty
  <2>3. MfaOK'
    BY <1>0, <2>2, AccessAssumptions DEF BeginEnrollment, RowsOK, MfaOK,
                                         CountersOK, Optional
  <2> QED BY <2>1, <2>2, <2>3 DEF RowsOK
<1>2. SecretProved' /\ SessionsProven'
  <2>1. \A a \in Accounts : mfa'[a].enabled = mfa[a].enabled
    BY <1>0 DEF BeginEnrollment, RowsOK, MfaOK
  <2> QED BY <2>1 DEF IInv, BeginEnrollment, SecretProved, SessionsProven,
                      history
<1>3. Pending'
  <2> USE <1>0
  <2>1. Steady
    BY <1>1, RequestFacts, AccessAssumptions DEF BeginEnrollment, Steady,
                                                 RowsOK, MfaOK, history
  <2> QED BY <2>1, ReturnKeeps DEF BeginEnrollment
<1> QED BY <1>1, <1>2, <1>3 DEF IInv

\* A code accepted for the pending secret proves it.
LEMMA KeepsReadPending ==
  ASSUME IInv, NEW w \in Workers, ReadPending(w)
  PROVE  IInv'
<1>0. Pending /\ RowsOK
  BY DEF IInv
<1>1. RowsOK'
  BY AccessAssumptions DEF IInv, Pending, ReadPending, RowsOK, RequestsOK,
                           UserOK, MfaOK, PolicyOK, ChallengeOK, SessionOK,
                           CountersOK, HistoryOK, Requests, Optional, tables,
                           counters
<1>2. SecretProved' /\ SessionsProven'
  BY AccessAssumptions DEF IInv, ReadPending, SecretProved, SessionsProven,
                           tables
<1>3. Pending'
  <2> USE <1>0
  <2>1. Steady
    BY <1>1 DEF ReadPending, Steady, RowsOK, tables
  <2>2. CASE Goto(w, "enable") /\ req[w].code \in proved' /\ req[w].code # None
    BY <2>1, <2>2, RequestFacts, GotoKeeps DEF ReadPending, PCs
  <2>3. CASE Return(w)
    BY <2>1, <2>3, ReturnKeeps
  <2> QED BY <2>2, <2>3 DEF ReadPending
<1> QED BY <1>1, <1>2, <1>3 DEF IInv

\* The secret enabled is the one the request proved, even if the row has changed.
LEMMA KeepsEnable ==
  ASSUME IInv, NEW w \in Workers, Enable(w)
  PROVE  IInv'
<1>0. Pending /\ RowsOK
  BY DEF IInv
<1>1. RowsOK'
  <2>1. Empty \in Secrets
    BY EmptyIsSecret
  <2> QED BY <2>1, AccessAssumptions
          DEF IInv, Pending, Enable, RowsOK, RequestsOK, UserOK, MfaOK,
              PolicyOK, ChallengeOK, SessionOK, CountersOK, HistoryOK,
              Requests, Optional, counters, history
<1>2. SecretProved' /\ SessionsProven'
  BY AccessAssumptions DEF IInv, Enable, SecretProved, SessionsProven, Pending,
                           EnablesProved, history
<1>3. Pending'
  <2> USE <1>0
  <2>1. Steady
    BY <1>1, RequestFacts, AccessAssumptions DEF Enable, Steady, RowsOK,
                                                 WellFormed, history
  <2> QED BY <2>1, RequestFacts, GotoKeeps DEF Enable, PCs
<1> QED BY <1>1, <1>2, <1>3 DEF IInv

\* What follows the enabling changes the request alone.
LEMMA KeepsEnabled ==
  ASSUME IInv, NEW w \in Workers, Enabled(w)
  PROVE  IInv'
<1>0. Pending /\ RowsOK
  BY DEF IInv
<1>1. RowsOK'
  BY AccessAssumptions DEF IInv, Enabled, RowsOK, UserOK, MfaOK, PolicyOK,
                           ChallengeOK, SessionOK, CountersOK, HistoryOK,
                           tables, counters, history
<1>2. SecretProved' /\ SessionsProven'
  BY AccessAssumptions DEF IInv, Enabled, SecretProved, SessionsProven,
                           tables, history
<1>3. Pending'
  <2> USE <1>0
  <2>1. Steady
    BY <1>1 DEF Enabled, Steady, RowsOK, tables, history
  <2>2. CASE Active(w) /\ req[w].token # None
    BY <2>1, <2>2, RequestFacts, SpendKeeps DEF Enabled
  <2>3. CASE ~(Active(w) /\ req[w].token # None)
    BY <2>1, <2>3, ReturnKeeps DEF Enabled
  <2> QED BY <2>2, <2>3
<1> QED BY <1>1, <1>2, <1>3 DEF IInv

\* Verifying the current password changes the request alone.
LEMMA KeepsVerifyCurrent ==
  ASSUME IInv, NEW w \in Workers, VerifyCurrent(w)
  PROVE  IInv'
<1>0. Pending /\ RowsOK
  BY DEF IInv
<1>1. RowsOK'
  BY AccessAssumptions DEF IInv, VerifyCurrent, RowsOK, UserOK, MfaOK,
                           PolicyOK, ChallengeOK, SessionOK, CountersOK,
                           HistoryOK, tables, counters, history
<1>2. SecretProved' /\ SessionsProven'
  BY AccessAssumptions DEF IInv, VerifyCurrent, SecretProved, SessionsProven,
                           tables,
                           history
<1>3. Pending'
  <2> USE <1>0
  <2>1. Steady
    BY <1>1 DEF VerifyCurrent, Steady, RowsOK, tables, history
  <2>2. CASE Goto(w, "change")
    BY <2>1, <2>2, RequestFacts, GotoKeeps DEF VerifyCurrent, PCs
  <2>3. CASE Return(w)
    BY <2>1, <2>3, ReturnKeeps
  <2> QED BY <2>2, <2>3 DEF VerifyCurrent
<1> QED BY <1>1, <1>2, <1>3 DEF IInv

\* A password change leaves authenticators and sessions alone.
LEMMA KeepsChangePassword ==
  ASSUME IInv, NEW w \in Workers, ChangePassword(w)
  PROVE  IInv'
<1>0. Pending /\ RowsOK
  BY DEF IInv
<1>1. RowsOK'
  <2>1. MfaOK' /\ PolicyOK' /\ ChallengeOK' /\ SessionOK' /\ HistoryOK'
    BY <1>0 DEF ChangePassword, RowsOK, MfaOK, PolicyOK, ChallengeOK,
                SessionOK, HistoryOK, history
  <2>2. CountersOK'
    BY <1>0, AccessAssumptions DEF ChangePassword, RowsOK, CountersOK
  <2>3. UserOK'
    BY <1>0 DEF ChangePassword, RowsOK, UserOK
  <2> QED BY <2>1, <2>2, <2>3 DEF RowsOK
<1>2. SecretProved' /\ SessionsProven'
  BY AccessAssumptions DEF IInv, ChangePassword, SecretProved, SessionsProven,
                           history
<1>3. Pending'
  <2> USE <1>0
  <2>1. Steady
    BY <1>1 DEF ChangePassword, Steady, RowsOK, tables, history
  <2> DEFINE r == [req[w] EXCEPT !.pc = "invalidate",
                         !.password = user'[req[w].account].password]
  <2>2. user'[req[w].account].password \in Nat
    BY <1>1, RequestFacts DEF RowsOK, UserOK, ChangePassword
  <2>3. r \in Requests /\ WellFormed(r)
    BY <2>2, RequestFacts DEF ChangePassword, Requests, WellFormed, PCs
  <2>4. r.pc = "invalidate" /\ ~r.needs
    BY RequestFacts DEF ChangePassword, Requests
  <2>5. HonouredNext(r)
    BY <2>4 DEF Honoured, HonouredNext
  <2> QED BY <2>1, <2>3, <2>4, <2>5, BecomeKeeps DEF ChangePassword
<1> QED BY <1>1, <1>2, <1>3 DEF IInv

\* Ending the account's sessions creates none.
LEMMA KeepsInvalidate ==
  ASSUME IInv, NEW w \in Workers, Invalidate(w)
  PROVE  IInv'
<1>0. Pending /\ RowsOK
  BY DEF IInv
<1>1. RowsOK'
  BY AccessAssumptions DEF IInv, Pending, Invalidate, RowsOK, RequestsOK,
                           UserOK, MfaOK, PolicyOK, ChallengeOK, SessionOK,
                           CountersOK, HistoryOK, Requests, Optional, tables,
                           counters
<1>2. SecretProved' /\ SessionsProven'
  BY AccessAssumptions DEF IInv, Invalidate, SecretProved, SessionsProven,
                           tables
<1>3. Pending'
  <2> USE <1>0
  <2>1. Steady
    BY <1>1 DEF Invalidate, Steady, RowsOK, tables, history
  <2> QED BY <2>1, ReturnKeeps DEF Invalidate
<1> QED BY <1>1, <1>2, <1>3 DEF IInv

\* An error answers the request and changes no row.
LEMMA KeepsGiveUp ==
  ASSUME IInv, NEW w \in Workers, GiveUp(w)
  PROVE  IInv'
<1>0. Pending /\ RowsOK
  BY DEF IInv
<1>1. RowsOK'
  BY AccessAssumptions DEF IInv, GiveUp, RowsOK, UserOK, MfaOK, PolicyOK,
                           ChallengeOK, SessionOK, CountersOK, HistoryOK,
                           tables, counters, history
<1>2. SecretProved' /\ SessionsProven'
  BY AccessAssumptions DEF IInv, GiveUp, SecretProved, SessionsProven, tables,
                           history
<1>3. Pending'
  <2> USE <1>0
  <2>1. Steady
    BY <1>1 DEF GiveUp, Steady, RowsOK, tables, history
  <2> QED BY <2>1, ReturnKeeps DEF GiveUp
<1> QED BY <1>1, <1>2, <1>3 DEF IInv

\* A login owes the second factor if an authenticator is enabled when it begins.
LEMMA KeepsLogin ==
  ASSUME IInv, NEW w \in Workers, NEW a \in Accounts, Login(w, a)
  PROVE  IInv'
<1>0. Pending /\ RowsOK
  BY DEF IInv
<1>1. RowsOK'
  BY AccessAssumptions DEF IInv, Login, RowsOK, UserOK, MfaOK, PolicyOK,
                           ChallengeOK, SessionOK, CountersOK, HistoryOK,
                           tables, counters, history
<1>2. SecretProved' /\ SessionsProven'
  BY AccessAssumptions DEF IInv, Login, SecretProved, SessionsProven, tables,
                           history
<1>3. Pending'
  <2> USE <1>0
  <2>1. Steady
    BY <1>1 DEF Login, Steady, RowsOK, tables, history
  <2> DEFINE r == [Idle EXCEPT !.pc = "security", !.account = a,
                         !.password = user[a].password,
                         !.needs = mfa[a].enabled # None]
  <2>2. r \in Requests /\ WellFormed(r)
    BY AccessAssumptions DEF RowsOK, UserOK, Idle, Requests, WellFormed, PCs,
                             Optional
  <2>3. /\ r.pc = "security" /\ r.account = a
        /\ r.needs = (mfa[a].enabled # None)
    BY DEF Idle
  <2>4. HonouredNext(r)
    BY <2>3 DEF Honoured, HonouredNext, Login, tables
  <2> QED BY <2>1, <2>2, <2>3, <2>4, BecomeKeeps DEF Login
<1> QED BY <1>1, <1>2, <1>3 DEF IInv

\* A request that presents a challenge owes no decision.
LEMMA KeepsOpenChallenge ==
  ASSUME IInv, NEW w \in Workers, NEW c \in Tokens, NEW x \in Codes \cup {None},
         NEW purpose, NEW label \in {"code", "approval", "enroll", "verify"},
         OpenChallenge(w, c, x, purpose, label)
  PROVE  IInv'
<1>0. Pending /\ RowsOK
  BY DEF IInv
<1>1. RowsOK'
  BY AccessAssumptions DEF IInv, OpenChallenge, RowsOK, UserOK, MfaOK,
                           PolicyOK, ChallengeOK, SessionOK, CountersOK,
                           HistoryOK, tables, counters, history
<1>2. SecretProved' /\ SessionsProven'
  BY AccessAssumptions DEF IInv, OpenChallenge, SecretProved, SessionsProven,
                           tables,
                           history
<1>3. Pending'
  <2> USE <1>0
  <2>1. Steady
    BY <1>1 DEF OpenChallenge, Steady, RowsOK, tables, history
  <2> DEFINE r == [Idle EXCEPT !.pc = label, !.account = challenge[c].account,
                         !.token = c, !.code = x,
                         !.password = challenge[c].password]
  <2>2. /\ challenge[c].account \in Accounts /\ challenge[c].password \in Nat
        /\ x \in Optional(Secrets) /\ c # None /\ label \in PCs
    <3>1. challenge[c] \in Challenges
      BY DEF IInv, RowsOK, ChallengeOK, OpenChallenge, Optional
    <3>2. x \in Optional(Secrets)
      BY AccessAssumptions DEF RowsOK, CountersOK, Codes, Secrets, Optional
    <3> QED BY <3>1, <3>2, AccessAssumptions DEF Challenges, Tokens, PCs
  <2>3. /\ r \in Requests
        /\ r.pc = label /\ r.account = challenge[c].account /\ r.token = c
        /\ ~r.needs
    BY <2>2 DEF Idle, Requests, Optional
  <2>4. WellFormed(r) /\ HonouredNext(r)
    BY <2>2, <2>3, AccessAssumptions DEF WellFormed, Honoured, HonouredNext
  <2> QED BY <2>1, <2>3, <2>4, BecomeKeeps DEF OpenChallenge
<1> QED BY <1>1, <1>2, <1>3 DEF IInv

\* A request in a session owes no decision.
LEMMA KeepsOpenSession ==
  ASSUME IInv, NEW w \in Workers, NEW s \in SessionIDs, NEW x \in Codes \cup {None},
         NEW label \in {"enroll", "verify", "current"},
         OpenSession(w, s, x, label)
  PROVE  IInv'
<1>0. Pending /\ RowsOK
  BY DEF IInv
<1>1. RowsOK'
  BY AccessAssumptions DEF IInv, OpenSession, RowsOK, UserOK, MfaOK, PolicyOK,
                           ChallengeOK, SessionOK, CountersOK, HistoryOK,
                           tables, counters, history
<1>2. SecretProved' /\ SessionsProven'
  BY AccessAssumptions DEF IInv, OpenSession, SecretProved, SessionsProven,
                           tables, history
<1>3. Pending'
  <2> USE <1>0
  <2>1. Steady
    BY <1>1 DEF OpenSession, Steady, RowsOK, tables, history
  <2> DEFINE r == [Idle EXCEPT !.pc = label, !.account = session[s].account,
                         !.code = x]
  <2>2. /\ session[s].account \in Accounts
        /\ x \in Optional(Secrets) /\ label \in PCs
    <3>1. session[s].account \in Accounts
      BY DEF IInv, RowsOK, SessionOK, OpenSession, Optional
    <3>2. x \in Optional(Secrets)
      BY AccessAssumptions DEF RowsOK, CountersOK, Codes, Secrets, Optional
    <3> QED BY <3>1, <3>2 DEF PCs
  <2>3. /\ r \in Requests
        /\ r.pc = label /\ r.account = session[s].account /\ ~r.needs
    BY <2>2 DEF Idle, Requests, Optional
  <2>4. WellFormed(r) /\ HonouredNext(r)
    BY <2>2, <2>3, AccessAssumptions DEF WellFormed, Honoured, HonouredNext
  <2> QED BY <2>1, <2>3, <2>4, BecomeKeeps DEF OpenSession
<1> QED BY <1>1, <1>2, <1>3 DEF IInv

\* Ending a session creates none.
LEMMA KeepsEndSession ==
  ASSUME IInv, NEW s \in SessionIDs, EndSession(s)
  PROVE  IInv'
<1>0. Pending /\ RowsOK
  BY DEF IInv
<1>1. RowsOK'
  BY AccessAssumptions DEF IInv, EndSession, RowsOK, UserOK, MfaOK, PolicyOK,
                           ChallengeOK, SessionOK, CountersOK, HistoryOK,
                           Optional, tables, counters, history
<1>2. SecretProved' /\ SessionsProven'
  BY AccessAssumptions DEF IInv, EndSession, SecretProved, SessionsProven,
                           tables, history
<1>3. Pending'
  <2> USE <1>0
  <2>1. Steady
    BY <1>1 DEF EndSession, Steady, RowsOK, tables, history
  <2> QED BY <2>1, StutterKeeps DEF EndSession
<1> QED BY <1>1, <1>2, <1>3 DEF IInv

\* An expired challenge leaves the table.
LEMMA KeepsExpire ==
  ASSUME IInv, NEW c \in Tokens, Expire(c)
  PROVE  IInv'
<1>0. Pending /\ RowsOK
  BY DEF IInv
<1>1. RowsOK'
  BY AccessAssumptions DEF IInv, Expire, RowsOK, UserOK, MfaOK, PolicyOK,
                           ChallengeOK, SessionOK, CountersOK, HistoryOK,
                           Optional, counters, history
<1>2. SecretProved' /\ SessionsProven'
  BY AccessAssumptions DEF IInv, Expire, SecretProved, SessionsProven, history
<1>3. Pending'
  <2> USE <1>0
  <2>1. Steady
    BY <1>1 DEF Expire, Steady, RowsOK, tables, history
  <2> QED BY <2>1, StutterKeeps DEF Expire
<1> QED BY <1>1, <1>2, <1>3 DEF IInv

\* A reset removes the authenticator, so nothing is owed for it.
LEMMA KeepsResetUserMFA ==
  ASSUME IInv, NEW a \in Accounts, ResetUserMFA(a)
  PROVE  IInv'
<1>0. Pending /\ RowsOK
  BY DEF IInv
<1>1. RowsOK'
  <2>1. (1..secrets) \ InVerification(a) \subseteq Secrets
    BY AccessAssumptions DEF IInv, RowsOK, CountersOK, Secrets, Empty
  <2>2. HistoryOK'
    BY <2>1 DEF IInv, RowsOK, HistoryOK, ResetUserMFA, Replace
  <2> QED BY <2>2, EmptyIsSecret, AccessAssumptions
          DEF IInv, ResetUserMFA, Replace, RowsOK, UserOK, MfaOK, PolicyOK,
              ChallengeOK, SessionOK, CountersOK, Optional, NoAuthenticator
<1>2. SecretProved' /\ SessionsProven'
  BY AccessAssumptions DEF IInv, ResetUserMFA, Replace, SecretProved, SessionsProven,
                           NoAuthenticator
<1>3. Pending'
  <2> USE <1>0
  <2>1. \A w \in Workers :
           /\ req'[w] \in Requests
           /\ req'[w].pc = req[w].pc /\ req'[w].account = req[w].account
           /\ req'[w].token = req[w].token /\ req'[w].code = req[w].code
           /\ req'[w].enabled = req[w].enabled
           /\ req'[w].needs => req[w].needs /\ req[w].account # a
    BY RequestFacts DEF ResetUserMFA, Replace, Requests
  <2>2. RequestsOK'
    BY <2>1, RequestFacts DEF ResetUserMFA, Replace, RequestsOK, WellFormed
  <2>3. EnablesProved'
    BY <2>1 DEF IInv, Pending, EnablesProved, ResetUserMFA, Replace
  <2>4. NeedsHonoured'
    BY <2>1, RequestFacts DEF NeedsHonoured, Honoured, ResetUserMFA, Replace
  <2> QED BY <2>2, <2>3, <2>4 DEF Pending
<1> QED BY <1>1, <1>2, <1>3 DEF IInv

\* An administrator's change of status or password keeps the authenticator.
LEMMA KeepsUpdateUser ==
  ASSUME IInv, NEW a \in Accounts, NEW active \in BOOLEAN, NEW reset \in BOOLEAN,
         UpdateUser(a, active, reset)
  PROVE  IInv'
<1>0. Pending /\ RowsOK
  BY DEF IInv
<1>1. RowsOK'
  <2>1. MfaOK' /\ PolicyOK' /\ ChallengeOK' /\ SessionOK' /\ HistoryOK'
    BY <1>0 DEF UpdateUser, RowsOK, MfaOK, PolicyOK, ChallengeOK, SessionOK,
                HistoryOK, history
  <2>2. CountersOK'
    BY <1>0, AccessAssumptions DEF UpdateUser, RowsOK, CountersOK
  <2>3. UserOK'
    BY <1>0 DEF UpdateUser, RowsOK, UserOK
  <2> QED BY <2>1, <2>2, <2>3 DEF RowsOK
<1>2. SecretProved' /\ SessionsProven'
  BY AccessAssumptions DEF IInv, UpdateUser, SecretProved, SessionsProven,
                           history
<1>3. Pending'
  <2> USE <1>0
  <2>1. Steady
    BY <1>1 DEF UpdateUser, Steady, RowsOK, tables, history
  <2> QED BY <2>1, StutterKeeps DEF UpdateUser
<1> QED BY <1>1, <1>2, <1>3 DEF IInv

\* The policy may change between the statements of a login.
LEMMA KeepsSetPolicy ==
  ASSUME IInv, SetPolicy
  PROVE  IInv'
<1>0. Pending /\ RowsOK
  BY DEF IInv
<1>1. RowsOK'
  BY AccessAssumptions DEF IInv, SetPolicy, RowsOK, UserOK, MfaOK, PolicyOK,
                           ChallengeOK, SessionOK, CountersOK, HistoryOK,
                           Optional, history
<1>2. SecretProved' /\ SessionsProven'
  BY AccessAssumptions DEF IInv, SetPolicy, SecretProved, SessionsProven,
                           history
<1>3. Pending'
  <2> USE <1>0
  <2>1. Steady
    BY <1>1 DEF SetPolicy, Steady, RowsOK, tables, history
  <2> QED BY <2>1, StutterKeeps DEF SetPolicy
<1> QED BY <1>1, <1>2, <1>3 DEF IInv

\* A restart forgets the sessions and the requests and keeps the rows.
LEMMA KeepsRestart ==
  ASSUME IInv, Restart
  PROVE  IInv'
<1>0. Pending /\ RowsOK
  BY DEF IInv
<1>1. RowsOK'
  BY AccessAssumptions DEF IInv, Restart, RowsOK, UserOK, MfaOK, PolicyOK,
                           ChallengeOK, SessionOK, CountersOK, HistoryOK,
                           Optional, tables, history
<1>2. SecretProved' /\ SessionsProven'
  BY AccessAssumptions DEF IInv, Restart, SecretProved, SessionsProven,
                           tables, history
<1>3. Pending'
  <2> USE <1>0
  <2>1. \A w \in Workers : req'[w] = Idle
    BY DEF Restart
  <2>2. RequestsOK'
    BY IdleFits DEF Restart, RequestsOK
  <2>3. EnablesProved' /\ NeedsHonoured'
    BY <2>1, IdleFits DEF EnablesProved, NeedsHonoured, Honoured
  <2> QED BY <2>2, <2>3 DEF Pending
<1> QED BY <1>1, <1>2, <1>3 DEF IInv

-----------------------------------------------------------------------------
(* What a reset has retired stays retired.                                 *)

\* Secrets are retired once generated; none of them is in the row, and none is
\* what a verification is about to write there.
ResetsKept ==
    /\ \A a \in Accounts : retired[a] \subseteq 1..secrets
    /\ \A a \in Accounts : {mfa[a].enabled, mfa[a].pending} \cap retired[a] = {}
    /\ \A w \in Workers :
          req[w].pc = "enable" => req[w].code \notin retired[req[w].account]

\* The row and the retired secrets stay as they are.
Calm == UNCHANGED <<mfa, retired, secrets>>

\* A request that does not come to enable a secret keeps ResetsKept.
LEMMA CalmBecome ==
  ASSUME IInv, ResetsKept, Calm, NEW w \in Workers, NEW r, Become(w, r),
         r.pc # "enable"
  PROVE  ResetsKept'
<1>1. /\ req'[w] = r
      /\ \A v \in Workers \ {w} : req'[v] = req[v]
  BY DEF IInv, Pending, RequestsOK, Become
<1> QED BY <1>1 DEF ResetsKept, Calm

\* The same where a request goes on to another step or is answered.
LEMMA CalmGoto ==
  ASSUME IInv, ResetsKept, Calm, NEW w \in Workers, NEW label, label # "enable",
         Goto(w, label) \/ Return(w)
  PROVE  ResetsKept'
<1>1. [req[w] EXCEPT !.pc = label].pc = label /\ Idle.pc # "enable"
  BY RequestFacts DEF IInv, Requests, Idle
<1> QED BY <1>1, CalmBecome DEF Goto, Return

\* The same where a request has shown the second factor.
LEMMA CalmSpend ==
  ASSUME IInv, ResetsKept, Calm, NEW w \in Workers,
         \/ Become(w, [req[w] EXCEPT !.pc = "spend", !.factor = TRUE])
         \/ Return(w)
  PROVE  ResetsKept'
<1>1. [req[w] EXCEPT !.pc = "spend", !.factor = TRUE].pc = "spend"
  BY RequestFacts DEF IInv, Requests
<1> QED BY <1>1, CalmBecome, CalmGoto

\* Handlers that do not touch the row.
LEMMA CalmSteps ==
  ASSUME IInv, ResetsKept, NEW w \in Workers,
         \/ ReadSecurity(w) \/ Decide(w) \/ Create(w) \/ CheckCode(w)
         \/ AskProvider(w) \/ Spend(w) \/ Enabled(w) \/ VerifyCurrent(w)
         \/ ChangePassword(w) \/ Invalidate(w) \/ GiveUp(w)
  PROVE  ResetsKept'
<1>1. CASE ReadSecurity(w)
  <2>1. SecurityRead(w).pc # "enable"
    BY RequestFacts DEF IInv, Requests, SecurityRead
  <2>2. Calm
    BY <1>1 DEF ReadSecurity, Calm, tables, counters, history
  <2> QED BY <1>1, <2>1, <2>2, CalmBecome, CalmGoto DEF ReadSecurity
<1>2. CASE Decide(w)
  BY <1>2, CalmGoto DEF Decide, NewChallenge, Calm, history
<1>3. CASE Create(w)
  BY <1>3, CalmGoto DEF Create, Calm, tables
<1>4. CASE CheckCode(w)
  BY <1>4, CalmSpend DEF CheckCode, Calm, tables, counters, history
<1>5. CASE AskProvider(w)
  BY <1>5, CalmSpend DEF AskProvider, Calm, counters, history
<1>6. CASE Spend(w)
  BY <1>6, CalmGoto DEF Spend, Calm, counters
<1>7. CASE Enabled(w)
  BY <1>7, CalmSpend DEF Enabled, Calm, tables, counters, history
<1>8. CASE VerifyCurrent(w)
  BY <1>8, CalmGoto DEF VerifyCurrent, Calm, tables, counters, history
<1>9. CASE ChangePassword(w)
  <2> DEFINE a == req[w].account
  <2>1. [req[w] EXCEPT !.pc = "invalidate", !.password = user'[a].password].pc
           # "enable"
    BY RequestFacts DEF IInv, Requests
  <2> QED BY <1>9, <2>1, CalmBecome DEF ChangePassword, Calm, history
<1>10. CASE Invalidate(w)
  BY <1>10, CalmGoto DEF Invalidate, Calm, tables, counters
<1>11. CASE GiveUp(w)
  BY <1>11, CalmGoto DEF GiveUp, Calm, tables, counters, history
<1> QED BY <1>1, <1>2, <1>3, <1>4, <1>5, <1>6, <1>7, <1>8, <1>9, <1>10, <1>11

\* The secret an enrolment generates is newer than any retired one.
LEMMA ResetsKeptByEnrollment ==
  ASSUME IInv, ResetsKept, NEW w \in Workers, BeginEnrollment(w)
  PROVE  ResetsKept'
<1>0. Pending /\ CountersOK /\ MfaOK
  BY DEF IInv, RowsOK
<1>1. UNCHANGED retired /\ Return(w)
  BY DEF BeginEnrollment, history
<1>2. /\ \A v \in Workers : req'[v].pc = "enable" => req'[v] = req[v]
      /\ req[w].account \in Accounts
  BY <1>0, <1>1, RequestFacts, IdleFits
     DEF Return, Become, Pending, RequestsOK, BeginEnrollment
<1>3. CASE UNCHANGED <<mfa, secrets>>
  BY <1>1, <1>2, <1>3 DEF ResetsKept
<1>4. CASE /\ secrets' = secrets + 1
           /\ mfa' = [mfa EXCEPT ![req[w].account].pending = secrets']
  <2>1. secrets \in Nat /\ secrets' = secrets + 1 /\ secrets' \notin 1..secrets
    BY <1>0, <1>4, AccessAssumptions DEF CountersOK
  <2>2. \A a \in Accounts : /\ mfa'[a].enabled = mfa[a].enabled
                            /\ mfa'[a].pending \in {mfa[a].pending, secrets'}
    BY <1>0, <1>2, <1>4 DEF MfaOK
  <2>3. \A a \in Accounts : retired'[a] \subseteq 1..secrets'
    BY <1>1, <2>1 DEF ResetsKept
  <2>4. \A a \in Accounts : {mfa'[a].enabled, mfa'[a].pending} \cap retired'[a] = {}
    BY <1>1, <2>1, <2>2 DEF ResetsKept
  <2> QED BY <1>1, <1>2, <2>3, <2>4 DEF ResetsKept
<1> QED BY <1>3, <1>4 DEF BeginEnrollment

\* A verification accepts codes of the pending secret only.
LEMMA ResetsKeptByVerification ==
  ASSUME IInv, ResetsKept, NEW w \in Workers, ReadPending(w)
  PROVE  ResetsKept'
<1>1. Calm
  BY DEF ReadPending, Calm, tables, counters
<1>2. CASE Return(w)
  <2> QED BY <1>1, <1>2, CalmGoto
<1>3. CASE Goto(w, "enable") /\ req[w].code = mfa[req[w].account].pending
  <2>1. /\ req'[w].code = req[w].code /\ req'[w].account = req[w].account
        /\ req[w].account \in Accounts
        /\ \A v \in Workers \ {w} : req'[v] = req[v]
    BY <1>3, RequestFacts
       DEF IInv, Pending, RequestsOK, Requests, Goto, Become, ReadPending
  <2>2. req[w].code \notin retired[req[w].account]
    BY <1>3, <2>1 DEF ResetsKept
  <2> QED BY <1>1, <2>1, <2>2 DEF ResetsKept, Calm
<1> QED BY <1>2, <1>3 DEF ReadPending

\* The secret written is the one the verification has accepted.
LEMMA ResetsKeptByEnable ==
  ASSUME IInv, ResetsKept, NEW w \in Workers, Enable(w)
  PROVE  ResetsKept'
<1>0. Pending /\ CountersOK /\ MfaOK
  BY DEF IInv, RowsOK
<1>1. UNCHANGED <<retired, secrets>> /\ Goto(w, "enabled")
  BY DEF Enable, counters, history
<1>2. /\ \A v \in Workers : req'[v].pc = "enable" => req'[v] = req[v]
      /\ req[w].account \in Accounts
  BY <1>0, <1>1, RequestFacts
     DEF Goto, Become, Pending, RequestsOK, Requests, Enable
<1>3. \A a \in Accounts : retired[a] \subseteq Nat /\ Empty \notin retired[a]
  BY <1>0 DEF ResetsKept, CountersOK, Empty
<1>4. \A a \in Accounts : {mfa'[a].enabled, mfa'[a].pending} \cap retired[a] = {}
  <2> TAKE a \in Accounts
  <2>1. CASE a = req[w].account
    BY <1>0, <1>3, <2>1, AccessAssumptions DEF Enable, ResetsKept, MfaOK
  <2>2. CASE a # req[w].account
    BY <1>0, <2>2 DEF Enable, ResetsKept, MfaOK
  <2> QED BY <2>1, <2>2
<1> QED BY <1>1, <1>2, <1>4 DEF ResetsKept

\* Requests that begin have nothing to enable yet.
LEMMA ResetsKeptByRequests ==
  ASSUME IInv, ResetsKept, NEW w \in Workers, Request(w)
  PROVE  ResetsKept'
<1>1. ASSUME NEW a \in Accounts, Login(w, a) PROVE ResetsKept'
  BY <1>1, CalmBecome DEF Login, Idle, Calm, tables, counters, history
<1>2. ASSUME NEW c, NEW x, NEW purpose,
             NEW label \in {"code", "approval", "enroll", "verify"},
             OpenChallenge(w, c, x, purpose, label)
      PROVE  ResetsKept'
  BY <1>2, CalmBecome DEF OpenChallenge, Idle, Calm, tables, counters, history
<1>3. ASSUME NEW s, NEW x, NEW label \in {"enroll", "verify", "current"},
             OpenSession(w, s, x, label)
      PROVE  ResetsKept'
  BY <1>3, CalmBecome DEF OpenSession, Idle, Calm, tables, counters, history
<1> QED BY <1>1, <1>2, <1>3 DEF Request, AnswerWithCode, AnswerByProvider

\* A reset retires every secret but those about to be enabled.
LEMMA ResetsKeptByReset ==
  ASSUME IInv, ResetsKept, NEW b \in Accounts, ResetUserMFA(b)
  PROVE  ResetsKept'
<1>0. Pending /\ RowsOK
  BY DEF IInv
<1>1. \A w \in Workers :
         /\ req'[w].pc = req[w].pc /\ req'[w].account = req[w].account
         /\ req'[w].code = req[w].code
  BY <1>0, RequestFacts DEF ResetUserMFA, Replace, Requests
<1>2. /\ secrets' = secrets
      /\ retired'[b] = retired[b] \cup ((1..secrets) \ InVerification(b))
      /\ \A a \in Accounts \ {b} : retired'[a] = retired[a] /\ mfa'[a] = mfa[a]
      /\ mfa'[b].enabled = None /\ mfa'[b].pending \in {None, Empty}
  BY <1>0, NoAuthenticatorHasNone DEF ResetUserMFA, Replace, RowsOK, HistoryOK, MfaOK
<1>3. \A a \in Accounts : retired'[a] \subseteq 1..secrets'
  BY <1>2 DEF ResetsKept
<1>4. \A a \in Accounts : {mfa'[a].enabled, mfa'[a].pending} \cap retired'[a] = {}
  <2>1. None \notin retired'[b] /\ Empty \notin retired'[b]
    BY <1>0, <1>2, <1>3, AccessAssumptions DEF RowsOK, CountersOK, Empty
  <2> QED BY <1>2, <2>1 DEF ResetsKept
<1>5. \A w \in Workers :
         req'[w].pc = "enable" => req'[w].code \notin retired'[req'[w].account]
  <2> SUFFICES ASSUME NEW w \in Workers, req[w].pc = "enable"
               PROVE  req[w].code \notin retired'[req[w].account]
    BY <1>1
  <2>1. req[w].account \in Accounts /\ req[w].code \notin retired[req[w].account]
    BY <1>0, RequestFacts DEF ResetsKept
  <2>2. CASE req[w].account = b
    BY <1>2, <2>1, <2>2 DEF InVerification
  <2>3. CASE req[w].account # b
    BY <1>2, <2>1, <2>3
  <2> QED BY <2>2, <2>3
<1> QED BY <1>3, <1>4, <1>5 DEF ResetsKept

\* Nothing else touches the row or sends a request to enable a secret.
LEMMA ResetsKeptByOthers ==
  ASSUME IInv, ResetsKept,
         \/ UNCHANGED vars \/ SetPolicy \/ Restart
         \/ \E s \in SessionIDs : EndSession(s)
         \/ \E c \in Tokens : Expire(c)
         \/ \E a \in Accounts, active, reset \in BOOLEAN : UpdateUser(a, active, reset)
  PROVE  ResetsKept'
<1>1. Calm
  BY DEF vars, SetPolicy, Restart, EndSession, Expire, UpdateUser, Calm, tables,
         counters, history
<1>2. \A w \in Workers : req'[w] = req[w] \/ req'[w] = Idle
  BY DEF vars, SetPolicy, Restart, EndSession, Expire, UpdateUser
<1> QED BY <1>1, <1>2, IdleFits DEF ResetsKept, Calm

-----------------------------------------------------------------------------
(* How often a challenge is used: every use was a request that held it.    *)

\* The requests that hold challenge c: each may still open one session.
Holders(c) == {w \in Workers : req[w].token = c}

\* A request that may hold a challenge is past the password.
LoginsHoldNone ==
    \A w \in Workers : req[w].pc \in {"security", "decide"} => req[w].token = None

\* A challenge yet to be made is in no row and in no hand, and has no use.
FutureUnused ==
    \A c \in Tokens \ kept : c > tokens =>
        /\ challenge[c] = None /\ used[c] = 0
        /\ \A w \in Workers : req[w].token # c

\* As long as its row is there, a challenge has opened nothing, and no request
\* is about to open a session by it.
RowsUnused ==
    \A c \in Tokens \ kept : challenge[c] # None =>
        /\ used[c] = 0
        /\ \A w \in Workers : ~(req[w].token = c /\ req[w].pc = "create")

\* The uses there are and those to come are at most one for each request.
UsesCounted ==
    \A c \in Tokens \ kept :
        used[c] + Cardinality(Holders(c)) <= Cardinality(Workers)

UseInv == LoginsHoldNone /\ FutureUnused /\ RowsUnused /\ UsesCounted

\* What w holds after the step it has held before, or it holds nothing; and it
\* comes to open a session only by a challenge whose row is gone.
Spends(w) ==
    /\ req'[w].token \in {req[w].token, None}
    /\ req'[w].pc \in {"security", "decide"} => req'[w].token = None
    /\ (req'[w].token # None /\ req'[w].pc = "create") =>
           \/ challenge'[req'[w].token] = None
           \/ req'[w].token \in kept'
           \/ req[w].pc = "create"

\* No challenge is made or used.
NoUse == /\ UNCHANGED <<tokens, used>>
         /\ kept \subseteq kept'
         /\ \A c \in Tokens : challenge'[c] \in {challenge[c], None}
         /\ \A w \in Workers : Spends(w)

\* The number of a set of requests.
LEMMA RequestsCounted ==
  ASSUME NEW S \in SUBSET Workers
  PROVE  /\ IsFiniteSet(S) /\ Cardinality(S) \in Nat
         /\ Cardinality(S) <= Cardinality(Workers)
         /\ Cardinality(Workers) \in Nat
BY FS_Subset, FS_CardinalityType, AccessAssumptions

\* The tokens are numbers, and none of them is None.
LEMMA TokensAreNumbers ==
  /\ \A c \in Tokens : c \in Nat
  /\ None \notin Tokens
BY AccessAssumptions DEF Tokens

\* Fewer holders after a step that makes and uses none.
LEMMA NoUseKeeps ==
  ASSUME IInv, UseInv, NoUse
  PROVE  UseInv'
<1>0. /\ used \in [Tokens -> Nat]
      /\ \A w \in Workers : req[w].token \in Optional(Tokens)
  BY DEF IInv, RowsOK, HistoryOK, Pending, RequestsOK, Requests
<1>1. LoginsHoldNone'
  BY DEF NoUse, Spends, LoginsHoldNone
<1>2. FutureUnused'
  BY TokensAreNumbers DEF UseInv, FutureUnused, NoUse, Spends
<1>3. RowsUnused'
  <2> SUFFICES ASSUME NEW c \in Tokens, c \notin kept', challenge'[c] # None
               PROVE  /\ used'[c] = 0
                      /\ \A w \in Workers : ~(req'[w].token = c /\ req'[w].pc = "create")
    BY DEF RowsUnused
  <2>1. c \notin kept /\ challenge[c] # None /\ c # None
    BY TokensAreNumbers DEF NoUse
  <2>2. used'[c] = 0
    BY <2>1 DEF UseInv, RowsUnused, NoUse
  <2>3. \A w \in Workers : ~(req'[w].token = c /\ req'[w].pc = "create")
    BY <2>1 DEF UseInv, RowsUnused, NoUse, Spends
  <2> QED BY <2>2, <2>3
<1>4. UsesCounted'
  <2> SUFFICES ASSUME NEW c \in Tokens, c \notin kept'
               PROVE  used'[c] + Cardinality(Holders(c)') <= Cardinality(Workers)
    BY DEF UsesCounted
  <2>1. c \notin kept /\ used'[c] = used[c] /\ used[c] \in Nat
    BY <1>0 DEF NoUse
  <2>2. Holders(c)' \in SUBSET Holders(c) /\ Holders(c) \in SUBSET Workers
    BY TokensAreNumbers DEF NoUse, Spends, Holders
  <2>3. Cardinality(Holders(c)') <= Cardinality(Holders(c))
    BY <2>2, RequestsCounted, FS_Subset
  <2>4. Cardinality(Holders(c)') \in Nat /\ Cardinality(Holders(c)) \in Nat
    BY <2>2, RequestsCounted
  <2>5. used[c] + Cardinality(Holders(c)) <= Cardinality(Workers)
    BY <2>1 DEF UseInv, UsesCounted
  <2> QED BY <2>1, <2>3, <2>4, <2>5, RequestsCounted
<1> QED BY <1>1, <1>2, <1>3, <1>4 DEF UseInv

\* The session a request opens is a use of what it held, which it lets go.
LEMMA UsesKeptByCreate ==
  ASSUME IInv, UseInv, NEW w \in Workers, Create(w)
  PROVE  UseInv'
<1> DEFINE c == req[w].token
<1>0. /\ used \in [Tokens -> Nat]
      /\ c \in Optional(Tokens)
      /\ req[w].pc = "create"
      /\ UNCHANGED <<tokens, challenge, kept>>
  BY DEF IInv, RowsOK, HistoryOK, Pending, RequestsOK, Requests, Create, counters,
         tables
<1>1. /\ req'[w] = Idle
      /\ \A v \in Workers \ {w} : req'[v] = req[v]
  BY DEF Create, Return, Become, IInv, Pending, RequestsOK
<1>2. Idle.token = None /\ Idle.pc = "idle"
  BY DEF Idle
<1>3. CASE c = None
  <2>1. used' = used
    BY <1>3 DEF Create
  <2>2. NoUse
    BY <1>0, <1>1, <1>2, <2>1 DEF NoUse, Spends, UseInv, LoginsHoldNone
  <2> QED BY <2>2, NoUseKeeps
<1>4. CASE c # None
  <2>1. /\ c \in Tokens
        /\ used' = [used EXCEPT ![c] = @ + 1]
    BY <1>0, <1>4 DEF Create, Optional
  <2>2. LoginsHoldNone'
    BY <1>1, <1>2 DEF UseInv, LoginsHoldNone
  <2>3. FutureUnused'
    BY <1>0, <1>1, <1>2, <2>1, TokensAreNumbers DEF UseInv, FutureUnused
  <2>4. RowsUnused'
    BY <1>0, <1>1, <1>2, <2>1, TokensAreNumbers DEF UseInv, RowsUnused
  <2>5. UsesCounted'
    <3> SUFFICES ASSUME NEW d \in Tokens, d \notin kept
                 PROVE  used'[d] + Cardinality(Holders(d)') <= Cardinality(Workers)
      BY <1>0 DEF UsesCounted
    <3>1. /\ Holders(d) \in SUBSET Workers
          /\ used[d] \in Nat
          /\ used[d] + Cardinality(Holders(d)) <= Cardinality(Workers)
      BY <1>0 DEF UseInv, UsesCounted, Holders
    <3>2. CASE d = c
      <4>1. Holders(d)' = Holders(d) \ {w} /\ w \in Holders(d)
        BY <1>1, <1>2, <3>2, TokensAreNumbers DEF Holders
      <4>2. Cardinality(Holders(d)') = Cardinality(Holders(d)) - 1
        BY <3>1, <4>1, RequestsCounted, FS_RemoveElement
      <4>3. used'[d] = used[d] + 1
        BY <1>0, <2>1, <3>2
      <4> QED BY <3>1, <4>2, <4>3, RequestsCounted
    <3>3. CASE d # c
      <4>1. Holders(d)' = Holders(d)
        BY <1>1, <1>2, <3>3, TokensAreNumbers DEF Holders
      <4>2. used'[d] = used[d]
        BY <1>0, <2>1, <3>3
      <4> QED BY <3>1, <4>1, <4>2
    <3> QED BY <3>2, <3>3
  <2> QED BY <2>2, <2>3, <2>4, <2>5 DEF UseInv
<1> QED BY <1>3, <1>4

\* A new challenge is one nobody holds.
LEMMA UsesKeptByDecide ==
  ASSUME IInv, UseInv, NEW w \in Workers, Decide(w)
  PROVE  UseInv'
<1>0. /\ UNCHANGED <<used, kept>>
      /\ req[w].token = None
      /\ req[w] \in Requests
  BY DEF Decide, history, UseInv, LoginsHoldNone, IInv, Pending, RequestsOK
<1>1. CASE UNCHANGED <<challenge, tokens>> /\ Goto(w, "create")
  <2>1. /\ req'[w].token = None
        /\ req'[w].pc = "create"
        /\ \A v \in Workers \ {w} : req'[v] = req[v]
    BY <1>0, <1>1 DEF Goto, Become, IInv, Pending, RequestsOK, Requests
  <2>2. NoUse
    BY <1>0, <1>1, <2>1 DEF NoUse, Spends, UseInv, LoginsHoldNone
  <2> QED BY <2>2, NoUseKeeps
<1>2. ASSUME NEW purpose, NEW provider, NewChallenge(w, purpose, provider)
      PROVE  UseInv'
  <2> DEFINE n == tokens + 1
  <2>1. /\ n \in Tokens /\ tokens' = n /\ tokens \in Nat
        /\ \A c \in Tokens \ {n} : challenge'[c] = challenge[c]
    BY <1>2, AccessAssumptions
       DEF NewChallenge, Tokens, IInv, RowsOK, CountersOK, ChallengeOK
  <2>2. /\ req'[w].token = None /\ req'[w].pc = "idle"
        /\ \A v \in Workers \ {w} : req'[v] = req[v]
    BY <1>2 DEF NewChallenge, Return, Become, Idle, IInv, Pending, RequestsOK
  <2>3. LoginsHoldNone'
    BY <2>2 DEF UseInv, LoginsHoldNone
  <2>4. FutureUnused'
    BY <1>0, <2>1, <2>2, TokensAreNumbers DEF UseInv, FutureUnused
  <2>5. RowsUnused'
    <3> SUFFICES ASSUME NEW c \in Tokens, c \notin kept, challenge'[c] # None
                 PROVE  /\ used[c] = 0
                        /\ \A v \in Workers : ~(req'[v].token = c /\ req'[v].pc = "create")
      BY <1>0 DEF RowsUnused
    <3>1. CASE c = n
      BY <1>0, <2>1, <2>2, <3>1, TokensAreNumbers DEF UseInv, FutureUnused
    <3>2. CASE c # n
      BY <1>0, <2>1, <2>2, <3>2, TokensAreNumbers DEF UseInv, RowsUnused
    <3> QED BY <3>1, <3>2
  <2>6. UsesCounted'
    <3>1. \A c \in Tokens : Holders(c)' = Holders(c)
      BY <1>0, <2>2, TokensAreNumbers DEF Holders
    <3> QED BY <1>0, <3>1 DEF UseInv, UsesCounted
  <2> QED BY <2>3, <2>4, <2>5, <2>6 DEF UseInv
<1> QED BY <1>1, <1>2 DEF Decide

\* A request takes up a challenge only while its row is there.
LEMMA UsesKeptByOpening ==
  ASSUME IInv, UseInv, NEW w \in Workers, NEW c \in Tokens, NEW x, NEW purpose,
         NEW label \in {"code", "approval", "enroll", "verify"},
         OpenChallenge(w, c, x, purpose, label)
  PROVE  UseInv'
<1>0. /\ UNCHANGED <<used, kept, tokens, challenge>>
      /\ challenge[c] # None
      /\ used \in [Tokens -> Nat]
  BY DEF OpenChallenge, tables, counters, history, IInv, RowsOK, HistoryOK
<1>1. /\ req'[w].token = c /\ req'[w].pc = label
      /\ \A v \in Workers \ {w} : req'[v] = req[v]
  BY DEF OpenChallenge, Become, Idle, IInv, Pending, RequestsOK
<1>2. LoginsHoldNone'
  BY <1>1 DEF UseInv, LoginsHoldNone
<1>3. FutureUnused'
  BY <1>0, <1>1, TokensAreNumbers DEF UseInv, FutureUnused
<1>4. RowsUnused'
  BY <1>0, <1>1 DEF UseInv, RowsUnused
<1>5. UsesCounted'
  <2> SUFFICES ASSUME NEW d \in Tokens, d \notin kept
               PROVE  used[d] + Cardinality(Holders(d)') <= Cardinality(Workers)
    BY <1>0 DEF UsesCounted
  <2>1. Holders(d)' \in SUBSET Workers /\ Holders(d) \in SUBSET Workers
    BY DEF Holders
  <2>2. CASE d = c
    BY <1>0, <2>1, <2>2, RequestsCounted DEF UseInv, RowsUnused
  <2>3. CASE d # c
    <3>1. Holders(d)' \in SUBSET Holders(d)
      BY <1>1, <2>3 DEF Holders
    <3>2. Cardinality(Holders(d)') <= Cardinality(Holders(d))
      BY <2>1, <3>1, RequestsCounted, FS_Subset
    <3>3. used[d] + Cardinality(Holders(d)) <= Cardinality(Workers)
      BY DEF UseInv, UsesCounted
    <3>4. used[d] \in Nat
      BY <1>0
    <3> QED BY <2>1, <3>2, <3>3, <3>4, RequestsCounted
  <2> QED BY <2>2, <2>3
<1> QED BY <1>2, <1>3, <1>4, <1>5 DEF UseInv

\* Going on, or answering, other than to a session by a row that is there.
LEMMA UsesKeptByMove ==
  ASSUME IInv, UseInv, NEW w \in Workers, NEW r, Become(w, r),
         UNCHANGED <<tokens, used>>, kept \subseteq kept',
         \A c \in Tokens : challenge'[c] \in {challenge[c], None},
         r.token \in {req[w].token, None},
         r.pc \in {"security", "decide"} => r.token = None,
         r.pc = "create" => \/ r.token = None
                            \/ r.token \in kept'
                            \/ challenge'[r.token] = None
  PROVE  UseInv'
<1>1. /\ req'[w] = r
      /\ \A v \in Workers \ {w} : req'[v] = req[v]
  BY DEF Become, IInv, Pending, RequestsOK
<1>2. \A v \in Workers : Spends(v)
  BY <1>1 DEF Spends, UseInv, LoginsHoldNone
<1> QED BY <1>2, NoUseKeeps DEF NoUse

\* The same of a later step of a handler that does not come to open a session.
LEMMA UsesKeptByGoto ==
  ASSUME IInv, UseInv, NEW w \in Workers,
         NEW label \in PCs \ {"security", "decide", "create"},
         Goto(w, label) \/ Return(w),
         UNCHANGED <<tokens, used>>, kept \subseteq kept',
         \A c \in Tokens : challenge'[c] \in {challenge[c], None}
  PROVE  UseInv'
<1>1. /\ [req[w] EXCEPT !.pc = label].token = req[w].token
      /\ [req[w] EXCEPT !.pc = label].pc = label
  BY RequestFacts DEF IInv, Requests
<1>2. Idle.token = None /\ Idle.pc = "idle"
  BY DEF Idle
<1> QED BY <1>1, <1>2, UsesKeptByMove DEF Goto, Return

\* The same of a request that has shown the second factor.
LEMMA UsesKeptByFactor ==
  ASSUME IInv, UseInv, NEW w \in Workers,
         \/ Become(w, [req[w] EXCEPT !.pc = "spend", !.factor = TRUE])
         \/ Return(w),
         UNCHANGED <<tokens, used, kept>>,
         \A c \in Tokens : challenge'[c] \in {challenge[c], None}
  PROVE  UseInv'
<1>1. /\ [req[w] EXCEPT !.pc = "spend", !.factor = TRUE].token = req[w].token
      /\ [req[w] EXCEPT !.pc = "spend", !.factor = TRUE].pc = "spend"
  BY RequestFacts DEF IInv, Requests
<1>2. Idle.token = None /\ Idle.pc = "idle"
  BY DEF Idle
<1> QED BY <1>1, <1>2, UsesKeptByMove DEF Return

\* A spent challenge is gone, or it is one the database failed to delete.
LEMMA UsesKeptBySpend ==
  ASSUME IInv, UseInv, NEW w \in Workers, Spend(w)
  PROVE  UseInv'
<1> DEFINE c == req[w].token
<1>0. /\ c \in Tokens
      /\ req[w] \in Requests
      /\ challenge \in [Tokens -> Optional(Challenges)]
  BY RequestFacts DEF IInv, Spend, WellFormed, Requests, Optional, RowsOK, ChallengeOK
<1>1. /\ UNCHANGED <<tokens, used>>
      /\ kept \subseteq kept'
      /\ \A d \in Tokens : challenge'[d] \in {challenge[d], None}
      /\ challenge'[c] = None \/ c \in kept'
  BY <1>0 DEF Spend, counters
<1>2. /\ [req[w] EXCEPT !.pc = "create"].token = c
      /\ [req[w] EXCEPT !.pc = "create"].pc = "create"
  BY <1>0 DEF Requests
<1>3. Become(w, [req[w] EXCEPT !.pc = "create"])
  BY DEF Spend, Goto
<1> QED BY <1>1, <1>2, <1>3, UsesKeptByMove

\* Each step of a handler keeps the count.
LEMMA UsesKeptByStep ==
  ASSUME IInv, UseInv, NEW w \in Workers, Step(w)
  PROVE  UseInv'
<1>1. CASE ReadSecurity(w)
  <2> DEFINE r == SecurityRead(w)
  <2>1. r.pc = "decide" /\ r.token = req[w].token
    BY RequestFacts DEF IInv, Requests, SecurityRead
  <2>2. req[w].token = None
    BY <1>1 DEF ReadSecurity, UseInv, LoginsHoldNone
  <2>3. Idle.token = None /\ Idle.pc = "idle"
    BY DEF Idle
  <2>4. Become(w, r) \/ Become(w, Idle)
    BY <1>1 DEF ReadSecurity, Return
  <2>5. UNCHANGED <<tokens, used, kept, challenge>>
    BY <1>1 DEF ReadSecurity, tables, counters, history
  <2> QED BY <2>1, <2>2, <2>3, <2>4, <2>5, UsesKeptByMove
<1>2. CASE CheckCode(w) \/ Enabled(w)
  BY <1>2, UsesKeptByFactor DEF CheckCode, Enabled, tables, counters, history
<1>3. CASE AskProvider(w)
  <2>1. \A c \in Tokens : challenge'[c] \in {challenge[c], None}
    BY <1>3 DEF AskProvider, IInv, RowsOK, ChallengeOK
  <2> QED BY <1>3, <2>1, UsesKeptByFactor DEF AskProvider, counters, history
<1>4. CASE BeginEnrollment(w)
  BY <1>4, UsesKeptByGoto DEF BeginEnrollment, history, PCs
<1>5. CASE ReadPending(w)
  BY <1>5, UsesKeptByGoto DEF ReadPending, tables, counters, PCs
<1>6. CASE Enable(w)
  BY <1>6, UsesKeptByGoto DEF Enable, counters, history, PCs
<1>7. CASE VerifyCurrent(w)
  BY <1>7, UsesKeptByGoto DEF VerifyCurrent, tables, counters, history, PCs
<1>8. CASE ChangePassword(w)
  <2> DEFINE p == user'[req[w].account].password
             r == [req[w] EXCEPT !.pc = "invalidate", !.password = p]
  <2>1. r.pc = "invalidate" /\ r.token = req[w].token
    BY RequestFacts DEF IInv, Requests
  <2>2. Become(w, r) /\ UNCHANGED <<tokens, used, kept, challenge>>
    BY <1>8 DEF ChangePassword, history
  <2> QED BY <2>1, <2>2, UsesKeptByMove
<1>9. CASE Invalidate(w)
  BY <1>9, UsesKeptByGoto DEF Invalidate, tables, counters, PCs
<1>10. CASE GiveUp(w)
  BY <1>10, UsesKeptByGoto DEF GiveUp, tables, counters, history, PCs
<1> QED BY <1>1, <1>2, <1>3, <1>4, <1>5, <1>6, <1>7, <1>8, <1>9, <1>10,
           UsesKeptByDecide, UsesKeptByCreate, UsesKeptBySpend DEF Step

\* A request that begins holds the challenge it has read, or none.
LEMMA UsesKeptByRequest ==
  ASSUME IInv, UseInv, NEW w \in Workers, Request(w)
  PROVE  UseInv'
<1>1. ASSUME NEW a \in Accounts, Login(w, a) PROVE UseInv'
  <2> DEFINE r == [Idle EXCEPT !.pc = "security", !.account = a,
                      !.password = user[a].password,
                      !.needs = mfa[a].enabled # None]
  <2>1. r.pc = "security" /\ r.token = None
    BY DEF Idle
  <2>2. Become(w, r) /\ UNCHANGED <<tokens, used, kept, challenge>>
    BY <1>1 DEF Login, tables, counters, history
  <2> QED BY <2>1, <2>2, UsesKeptByMove
<1>2. ASSUME NEW s, NEW x, NEW label \in {"enroll", "verify", "current"},
             OpenSession(w, s, x, label)
      PROVE  UseInv'
  <2> DEFINE r == [Idle EXCEPT !.pc = label, !.account = session[s].account,
                      !.code = x]
  <2>1. r.pc = label /\ r.token = None
    BY DEF Idle
  <2>2. Become(w, r) /\ UNCHANGED <<tokens, used, kept, challenge>>
    BY <1>2 DEF OpenSession, tables, counters, history
  <2> QED BY <2>1, <2>2, UsesKeptByMove
<1> QED BY <1>1, <1>2, UsesKeptByOpening
    DEF Request, AnswerWithCode, AnswerByProvider

\* What others do uses no challenge.
LEMMA UsesKeptByOthers ==
  ASSUME IInv, UseInv,
         \/ UNCHANGED vars \/ SetPolicy \/ Restart
         \/ \E s \in SessionIDs : EndSession(s)
         \/ \E c \in Tokens : Expire(c)
         \/ \E a \in Accounts : ResetUserMFA(a)
         \/ \E a \in Accounts, active, reset \in BOOLEAN : UpdateUser(a, active, reset)
  PROVE  UseInv'
<1>1. UNCHANGED <<tokens, used, kept>>
  BY DEF vars, SetPolicy, Restart, EndSession, Expire, ResetUserMFA, Replace,
         UpdateUser, counters, history
<1>2. \A c \in Tokens : challenge'[c] \in {challenge[c], None}
  BY DEF vars, SetPolicy, Restart, EndSession, Expire, ResetUserMFA, Replace,
         UpdateUser, tables, IInv, RowsOK, ChallengeOK
<1>3. ASSUME NEW w \in Workers
      PROVE  req'[w] = Idle \/ (req'[w].token = req[w].token /\ req'[w].pc = req[w].pc)
  <2>1. ASSUME NEW a \in Accounts, ResetUserMFA(a)
        PROVE  req'[w].token = req[w].token /\ req'[w].pc = req[w].pc
    BY <2>1, RequestFacts DEF ResetUserMFA, Replace, Requests, IInv
  <2> QED BY <2>1 DEF vars, SetPolicy, Restart, EndSession, Expire, UpdateUser
<1>4. Idle.token = None /\ Idle.pc = "idle"
  BY DEF Idle
<1>5. \A w \in Workers : Spends(w)
  BY <1>3, <1>4 DEF Spends, UseInv, LoginsHoldNone
<1> QED BY <1>1, <1>2, <1>5, NoUseKeeps DEF NoUse

-----------------------------------------------------------------------------
(* The theorems.                                                           *)

\* The initial state: no authenticator, no session, every request idle.
LEMMA InitInv == Init => IInv
<1> SUFFICES ASSUME Init PROVE IInv
  OBVIOUS
<1>1. RowsOK
  BY AccessAssumptions DEF Init, RowsOK, UserOK, MfaOK, PolicyOK, ChallengeOK,
                           SessionOK, CountersOK, HistoryOK, NoAuthenticator,
                           Optional
<1>2. Pending
  BY IdleFits DEF Init, Pending, RequestsOK, EnablesProved, NeedsHonoured,
                  Honoured
<1>3. SecretProved /\ SessionsProven
  BY DEF Init, SecretProved, SessionsProven, NoAuthenticator
<1> QED BY <1>1, <1>2, <1>3 DEF IInv

\* Every step of a handler keeps the invariant.
LEMMA StepKeeps ==
  ASSUME IInv, NEW w \in Workers, Step(w)
  PROVE  IInv'
BY KeepsReadSecurity, KeepsDecide, KeepsCreate, KeepsCheckCode,
   KeepsAskProvider,
   KeepsSpend, KeepsBeginEnrollment, KeepsReadPending, KeepsEnable, KeepsEnabled,
   KeepsVerifyCurrent, KeepsChangePassword, KeepsInvalidate, KeepsGiveUp
   DEF Step

\* Every request that begins keeps the invariant.
LEMMA RequestKeeps ==
  ASSUME IInv, NEW w \in Workers, Request(w)
  PROVE  IInv'
<1>1. CASE \E a \in Accounts : Login(w, a)
  BY <1>1, KeepsLogin
<1>2. ASSUME NEW c \in Tokens, NEW x \in Codes, AnswerWithCode(w, c, x)
      PROVE  IInv'
  <2>1. OpenChallenge(w, c, x, "login", "code")
    BY <1>2 DEF AnswerWithCode
  <2> QED BY <2>1, KeepsOpenChallenge
<1>3. ASSUME NEW c \in Tokens, NEW x \in Codes,
             OpenChallenge(w, c, x, "setup", "verify")
      PROVE  IInv'
  BY <1>3, KeepsOpenChallenge
<1>4. ASSUME NEW c \in Tokens, AnswerByProvider(w, c)
      PROVE  IInv'
  <2>1. OpenChallenge(w, c, None, "login", "approval")
    BY <1>4 DEF AnswerByProvider
  <2> QED BY <2>1, KeepsOpenChallenge
<1>5. ASSUME NEW c \in Tokens, OpenChallenge(w, c, None, "setup", "enroll")
      PROVE  IInv'
  BY <1>5, KeepsOpenChallenge
<1>6. ASSUME NEW s \in SessionIDs, NEW x \in Codes, OpenSession(w, s, x, "verify")
      PROVE  IInv'
  BY <1>6, KeepsOpenSession
<1>7. ASSUME NEW s \in SessionIDs, NEW label \in {"enroll", "current"},
             OpenSession(w, s, None, label)
      PROVE  IInv'
  BY <1>7, KeepsOpenSession
<1> QED BY <1>1, <1>2, <1>3, <1>4, <1>5, <1>6, <1>7 DEF Request

\* A stuttering step keeps the invariant.
LEMMA NothingKeeps ==
  ASSUME IInv, UNCHANGED vars
  PROVE  IInv'
<1>1. /\ UNCHANGED <<user, mfa, policy, challenge, session, req, proved>>
      /\ UNCHANGED <<secrets, tokens, sessions, changes>>
      /\ UNCHANGED <<retired, swept, used, kept>>
  BY DEF vars, tables, counters, history
<1>2. RowsOK'
  BY <1>1 DEF IInv, RowsOK, UserOK, MfaOK, PolicyOK, ChallengeOK, SessionOK,
              CountersOK, HistoryOK
<1>3. Pending'
  BY <1>1, <1>2, StutterKeeps DEF IInv, Steady, RowsOK
<1>4. SecretProved' /\ SessionsProven'
  BY <1>1 DEF IInv, SecretProved, SessionsProven
<1> QED BY <1>2, <1>3, <1>4 DEF IInv

\* The strengthened invariant holds in every reachable state, whatever requests
\* of webmail and changes of the admin panel come between two statements.
THEOREM Inductive == Spec => []IInv
<1>1. IInv /\ [Next]_vars => IInv'
  <2> SUFFICES ASSUME IInv, [Next]_vars PROVE IInv'
    OBVIOUS
  <2>1. ASSUME NEW w \in Workers, Step(w) \/ Request(w) PROVE IInv'
    BY <2>1, StepKeeps, RequestKeeps
  <2>2. ASSUME NEW s \in SessionIDs, EndSession(s) PROVE IInv'
    BY <2>2, KeepsEndSession
  <2>3. ASSUME NEW c \in Tokens, Expire(c) PROVE IInv'
    BY <2>3, KeepsExpire
  <2>4. ASSUME NEW a \in Accounts, ResetUserMFA(a) PROVE IInv'
    BY <2>4, KeepsResetUserMFA
  <2>5. ASSUME NEW a \in Accounts, NEW active \in BOOLEAN, NEW reset \in BOOLEAN,
               UpdateUser(a, active, reset)
        PROVE  IInv'
    BY <2>5, KeepsUpdateUser
  <2>6. CASE SetPolicy
    BY <2>6, KeepsSetPolicy
  <2>7. CASE Restart
    BY <2>7, KeepsRestart
  <2>8. CASE UNCHANGED vars
    BY <2>8, NothingKeeps
  <2> QED BY <2>1, <2>2, <2>3, <2>4, <2>5, <2>6, <2>7, <2>8 DEF Next
<1> QED BY InitInv, <1>1, PTL DEF Spec

\* Rows, sessions and requests are well formed in every reachable state.
THEOREM TypeCorrect == Spec => []TypeOK
<1>1. IInv => TypeOK
  BY DEF IInv, RowsOK, Pending, TypeOK
<1> QED BY <1>1, Inductive, PTL

\* No enrolment, verification or reset interleaving makes a secret the
\* account's authenticator for which no code was ever accepted.  The empty
\* secret is no exception: its code is accepted where '' is pending.
THEOREM SecretAlwaysProved == Spec => []SecretProved
<1>1. IInv => SecretProved
  BY DEF IInv
<1> QED BY <1>1, Inductive, PTL

\* No session of an account with an authenticator is opened by the password
\* alone, whatever the policy becomes between the statements of the login.
THEOREM SessionsAlwaysProven == Spec => []SessionsProven
<1>1. IInv => SessionsProven
  BY DEF IInv
<1> QED BY <1>1, Inductive, PTL

\* A generated secret that a reset has retired is never the account's
\* authenticator again, unless a verification that had accepted it enables it
\* afterwards.
THEOREM ResetStays == Spec => []ResetIsFinal
<1>1. Init => ResetsKept
  BY AccessAssumptions DEF Init, ResetsKept, NoAuthenticator, Idle
<1>2. IInv /\ ResetsKept /\ [Next]_vars => ResetsKept'
  <2> SUFFICES ASSUME IInv, ResetsKept, [Next]_vars PROVE ResetsKept'
    OBVIOUS
  <2>1. ASSUME NEW w \in Workers, Step(w) PROVE ResetsKept'
    BY <2>1, CalmSteps, ResetsKeptByEnrollment, ResetsKeptByVerification,
       ResetsKeptByEnable DEF Step
  <2>2. ASSUME NEW w \in Workers, Request(w) PROVE ResetsKept'
    BY <2>2, ResetsKeptByRequests
  <2>3. ASSUME NEW a \in Accounts, ResetUserMFA(a) PROVE ResetsKept'
    BY <2>3, ResetsKeptByReset
  <2> QED BY <2>1, <2>2, <2>3, ResetsKeptByOthers DEF Next
<1>3. ResetsKept /\ IInv => ResetIsFinal
  BY DEF ResetsKept, ResetIsFinal
<1> QED BY <1>1, <1>2, <1>3, Inductive, PTL DEF Spec

\* A challenge opens at most one session for each request that had read it
\* before its row went (DeleteMailboxMFAChallenge), a failed deletion aside.
THEOREM ChallengeUses == Spec => []ChallengeUsesBounded
<1>1. Init => UseInv
  <2> SUFFICES ASSUME Init PROVE UseInv
    OBVIOUS
  <2>1. LoginsHoldNone /\ FutureUnused /\ RowsUnused
    BY TokensAreNumbers
       DEF Init, Idle, LoginsHoldNone, FutureUnused, RowsUnused
  <2>2. UsesCounted
    <3> SUFFICES ASSUME NEW c \in Tokens
                 PROVE  used[c] + Cardinality(Holders(c)) <= Cardinality(Workers)
      BY DEF UsesCounted
    <3>1. used[c] = 0 /\ Holders(c) \in SUBSET Workers
      BY DEF Init, Holders
    <3> QED BY <3>1, RequestsCounted
  <2> QED BY <2>1, <2>2 DEF UseInv
<1>2. IInv /\ UseInv /\ [Next]_vars => UseInv'
  BY UsesKeptByStep, UsesKeptByRequest, UsesKeptByOthers DEF Next
<1>3. IInv /\ UseInv => ChallengeUsesBounded
  <2> SUFFICES ASSUME IInv, UseInv, NEW c \in Tokens \ kept
               PROVE  used[c] <= Cardinality(Workers)
    BY DEF ChallengeUsesBounded
  <2>1. Holders(c) \in SUBSET Workers /\ used[c] \in Nat
    BY DEF Holders, IInv, RowsOK, HistoryOK
  <2>2. used[c] + Cardinality(Holders(c)) <= Cardinality(Workers)
    BY DEF UseInv, UsesCounted
  <2> QED BY <2>1, <2>2, RequestsCounted
<1> QED BY <1>1, <1>2, <1>3, Inductive, PTL DEF Spec

=============================================================================
