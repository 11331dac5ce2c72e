---------------------------- MODULE MailboxAccess ----------------------------
(***************************************************************************)
(* How the owner of a mailbox gets, keeps and loses webmail sessions:      *)
(* password login, the second factor, enrolment of an authenticator,       *)
(* password change, and an administrator's changes underneath.             *)
(*                                                                         *)
(*   internal/webmail/handlers.go    session, sessionMFA, mailboxTOTPEnroll,*)
(*                                   mailboxTOTPVerify, changePassword     *)
(*   internal/webmail/sql_store.go   the users, user_mfa_settings and      *)
(*                                   user_mfa_challenges tables            *)
(*   internal/session/manager.go     the sessions, in webmail's memory     *)
(*   internal/admin/sql_store.go     ResetUserMFA, UpdateUser              *)
(*                                                                         *)
(* A handler is a sequence of database statements, none in a transaction   *)
(* with the next, that ends in the session map.  Requests, and the admin   *)
(* panel in its own process, interleave between any two statements; the    *)
(* look-up of an active account's id is one step with what follows it.     *)
(***************************************************************************)
EXTENDS Naturals, FiniteSets

CONSTANTS
    Workers,     \* webmail requests served at the same time
    Accounts,    \* mailbox accounts
    None,        \* no row, no secret, no account, no session
    Policies,    \* second-factor policies the administrators choose from
    MaxSecrets,  \* bound: authenticator secrets generated
    MaxTokens,   \* bound: challenges created
    MaxSessions, \* bound: sessions created
    MaxChanges   \* bound: passwords changed, and administrators' changes

ASSUME AccessAssumptions ==
    /\ IsFiniteSet(Workers)
    /\ None \notin Accounts
    /\ None \notin Nat
    /\ Policies \subseteq [available : BOOLEAN, forced : BOOLEAN, hosted : BOOLEAN]
    /\ MaxSecrets \in Nat /\ MaxTokens \in Nat
    /\ MaxSessions \in Nat /\ MaxChanges \in Nat

\* A secret is the number of the enrolment that generated it.  Empty is the ''
\* that pending_totp_secret holds by default, after a verification and after a
\* reset: nobody generated it, but anybody can compute its code.
Empty == 0
Secrets == Empty..MaxSecrets
Tokens == 1..MaxTokens
SessionIDs == 1..MaxSessions

VARIABLES
    user,      \* account -> users row: password (its version) and active
    mfa,       \* account -> user_mfa_settings row: the secret it has enabled,
               \* or None, and the pending one, None while there is no row
    policy,    \* mail_server_settings, admin_mfa_settings: which factor is asked
    challenge, \* token -> its user_mfa_challenges row, or None
    session,   \* session -> its entry in the session map, or None
    req,       \* worker -> the request it serves
    secrets, tokens, sessions, changes, \* how many were made so far
    proved,    \* secrets for which a code has been accepted
    retired,   \* account -> generated secrets that a reset has retired
    swept,     \* account -> password set by the last change that ended sessions
    used,      \* token -> sessions its challenge has opened
    kept       \* tokens whose row the database failed to delete

tables == <<user, mfa, policy, challenge>>
counters == <<secrets, tokens, sessions, changes>>
history == <<proved, retired, swept, used, kept>>
vars == <<tables, session, req, counters, history>>

\* password: its version when the request verified it; code: the secret whose
\* code the client sends; needs: an authenticator has been enabled ever since
\* the password was verified; factor: the second factor has been verified;
\* available, setup, enabled: what GetMailboxSecurity has read.
Idle == [pc |-> "idle", account |-> None, token |-> None, code |-> None,
         password |-> 0, needs |-> FALSE, factor |-> FALSE,
         available |-> FALSE, setup |-> FALSE, enabled |-> FALSE]

NoAuthenticator == [enabled |-> None, pending |-> None]

Init == /\ user = [a \in Accounts |-> [password |-> 1, active |-> TRUE]]
        /\ mfa = [a \in Accounts |-> NoAuthenticator]
        /\ policy \in Policies
        /\ challenge = [c \in Tokens |-> None]
        /\ session = [s \in SessionIDs |-> None]
        /\ req = [w \in Workers |-> Idle]
        /\ secrets = 0 /\ tokens = 0 /\ sessions = 0 /\ changes = 0
        /\ proved = {}
        /\ retired = [a \in Accounts |-> {}]
        /\ swept = [a \in Accounts |-> 1]
        /\ used = [c \in Tokens |-> 0]
        /\ kept = {}

Active(w) == user[req[w].account].active
Become(w, r) == req' = [req EXCEPT ![w] = r]
Goto(w, label) == Become(w, [req[w] EXCEPT !.pc = label])
Return(w) == Become(w, Idle)

-----------------------------------------------------------------------------
(* POST /api/v1/session.                                                   *)

\* VerifyUserPassword accepts the password of an active account.  A refused
\* one changes nothing here (LoginGuard has the limiter).
Login(w, a) ==
    /\ req[w].pc = "idle"
    /\ user[a].active
    /\ Become(w, [Idle EXCEPT !.pc = "security", !.account = a,
                     !.password = user[a].password,
                     !.needs = mfa[a].enabled # None])
    /\ UNCHANGED <<tables, session, counters, history>>

\* MailboxSecurity: one statement over the account, its authenticator and the
\* server's settings.
SecurityRead(w) ==
    LET on == mfa[req[w].account].enabled # None IN
    [req[w] EXCEPT !.pc = "decide", !.enabled = on, !.available = policy.available,
                   !.setup = policy.available /\ policy.forced /\ ~on]

\* GetMailboxSecurity; an account no longer active is an error.
ReadSecurity(w) ==
    /\ req[w].pc = "security"
    /\ IF Active(w) THEN Become(w, SecurityRead(w)) ELSE Return(w)
    /\ UNCHANGED <<tables, session, counters, history>>

NewChallenge(w, purpose, provider) ==
    /\ Active(w)
    /\ tokens < MaxTokens
    /\ tokens' = tokens + 1
    /\ challenge' = [challenge EXCEPT ![tokens'] =
          [account |-> req[w].account, purpose |-> purpose,
           provider |-> provider, password |-> req[w].password]]
    /\ Return(w)

\* proIdentitySettings, another table, is read only now.
Hosted(w) == req[w].available /\ policy.hosted

\* Variant: no code is asked for where the policy offers no second factor.
DecideByPolicy(w) ==
    LET r == req[w] IN
    /\ r.pc = "decide"
    /\ \/ Hosted(w) /\ NewChallenge(w, "login", "proidentity")
       \/ ~Hosted(w) /\ r.setup /\ NewChallenge(w, "setup", "totp")
       \/ ~Hosted(w) /\ r.available /\ r.enabled
             /\ NewChallenge(w, "login", "totp")
       \/ /\ ~Hosted(w) /\ ~r.setup /\ ~(r.available /\ r.enabled)
          /\ Goto(w, "create")
          /\ UNCHANGED <<challenge, tokens>>
    /\ UNCHANGED <<user, mfa, policy, session, secrets, sessions, changes, history>>

\* The answer to a right password: a hosted approval, an enrolment the policy
\* forces, a code of the enabled authenticator, or the session itself.
Decide(w) ==
    LET r == req[w] IN
    /\ r.pc = "decide"
    /\ \/ Hosted(w) /\ NewChallenge(w, "login", "proidentity")
       \/ ~Hosted(w) /\ r.setup /\ NewChallenge(w, "setup", "totp")
       \/ ~Hosted(w) /\ r.enabled /\ NewChallenge(w, "login", "totp")
       \/ /\ ~Hosted(w) /\ ~r.setup /\ ~r.enabled
          /\ Goto(w, "create")
          /\ UNCHANGED <<challenge, tokens>>
    /\ UNCHANGED <<user, mfa, policy, session, secrets, sessions, changes, history>>

\* Manager.Create.
Create(w) ==
    LET c == req[w].token IN
    /\ req[w].pc = "create"
    /\ sessions < MaxSessions
    /\ sessions' = sessions + 1
    /\ session' = [session EXCEPT ![sessions'] =
          [account |-> req[w].account, password |-> req[w].password,
           proven |-> req[w].needs => req[w].factor]]
    /\ used' = IF c = None THEN used ELSE [used EXCEPT ![c] = @ + 1]
    /\ Return(w)
    /\ UNCHANGED <<tables, secrets, tokens, changes, proved, retired, swept, kept>>

-----------------------------------------------------------------------------
(* POST /api/v1/session/mfa.                                               *)

\* GetMailboxMFAChallenge: the client sends c with a code of a secret it holds.
OpenChallenge(w, c, x, purpose, label) ==
    /\ req[w].pc = "idle"
    /\ challenge[c] # None /\ challenge[c].purpose = purpose
    /\ Become(w, [Idle EXCEPT !.pc = label, !.account = challenge[c].account,
                     !.token = c, !.code = x,
                     !.password = challenge[c].password])
    /\ UNCHANGED <<tables, session, counters, history>>

AnswerWithCode(w, c, x) ==
    /\ challenge[c] # None /\ challenge[c].provider = "totp"
    /\ OpenChallenge(w, c, x, "login", "code")

AnswerByProvider(w, c) ==
    /\ challenge[c] # None /\ challenge[c].provider = "proidentity"
    /\ OpenChallenge(w, c, None, "login", "approval")

\* VerifyMailboxTOTPCode.
CheckCode(w) ==
    /\ req[w].pc = "code"
    /\ IF Active(w) /\ mfa[req[w].account].enabled \in {req[w].code} \ {None}
       THEN Become(w, [req[w] EXCEPT !.pc = "spend", !.factor = TRUE])
       ELSE Return(w)
    /\ UNCHANGED <<tables, session, counters, history>>

\* The hosted service approved the request or accepted its own code; or it
\* said denied or expired, which ends the challenge; or it still waits.
AskProvider(w) ==
    LET c == req[w].token IN
    /\ req[w].pc = "approval"
    /\ \/ /\ policy.hosted
          /\ Become(w, [req[w] EXCEPT !.pc = "spend", !.factor = TRUE])
          /\ UNCHANGED challenge
       \/ /\ policy.hosted
          /\ challenge' = [challenge EXCEPT ![c] = None]
          /\ Return(w)
       \/ /\ Return(w)
          /\ UNCHANGED challenge
    /\ UNCHANGED <<user, mfa, policy, session, counters, history>>

\* Variant: the challenge is left to expire.
SpendLater(w) ==
    /\ req[w].pc = "spend"
    /\ Goto(w, "create")
    /\ UNCHANGED <<tables, session, counters, history>>

\* DeleteMailboxMFAChallenge, whose error is ignored.
Spend(w) ==
    LET c == req[w].token IN
    /\ req[w].pc = "spend"
    /\ \/ /\ challenge' = [challenge EXCEPT ![c] = None]
          /\ UNCHANGED kept
       \/ /\ kept' = kept \cup {c}
          /\ UNCHANGED challenge
    /\ Goto(w, "create")
    /\ UNCHANGED <<user, mfa, policy, session, counters, proved, retired, swept, used>>

-----------------------------------------------------------------------------
(* Enrolment of an authenticator: by a setup challenge, or in a session.   *)

\* authorized: the request carries a live session.
OpenSession(w, s, x, label) ==
    /\ req[w].pc = "idle"
    /\ session[s] # None
    /\ Become(w, [Idle EXCEPT !.pc = label, !.account = session[s].account,
                     !.code = x])
    /\ UNCHANGED <<tables, session, counters, history>>

\* BeginMailboxTOTPEnrollment: a new secret replaces the pending one.
BeginEnrollment(w) ==
    /\ req[w].pc = "enroll"
    /\ IF Active(w)
       THEN /\ secrets < MaxSecrets
            /\ secrets' = secrets + 1
            /\ mfa' = [mfa EXCEPT ![req[w].account].pending = secrets']
       ELSE UNCHANGED <<mfa, secrets>>
    /\ Return(w)
    /\ UNCHANGED <<user, policy, challenge, session, tokens, sessions, changes, history>>

\* VerifyMailboxTOTPEnrollment reads the pending secret and validates the code.
\* Without a row it fails; a pending secret that is Empty is as good as another,
ReadPending(w) ==
    LET p == mfa[req[w].account].pending IN
    /\ req[w].pc = "verify"
    /\ IF Active(w) /\ p \in {req[w].code} \ {None}
       THEN /\ Goto(w, "enable")
            /\ proved' = proved \cup {p}
       ELSE Return(w) /\ UNCHANGED proved
    /\ UNCHANGED <<tables, session, counters, retired, swept, used, kept>>

\* Variant: whatever is pending by now becomes the secret.
EnablePending(w) ==
    LET a == req[w].account IN
    /\ req[w].pc = "enable"
    /\ mfa' = [mfa EXCEPT ![a] = [enabled |-> mfa[a].pending, pending |-> Empty]]
    /\ Goto(w, "enabled")
    /\ UNCHANGED <<user, policy, challenge, session, counters, history>>

\* then writes the secret it has read; whatever is pending by now is cleared.
Enable(w) ==
    /\ req[w].pc = "enable"
    /\ mfa' = [mfa EXCEPT ![req[w].account] =
                  [enabled |-> req[w].code, pending |-> Empty]]
    /\ Goto(w, "enabled")
    /\ UNCHANGED <<user, policy, challenge, session, counters, history>>

\* Variant: a verification made in a session goes on like a login.
EnabledAlways(w) ==
    /\ req[w].pc = "enabled"
    /\ IF Active(w)
       THEN Become(w, [req[w] EXCEPT !.pc = "spend", !.factor = TRUE])
       ELSE Return(w)
    /\ UNCHANGED <<tables, session, counters, history>>

\* GetMailboxSecurity for the answer: its error refuses a code already used.
Enabled(w) ==
    /\ req[w].pc = "enabled"
    /\ IF Active(w) /\ req[w].token # None
       THEN Become(w, [req[w] EXCEPT !.pc = "spend", !.factor = TRUE])
       ELSE Return(w)
    /\ UNCHANGED <<tables, session, counters, history>>

-----------------------------------------------------------------------------
(* POST /api/v1/password, and the end of a session.                        *)

\* VerifyUserPassword accepts the current password.
VerifyCurrent(w) ==
    /\ req[w].pc = "current"
    /\ IF Active(w) THEN Goto(w, "change") ELSE Return(w)
    /\ UNCHANGED <<tables, session, counters, history>>

\* ChangePassword: an UPDATE of the active account, which may match no row.
ChangePassword(w) ==
    LET a == req[w].account IN
    /\ req[w].pc = "change"
    /\ IF Active(w)
       THEN /\ changes < MaxChanges
            /\ changes' = changes + 1
            /\ user' = [user EXCEPT ![a].password = @ + 1]
       ELSE UNCHANGED <<user, changes>>
    /\ Become(w, [req[w] EXCEPT !.pc = "invalidate",
                                !.password = user'[a].password])
    /\ UNCHANGED <<mfa, policy, challenge, session, secrets, tokens, sessions, history>>

\* InvalidateSubject and Clear.
Invalidate(w) ==
    LET a == req[w].account IN
    /\ req[w].pc = "invalidate"
    /\ session' = [s \in SessionIDs |->
                      IF session[s] # None /\ session[s].account = a
                      THEN None ELSE session[s]]
    /\ swept' = [swept EXCEPT ![a] = IF @ < req[w].password THEN req[w].password ELSE @]
    /\ Return(w)
    /\ UNCHANGED <<tables, counters, proved, retired, used, kept>>

\* Logout, or the session's expiry.
EndSession(s) ==
    /\ session[s] # None
    /\ session' = [session EXCEPT ![s] = None]
    /\ UNCHANGED <<tables, req, counters, history>>

\* The challenge's time is over.
Expire(c) ==
    /\ challenge[c] # None
    /\ challenge' = [challenge EXCEPT ![c] = None]
    /\ UNCHANGED <<user, mfa, policy, session, req, counters, history>>

\* A database error, a cancelled request or a refused input.
GiveUp(w) ==
    /\ req[w].pc # "idle"
    /\ Return(w)
    /\ UNCHANGED <<tables, session, counters, history>>

\* webmail restarts: its sessions live in memory.
Restart ==
    /\ changes < MaxChanges
    /\ changes' = changes + 1
    /\ session' = [s \in SessionIDs |-> None]
    /\ req' = [w \in Workers |-> Idle]
    /\ UNCHANGED <<tables, secrets, tokens, sessions, history>>

-----------------------------------------------------------------------------
(* The admin panel.                                                        *)

\* Secrets of a that a verification has accepted and is about to enable.
InVerification(a) ==
    {req[w].code : w \in {v \in Workers : req[v].pc = "enable" /\ req[v].account = a}}

\* The row of a is replaced and its challenges are removed.
Replace(a, row) ==
    /\ changes < MaxChanges
    /\ changes' = changes + 1
    /\ mfa' = [mfa EXCEPT ![a] = row]
    /\ challenge' = [c \in Tokens |->
                        IF challenge[c] # None /\ challenge[c].account = a
                        THEN None ELSE challenge[c]]
    /\ retired' = [retired EXCEPT ![a] = @ \cup ((1..secrets) \ InVerification(a))]
    /\ req' = [w \in Workers |-> IF req[w].account = a
                                 THEN [req[w] EXCEPT !.needs = FALSE] ELSE req[w]]
    /\ UNCHANGED <<user, policy, session, secrets, tokens, sessions,
                   proved, swept, used, kept>>

\* Variant: the pending secret is left in the row.
ResetUserMFAHalf(a) == Replace(a, [mfa[a] EXCEPT !.enabled = None])

\* ResetUserMFA: one transaction, whose UPDATE makes no row.  A request that has
\* begun before it no longer has an authenticator to satisfy.
ResetUserMFA(a) ==
    Replace(a, IF mfa[a].pending = None THEN NoAuthenticator
               ELSE [enabled |-> None, pending |-> Empty])

\* An edit of the user or the limiter: status, and the password if one is given.
UpdateUser(a, active, reset) ==
    /\ changes < MaxChanges
    /\ changes' = changes + 1
    /\ user' = [user EXCEPT ![a] = [password |-> IF reset THEN @.password + 1
                                                 ELSE @.password,
                                    active |-> active]]
    /\ UNCHANGED <<mfa, policy, challenge, session, req, secrets, tokens,
                   sessions, history>>

SetPolicy ==
    /\ changes < MaxChanges
    /\ changes' = changes + 1
    /\ policy' \in Policies
    /\ UNCHANGED <<user, mfa, challenge, session, req, secrets, tokens,
                   sessions, history>>

-----------------------------------------------------------------------------

Step(w) == \/ ReadSecurity(w) \/ Decide(w) \/ Create(w)
           \/ CheckCode(w) \/ AskProvider(w) \/ Spend(w)
           \/ BeginEnrollment(w) \/ ReadPending(w) \/ Enable(w) \/ Enabled(w)
           \/ VerifyCurrent(w) \/ ChangePassword(w) \/ Invalidate(w)
           \/ GiveUp(w)

\* The code a client sends is of a secret it was given in an enrolment, or of
\* the empty one.
Codes == Empty..secrets

Request(w) ==
    \/ \E a \in Accounts : Login(w, a)
    \/ \E c \in Tokens, x \in Codes :
          \/ AnswerWithCode(w, c, x)
          \/ OpenChallenge(w, c, x, "setup", "verify")
    \/ \E c \in Tokens :
          \/ AnswerByProvider(w, c)
          \/ OpenChallenge(w, c, None, "setup", "enroll")
    \/ \E s \in SessionIDs, x \in Codes : OpenSession(w, s, x, "verify")
    \/ \E s \in SessionIDs, label \in {"enroll", "current"} :
          OpenSession(w, s, None, label)

Next == \/ \E w \in Workers : Step(w) \/ Request(w)
        \/ \E s \in SessionIDs : EndSession(s)
        \/ \E c \in Tokens : Expire(c)
        \/ \E a \in Accounts : ResetUserMFA(a)
        \/ \E a \in Accounts, active, reset \in BOOLEAN : UpdateUser(a, active, reset)
        \/ SetPolicy
        \/ Restart

Spec == Init /\ [][Next]_vars

-----------------------------------------------------------------------------
(* Properties                                                              *)

PCs == {"idle", "security", "decide", "create", "code", "approval", "spend",
        "enroll", "verify", "enable", "enabled", "current", "change",
        "invalidate"}

Optional(S) == S \cup {None}

Challenges == [account : Accounts, purpose : {"login", "setup"},
               provider : {"totp", "proidentity"}, password : Nat]
Requests == [pc : PCs, account : Optional(Accounts), token : Optional(Tokens),
             code : Optional(Secrets), password : Nat, needs : BOOLEAN,
             factor : BOOLEAN, available : BOOLEAN, setup : BOOLEAN,
             enabled : BOOLEAN]

UserOK == user \in [Accounts -> [password : Nat, active : BOOLEAN]]
MfaOK == mfa \in [Accounts -> [enabled : Optional(Secrets),
                               pending : Optional(Secrets)]]
PolicyOK == policy \in Policies
ChallengeOK == challenge \in [Tokens -> Optional(Challenges)]
SessionOK == session \in [SessionIDs -> Optional([account : Accounts,
                              password : Nat, proven : BOOLEAN])]
CountersOK == /\ secrets \in 0..MaxSecrets /\ tokens \in 0..MaxTokens
              /\ sessions \in 0..MaxSessions /\ changes \in 0..MaxChanges
HistoryOK == /\ proved \subseteq Secrets /\ kept \subseteq Tokens
             /\ retired \in [Accounts -> SUBSET Secrets]
             /\ swept \in [Accounts -> Nat]
             /\ used \in [Tokens -> Nat]

\* A request past its first step knows its account, one that spends a challenge
\* knows which, and one that enables a secret which.
WellFormed(r) == /\ r.pc # "idle" => r.account # None
                 /\ r.pc \in {"code", "approval", "spend"} => r.token # None
                 /\ r.pc = "enable" => r.code # None
RequestsOK == /\ req \in [Workers -> Requests]
              /\ \A w \in Workers : WellFormed(req[w])

\* Every row, session and request is well formed.
TypeOK == /\ UserOK /\ MfaOK /\ PolicyOK /\ ChallengeOK /\ SessionOK
          /\ CountersOK /\ HistoryOK /\ RequestsOK

\* The authenticator in force is one its owner has proved to hold: a code of
\* exactly this secret was accepted, although enrolments and verifications of
\* one account overlap and share the pending column.  The secret may be Empty:
\* its code is accepted wherever '' is pending.
SecretProved == \A a \in Accounts : mfa[a].enabled \in proved \cup {None}

\* If an authenticator was enabled when the password was verified, and no
\* administrator has reset it since, the session was opened with a second
\* factor, whatever the policy and the enrolment did in between.
SessionsProven == \A s \in SessionIDs : session[s] # None => session[s].proven

\* One challenge opens at most one session per request served at the same
\* time: once a request has spent it, none that begins later gets in by it.
\* A row the database failed to delete is the exception.
ChallengeUsesBounded ==
    \A c \in Tokens \ kept : used[c] <= Cardinality(Workers)

\* After a password change has been answered no session of the account remains
\* that was opened with an earlier password.
OldPasswordOpensNoSession ==
    \A s \in SessionIDs :
        session[s] # None => session[s].password >= swept[session[s].account]

\* A reset authenticator stays reset: a secret that an enrolment generated
\* before ResetUserMFA is not enabled after it, except by a verification that
\* had already accepted its code when the reset came.  Nobody generated the
\* empty secret: it may be enabled, reset and enabled again.
ResetIsFinal == \A a \in Accounts : mfa[a].enabled \notin retired[a]

=============================================================================
