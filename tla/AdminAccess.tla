----------------------------- MODULE AdminAccess -----------------------------
(***************************************************************************)
(* The administrator's sessions and second factor: sign-in, step-up before *)
(* dangerous operations, and the handlers that set the factors up.         *)
(*                                                                         *)
(*   internal/admin/handlers.go    login, logout, requireAdmin             *)
(*   internal/admin/mfa.go         challenges, step-up, factor settings    *)
(*   internal/admin/webauthn.go    hardware keys                           *)
(*   internal/admin/sql_store.go   admin_mfa_settings (one row),           *)
(*                                 admin_mfa_challenges, admin_webauthn_*  *)
(*   internal/session/manager.go   the sessions, in webadmin's memory      *)
(*                                                                         *)
(* There is one administrator.  A handler is a sequence of statements, not *)
(* in a transaction, and requests interleave between any two of them.  The *)
(* handlers that change a setting read the whole row, change it, and write *)
(* the whole row back.                                                     *)
(***************************************************************************)
EXTENDS Naturals, FiniteSets

CONSTANTS
    Requests,      \* requests served at the same time
    None,          \* no row
    MaxSessions,   \* bound: sessions created
    MaxChallenges, \* bound: challenges and ceremonies there are at once
    MaxSecrets,    \* bound: authenticator secrets generated
    MaxKeys        \* bound: hardware keys registered

Sessions == 1..MaxSessions
Challenges == 1..MaxChallenges
Secrets == 1..MaxSecrets

\* The settings row; 0 is an empty secret.  enabled: the hosted provider is
\* switched on and complete; hosted: so is its own TOTP.
Settings == [enabled : BOOLEAN, hosted : BOOLEAN, keys : BOOLEAN,
             totp : 0..MaxSecrets, pending : 0..MaxSecrets]

\* What a row of either challenge table is for.
Logins == {"totp", "proidentity"}
Rows == Logins \cup {"webauthn", "registration", "enrollment"}

ASSUME AdminAssumptions ==
    /\ IsFiniteSet(Requests)
    /\ None \notin Rows /\ None \notin Settings
    /\ MaxSessions \in Nat /\ MaxChallenges \in Nat /\ MaxSecrets \in Nat
    /\ MaxKeys \in Nat

VARIABLES
    settings, \* the row of admin_mfa_settings
    keys,     \* how many rows admin_webauthn_credentials has
    rows,     \* challenge -> its row, or None
    live,     \* the sessions in the map
    trusted,  \* those whose step-up mark has not run out
    request,  \* request -> where it is and what it has read
    made,     \* how many sessions and secrets were made so far
    proved,   \* secrets of which a code was accepted
    used,     \* challenge -> sessions it opened and marks it set, until kept
    kept      \* challenges whose row the database failed to delete

tables == <<settings, keys, rows>>
sessions == <<live, trusted>>
history == <<proved, used, kept>>
vars == <<tables, sessions, request, made, history>>

\* session: whose cookie the request carries, 0 is none.  next: the settings
\* it is about to write; fresh: nobody has written them since it read them.
Idle == [pc |-> "idle", session |-> 0, challenge |-> 0, row |-> None,
         next |-> None, fresh |-> TRUE]

Init == /\ settings = [enabled |-> FALSE, hosted |-> FALSE, keys |-> FALSE,
                       totp |-> 0, pending |-> 0]
        /\ keys = 0
        /\ rows = [c \in Challenges |-> None]
        /\ live = {} /\ trusted = {}
        /\ request = [r \in Requests |-> Idle]
        /\ made = [sessions |-> 0, secrets |-> 0]
        /\ proved = {}
        /\ used = [c \in Challenges |-> 0]
        /\ kept = {}

At(r, label) == request[r].pc = label
Become(r, q) == request' = [request EXCEPT ![r] = q]
Goto(r, label) == Become(r, [request[r] EXCEPT !.pc = label])
Finish(r) == Become(r, Idle)
Spending(c) == [Idle EXCEPT !.pc = "spend", !.challenge = c]

\* effectiveMFAProvider.
Provider == IF settings.enabled THEN "proidentity"
            ELSE IF settings.keys THEN "webauthn"
            ELSE IF settings.totp # 0 THEN "totp" ELSE "none"

-----------------------------------------------------------------------------
(* Challenges.                                                             *)

\* CreateAdminMFAChallenge, CreateAdminWebAuthnSession.  A number whose row is
\* gone and that no request works with stands for the next challenge.
Open(r) == \E c \in Challenges :
    /\ At(r, "open")
    /\ rows[c] = None
    /\ \A p \in Requests : request[p].challenge # c
    /\ rows' = [rows EXCEPT ![c] = request[r].row]
    /\ used' = [used EXCEPT ![c] = 0]
    /\ kept' = kept \ {c}
    /\ Finish(r)
    /\ UNCHANGED <<settings, keys, sessions, made, proved>>

\* An expired row is refused by whoever reads it, and removed by whoever
\* finds it first.
Expire(c) ==
    /\ rows[c] # None
    /\ rows' = [rows EXCEPT ![c] = None]
    /\ UNCHANGED <<settings, keys, sessions, request, made, history>>

\* beginAdminMFA, beginSessionWebAuthn: a challenge of the provider.
Challenge(r) ==
    /\ Provider # "none"
    /\ Provider = "webauthn" => keys # 0
    /\ Become(r, [Idle EXCEPT !.pc = "open", !.row = Provider])

-----------------------------------------------------------------------------
(* Sign-in and step-up.                                                    *)

\* The password is right; LoginGuard has the limiter.
Login(r) ==
    /\ At(r, "idle")
    /\ \/ Challenge(r)
       \/ Provider = "none" /\ Become(r, [Idle EXCEPT !.pc = "create"])
    /\ UNCHANGED <<tables, sessions, made, history>>

\* Without a second factor no operation can be approved.
BeginStepUp(r) ==
    /\ At(r, "idle") /\ live # {}
    /\ Challenge(r)
    /\ UNCHANGED <<tables, sessions, made, history>>

\* The answer to a challenge, to sign in (no session) or to step up.  Both
\* take the challenges of either.
Answer(r, c, s) ==
    /\ At(r, "idle")
    /\ s \in live \cup {0}
    /\ rows[c] # None
    /\ \/ rows[c] \in Logins
          /\ Become(r, [Idle EXCEPT !.pc = "check", !.session = s,
                           !.challenge = c, !.row = rows[c]])
       \/ rows[c] = "webauthn"
          /\ Become(r, [Idle EXCEPT !.pc = "assert", !.session = s,
                           !.challenge = c, !.row = rows[c]])
    /\ UNCHANGED <<tables, sessions, made, history>>

\* Where a verified request goes.
Granted(r) == IF request[r].session = 0 THEN "create" ELSE "mark"

\* verifyAdminMFAChallenge: the settings are read anew, so the code is of the
\* secret in force now.  A code that is refused ends the request; so does a
\* hosted request that is pending or has failed.
Check(r) ==
    /\ At(r, "check")
    /\ \/ request[r].row = "totp" /\ settings.totp # 0 /\ Goto(r, Granted(r))
       \/ request[r].row = "proidentity" /\ Goto(r, Granted(r))
       \/ request[r].row = "proidentity" /\ Become(r, Spending(request[r].challenge))
    /\ UNCHANGED <<tables, sessions, made, history>>

\* finishAdminWebAuthnAssertion, up to FinishLogin.
AssertKey(r) ==
    /\ At(r, "assert")
    /\ keys # 0
    /\ Goto(r, "drop")
    /\ UNCHANGED <<tables, sessions, made, history>>

\* The row goes, or the database fails and the error is ignored.
DeleteRow(c) ==
    \/ rows' = [rows EXCEPT ![c] = None] /\ UNCHANGED kept
    \/ UNCHANGED rows /\ kept' = kept \cup {c}

\* A ceremony is spent before the session is created or marked,
Drop(r) ==
    /\ At(r, "drop")
    /\ DeleteRow(request[r].challenge)
    /\ Goto(r, Granted(r))
    /\ UNCHANGED <<settings, keys, sessions, made, proved, used>>

\* any other challenge after it.
Used(r) ==
    LET c == request[r].challenge IN
    /\ IF c \in kept \cup {0} THEN UNCHANGED used ELSE used' = [used EXCEPT ![c] = @ + 1]
    /\ IF c # 0 /\ request[r].row \in Logins THEN Become(r, Spending(c))
       ELSE Finish(r)

Create(r) ==
    LET s == made.sessions + 1 IN
    /\ At(r, "create")
    /\ s \in Sessions
    /\ made' = [made EXCEPT !.sessions = s]
    /\ live' = live \cup {s}
    /\ Used(r)
    /\ UNCHANGED <<tables, trusted, proved, kept>>

\* Variant: the session that was validated when the request came in is marked
\* and stored.
MarkValidated(r) ==
    /\ At(r, "mark")
    /\ live' = live \cup {request[r].session}
    /\ trusted' = trusted \cup {request[r].session}
    /\ Used(r)
    /\ UNCHANGED <<tables, made, proved, kept>>

\* MarkStepUp: the session must still be in the map.  If it is not, the
\* request ends and its challenge stays.
Mark(r) ==
    /\ At(r, "mark")
    /\ \/ /\ request[r].session \in live
          /\ trusted' = trusted \cup {request[r].session}
          /\ Used(r)
       \/ /\ request[r].session \notin live
          /\ Finish(r)
          /\ UNCHANGED <<trusted, used>>
    /\ UNCHANGED <<tables, live, made, proved, kept>>

\* Variant: the challenge is left to expire.
SpendNothing(r) ==
    /\ At(r, "spend")
    /\ Finish(r)
    /\ UNCHANGED <<tables, sessions, made, history>>

Spend(r) ==
    /\ At(r, "spend")
    /\ DeleteRow(request[r].challenge)
    /\ Finish(r)
    /\ UNCHANGED <<settings, keys, sessions, made, proved, used>>

\* The time of a step-up mark runs out.
Lapse(s) ==
    /\ s \in trusted
    /\ trusted' = trusted \ {s}
    /\ UNCHANGED <<tables, live, request, made, history>>

\* Variant: the marks are kept in a map of their own.
EndSessionOnly(s) ==
    /\ s \in live
    /\ live' = live \ {s}
    /\ UNCHANGED <<tables, trusted, request, made, history>>

\* Logout, or a session whose time is over.
EndSession(s) ==
    /\ s \in live
    /\ live' = live \ {s}
    /\ trusted' = trusted \ {s}
    /\ UNCHANGED <<tables, request, made, history>>

-----------------------------------------------------------------------------
(* Setting the factors up.  Every handler begins with a valid session.     *)

\* The rest of a handler that has read the settings: next will be written,
\* and then challenge c deleted.
Prepare(r, next, c) ==
    Become(r, [Idle EXCEPT !.pc = "save", !.next = next, !.challenge = c])

\* Variant: the row is made from the form alone.
EditProviderAnew(r, on, hosted) ==
    /\ At(r, "idle") /\ live # {}
    /\ Prepare(r, [settings EXCEPT !.enabled = on, !.hosted = hosted, !.keys = FALSE], 0)
    /\ UNCHANGED <<tables, sessions, made, history>>

\* updateProIdentityAuthSettings.  Another account, the key given again, or
\* none: it has no TOTP yet.
EditProvider(r, on, hosted) ==
    /\ At(r, "idle") /\ live # {}
    /\ hosted => on /\ settings.hosted
    /\ Prepare(r, [settings EXCEPT !.enabled = on, !.hosted = hosted], 0)
    /\ UNCHANGED <<tables, sessions, made, history>>

\* createAdminTOTPEnrollment.
EnrollTotp(r) ==
    LET secret == made.secrets + 1 IN
    /\ At(r, "idle") /\ live # {}
    /\ Provider # "proidentity"
    /\ secret \in Secrets
    /\ made' = [made EXCEPT !.secrets = secret]
    /\ Prepare(r, [settings EXCEPT !.pending = secret], 0)
    /\ UNCHANGED <<tables, sessions, history>>

\* verifyAdminTOTPEnrollment: the code is of the pending secret just read.
VerifyTotp(r) ==
    /\ At(r, "idle") /\ live # {}
    /\ settings.pending # 0
    /\ proved' = proved \cup {settings.pending}
    /\ Prepare(r, [settings EXCEPT !.totp = settings.pending, !.pending = 0], 0)
    /\ UNCHANGED <<tables, sessions, made, used, kept>>

\* verifyProIdentityTOTPEnrollment: a code of the account, then a request to
\* its owner to approve the setup.
VerifyHosted(r) ==
    /\ At(r, "idle") /\ live # {}
    /\ Provider = "proidentity"
    /\ Become(r, [Idle EXCEPT !.pc = "open", !.row = "enrollment"])
    /\ UNCHANGED <<tables, sessions, made, history>>

\* confirmProIdentityTOTPEnrollment; the challenge of a sign-in is deleted.
ConfirmHosted(r, c) ==
    /\ At(r, "idle") /\ live # {}
    /\ rows[c] # None
    /\ \/ /\ rows[c] = "enrollment"
          /\ Become(r, [Idle EXCEPT !.pc = "confirm", !.challenge = c])
       \/ /\ rows[c] \in Logins
          /\ Become(r, Spending(c))
    /\ UNCHANGED <<tables, sessions, made, history>>

\* The settings are read, and the provider answers.
Confirm(r) ==
    /\ At(r, "confirm")
    /\ \/ Prepare(r, [settings EXCEPT !.hosted = TRUE], request[r].challenge)
       \/ Become(r, Spending(request[r].challenge))
    /\ UNCHANGED <<tables, sessions, made, history>>

\* The others have read settings that are no longer.
Outdate(r, q) ==
    request' = [p \in Requests |-> IF p = r THEN q
                                   ELSE [request[p] EXCEPT !.fresh = request[p].next = None]]

\* SaveAdminMFASettings writes every column; a confirmation is spent then.
Save(r) ==
    LET c == request[r].challenge IN
    /\ At(r, "save")
    /\ settings' = request[r].next
    /\ Outdate(r, IF c = 0 THEN Idle ELSE Spending(c))
    /\ UNCHANGED <<keys, rows, sessions, made, history>>

\* beginAdminWebAuthnRegistration.
BeginKey(r) ==
    /\ At(r, "idle") /\ live # {}
    /\ Become(r, [Idle EXCEPT !.pc = "open", !.row = "registration"])
    /\ UNCHANGED <<tables, sessions, made, history>>

\* Variant: hardware keys are switched on before the key is stored.
FinishKeyFirst(r, c) ==
    /\ At(r, "idle") /\ live # {}
    /\ rows[c] = "registration"
    /\ settings' = [settings EXCEPT !.keys = TRUE]
    /\ Outdate(r, [Idle EXCEPT !.pc = "insert", !.challenge = c])
    /\ UNCHANGED <<keys, rows, sessions, made, history>>

\* finishAdminWebAuthnRegistration: the ceremony is loaded, the key accepted,
FinishKey(r, c) ==
    /\ At(r, "idle") /\ live # {}
    /\ rows[c] = "registration"
    /\ Become(r, [Idle EXCEPT !.pc = "insert", !.challenge = c])
    /\ UNCHANGED <<tables, sessions, made, history>>

\* CreateAdminWebAuthnCredential inserts it
InsertKey(r) ==
    /\ At(r, "insert")
    /\ keys < MaxKeys
    /\ keys' = keys + 1
    /\ Goto(r, "flag")
    /\ UNCHANGED <<settings, rows, sessions, made, history>>

\* and switches hardware keys on, ignoring an error;
FlagKeys(r) ==
    LET q == [request[r] EXCEPT !.pc = "unload"] IN
    /\ At(r, "flag")
    /\ \/ settings' = [settings EXCEPT !.keys = TRUE] /\ Outdate(r, q)
       \/ UNCHANGED settings /\ Become(r, q)
    /\ UNCHANGED <<keys, rows, sessions, made, history>>

\* the ceremony is deleted,
Unload(r) ==
    /\ At(r, "unload")
    /\ DeleteRow(request[r].challenge)
    /\ Goto(r, "reread")
    /\ UNCHANGED <<settings, keys, sessions, made, proved, used>>

\* the settings read again and written with the switch set.
Reread(r) ==
    /\ At(r, "reread")
    /\ Prepare(r, [settings EXCEPT !.keys = TRUE], 0)
    /\ UNCHANGED <<tables, sessions, made, history>>

-----------------------------------------------------------------------------
(* What may happen at any time.                                            *)

\* A statement or the provider fails, or the client goes away: the request
\* ends where it is.  A challenge that was to be deleted stays.
Fail(r) ==
    /\ ~At(r, "idle")
    /\ Finish(r)
    /\ kept' = IF At(r, "spend") THEN kept \cup {request[r].challenge} ELSE kept
    /\ UNCHANGED <<tables, sessions, made, proved, used>>

\* webadmin restarts: sessions and requests are gone, the tables stay.
Restart ==
    /\ live' = {} /\ trusted' = {}
    /\ request' = [r \in Requests |-> Idle]
    /\ kept' = kept \cup {request[r].challenge : r \in {r \in Requests : At(r, "spend")}}
    /\ UNCHANGED <<tables, made, proved, used>>

-----------------------------------------------------------------------------

Step(r) ==
    \/ Login(r) \/ BeginStepUp(r) \/ Open(r) \/ Check(r) \/ AssertKey(r) \/ Drop(r)
    \/ Create(r) \/ Mark(r) \/ Spend(r)
    \/ EnrollTotp(r) \/ VerifyTotp(r) \/ VerifyHosted(r) \/ Confirm(r) \/ Save(r)
    \/ BeginKey(r) \/ InsertKey(r) \/ FlagKeys(r) \/ Unload(r) \/ Reread(r)
    \/ Fail(r)
    \/ \E c \in Challenges : ConfirmHosted(r, c) \/ FinishKey(r, c)
    \/ \E c \in Challenges, s \in Sessions \cup {0} : Answer(r, c, s)
    \/ \E on, hosted \in BOOLEAN : EditProvider(r, on, hosted)

Next == \/ \E r \in Requests : Step(r)
        \/ \E c \in Challenges : Expire(c)
        \/ \E s \in Sessions : Lapse(s) \/ EndSession(s)
        \/ Restart

Spec == Init /\ [][Next]_vars

-----------------------------------------------------------------------------
(* Properties                                                              *)

PCs == {"idle", "open", "check", "assert", "drop", "create", "mark", "spend",
        "save", "confirm", "insert", "flag", "unload", "reread"}

Places == [pc : PCs, session : Sessions \cup {0}, challenge : Challenges \cup {0},
           row : Rows \cup {None}, next : Settings \cup {None}, fresh : BOOLEAN]

\* Tables and requests are well formed, only sessions in the map are marked,
\* and a request about to write has settings to write.
TypeOK ==
    /\ settings \in Settings /\ keys \in 0..MaxKeys
    /\ rows \in [Challenges -> Rows \cup {None}]
    /\ live \subseteq 1..made.sessions /\ trusted \subseteq live
    /\ request \in [Requests -> Places]
    /\ \A r \in Requests : At(r, "save") <=> request[r].next # None
    /\ made \in [sessions : 0..MaxSessions, secrets : 0..MaxSecrets]
    /\ proved \subseteq Secrets
    /\ used \in [Challenges -> Nat] /\ kept \subseteq Challenges

\* The settings never demand a factor that the administrator cannot present:
\* an authenticator whose codes were never seen, or a key that is not there.
SignInPossible ==
    /\ settings.totp # 0 => settings.totp \in proved
    /\ settings.keys => keys # 0

\* Handlers of different factors leave each other's alone: a write takes a
\* factor out of the settings only if they were written since it read them.
FactorsKept ==
    [][(settings.totp # 0 /\ settings'.totp = 0) \/ (settings.keys /\ ~settings'.keys)
          => \E r \in Requests : At(r, "save") /\ ~request[r].fresh]_vars

\* A challenge opens a session or marks one at most once for each request that
\* had read it before it was spent; an error of the deletion aside.
AnswersBounded == \A c \in Challenges \ kept : used[c] <= Cardinality(Requests)

\* Sessions come and go as promised: a mark needs a session, and what is in
\* progress on a session that has ended does not bring it back.
Manager == INSTANCE Trust WITH signed <- live, gone <- (1..made.sessions) \ live
ImplementsTrust == Manager!Spec

=============================================================================
