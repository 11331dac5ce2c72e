--------------------------- MODULE ProtocolAccess ---------------------------
(***************************************************************************)
(* Sign-in of mail and calendar programs: by the password of the account,  *)
(* or by an app password that the user made for the program in webmail.    *)
(*                                                                         *)
(*   internal/webmail/sql_store.go, handlers.go     app passwords          *)
(*   internal/groupware/handlers.go, sql_store.go   Basic authentication   *)
(*   internal/render/templates.go                   Dovecot's query        *)
(*   internal/admin/handlers.go                     Dovecot's auth policy  *)
(*                                                                         *)
(* Groupware decides in Go by two queries; Dovecot by one of its own, and  *)
(* asks the admin server before and after it whether the sign-in may go    *)
(* on.  One account is modelled, at one client address; the keys of an     *)
(* attempt are by protocol, and the mail protocols have one more together. *)
(***************************************************************************)
EXTENDS Naturals, FiniteSets

CONSTANTS
    Clients,        \* attempts at once
    MailProtocols,  \* protocols that Dovecot serves
    Other,          \* any other word in a request's list of protocols
    Passwords,      \* passwords of the account
    Secrets,        \* random secrets of app passwords
    FailureLimit,   \* failures that lock a key
    MaxAttempts,    \* bound: attempts
    MaxAccountChanges  \* bound: changes of the account and its app passwords

Protocols == MailProtocols \cup {"dav"}

ASSUME ProtocolAccessAssumptions ==
    /\ Passwords \intersect Secrets = {}
    /\ Other \notin Protocols /\ "dovecot" \notin Protocols
    /\ {FailureLimit, MaxAttempts, MaxAccountChanges} \subseteq Nat

VARIABLES
    account,   \* the row of the account, its second factor, and the setting
    apps,      \* user_app_passwords
    tally,     \* key -> failures
    attempt,   \* client -> its attempt
    attempts, accountChanges

protocolVars == <<account, apps, tally, attempt, attempts, accountChanges>>

AccountRow == [password : Passwords, forced : BOOLEAN, totp : BOOLEAN, active : BOOLEAN]
AppRow == [secret : Secrets, protocols : SUBSET Protocols, status : {"active", "revoked"}]
LimiterKeys == Protocols \cup {"dovecot"}

NoAttempt == [pc |-> "idle", protocol |-> "none", offered |-> "none",
              proper |-> FALSE]

-----------------------------------------------------------------------------
(* App passwords.                                                          *)

\* A list with nothing known in it stands for every protocol.
NormalizeProtocols(list) ==
    IF list \intersect Protocols = {} THEN Protocols ELSE list \intersect Protocols

\* What the settings page lists.
ListAppPasswords(rowsOfApps) ==
    {[a EXCEPT !.protocols = NormalizeProtocols(@)] : a \in rowsOfApps}

\* What an account's owner and the administrator mean: the password of the
\* account while no second factor is asked for, and any app password that is
\* listed as active; with DAV, those that are listed for it.
MayOpen(row, rowsOfApps, offered, protocol) ==
    row.active
    /\ \/ offered = row.password /\ ~row.forced /\ ~row.totp
       \/ \E a \in ListAppPasswords(rowsOfApps) :
            /\ a.secret = offered /\ a.status = "active"
            /\ protocol = "dav" => "dav" \in a.protocols

\* Attempts under way note that they may open now.
Observe == attempt' = [c \in Clients |->
              [attempt[c] EXCEPT !.proper =
                 @ \/ (attempt[c].pc # "idle"
                       /\ MayOpen(account', apps', attempt[c].offered, attempt[c].protocol))]]

ChangeOfAccount ==
    accountChanges < MaxAccountChanges /\ accountChanges' = accountChanges + 1

NewAppPasswordSecret == Secrets \ {a.secret : a \in apps}

InsertAppPassword(list) ==
    \E s \in NewAppPasswordSecret :
      apps' = apps \cup {[secret |-> s, protocols |-> NormalizeProtocols(list),
                          status |-> "active"]}

CreateAppPassword(list) ==
    /\ ChangeOfAccount
    /\ InsertAppPassword(list)
    /\ UNCHANGED <<account, tally, attempts>>
    /\ Observe

\* Nothing affected is an error.
UpdateAppPassword(a) ==
    /\ a.status = "active"
    /\ apps' = (apps \ {a}) \cup {[a EXCEPT !.status = "revoked"]}

RevokeAppPassword(a) ==
    /\ ChangeOfAccount
    /\ UpdateAppPassword(a)
    /\ UNCHANGED <<account, tally, attempts>>
    /\ Observe

\* Others write the row.
SetAccount(row) ==
    /\ ChangeOfAccount
    /\ account' = row
    /\ UNCHANGED <<apps, tally, attempts>>
    /\ Observe

ChangeAccountPassword == \E p \in Passwords : SetAccount([account EXCEPT !.password = p])
ForceMailboxMFA == \E b \in BOOLEAN : SetAccount([account EXCEPT !.forced = b])
EnableTOTP == SetAccount([account EXCEPT !.totp = TRUE])
ResetMFA == SetAccount([account EXCEPT !.totp = FALSE])
SetAccountStatus == \E b \in BOOLEAN : SetAccount([account EXCEPT !.active = b])

-----------------------------------------------------------------------------
(* The limiter, of which an attempt checks, clears or counts its keys.     *)

DavLoginKeys == {"dav"}
DovecotAuthPolicyKeys(protocol) == {protocol, "dovecot"}

LoginKeys(protocol) == IF protocol = "dav" THEN DavLoginKeys
                       ELSE DovecotAuthPolicyKeys(protocol)

AnyLocked(keys) == \E k \in keys : tally[k] >= FailureLimit

\* The outcome is counted, as far as it is one.
CountOutcome(keys, outcome) ==
    tally' = [k \in LimiterKeys |->
                IF k \notin keys \/ outcome = "policy" THEN tally[k]
                ELSE IF outcome = "success" THEN 0
                ELSE IF tally[k] < FailureLimit THEN tally[k] + 1 ELSE tally[k]]

\* A lock runs out.
LockRunsOut(k) ==
    /\ tally[k] >= FailureLimit
    /\ tally' = [tally EXCEPT ![k] = 0]
    /\ UNCHANGED <<account, apps, attempt, attempts, accountChanges>>

Go(c, pc) == attempt' = [attempt EXCEPT ![c].pc = pc]

\* An attempt that is refused at once changes nothing and is no step.
BeginSignIn(c, protocol, offered) ==
    /\ attempt[c].pc \in {"idle", "opened", "refused"}
    /\ attempts < MaxAttempts /\ attempts' = attempts + 1
    /\ ~AnyLocked(LoginKeys(protocol))
    /\ attempt' = [attempt EXCEPT ![c] =
         [pc |-> IF protocol = "dav" THEN "row" ELSE "query",
          protocol |-> protocol, offered |-> offered,
          proper |-> MayOpen(account, apps, offered, protocol)]]
    /\ UNCHANGED <<account, apps, tally, accountChanges>>

-----------------------------------------------------------------------------
(* Groupware.                                                              *)

\* Variant: an app password is looked up by its fingerprint alone.
AppOfAnyStatus(offered) == {a \in apps : a.secret = offered}

AppPasswordOf(offered) == {a \in apps : a.secret = offered /\ a.status = "active"}

EndSignIn(c, opened, outcome) ==
    /\ Go(c, IF opened THEN "opened" ELSE "refused")
    /\ CountOutcome(LoginKeys(attempt[c].protocol), outcome)
    /\ UNCHANGED <<account, apps, attempts, accountChanges>>

\* One query has the account, its hash, its second factor and the setting.
ReadAccountRow(c) ==
    /\ attempt[c].pc = "row"
    /\ IF ~account.active
       THEN EndSignIn(c, FALSE, "credentials")
       ELSE IF ~account.forced /\ ~account.totp /\ attempt[c].offered = account.password
       THEN EndSignIn(c, TRUE, "success")
       ELSE Go(c, "app") /\ UNCHANGED <<account, apps, tally, attempts, accountChanges>>

ReadAppPassword(c) ==
    /\ attempt[c].pc = "app"
    /\ LET valid == \E a \in AppPasswordOf(attempt[c].offered) : "dav" \in a.protocols
       IN  EndSignIn(c, valid, IF valid THEN "success" ELSE "credentials")

-----------------------------------------------------------------------------
(* Dovecot.                                                                *)

\* The first row that its query finds: an app password comes first and opens
\* without a further check; the row of the account is there only if no
\* second factor is asked for.  The protocols of an app password are not
\* looked at.
DovecotAccepts(offered) ==
    account.active
    /\ \/ \E a \in AppPasswordOf(offered) : TRUE
       \/ ~account.forced /\ ~account.totp /\ offered = account.password

QueryPassdb(c) ==
    /\ attempt[c].pc = "query"
    /\ Go(c, IF DovecotAccepts(attempt[c].offered) THEN "allow" ELSE "report")
    /\ UNCHANGED <<account, apps, tally, attempts, accountChanges>>

\* The policy is asked again when the password was right; what it refuses is
\* reported as its own failure.
AllowAfterAuth(c) ==
    /\ attempt[c].pc = "allow"
    /\ IF AnyLocked(LoginKeys(attempt[c].protocol))
       THEN EndSignIn(c, FALSE, "policy")
       ELSE EndSignIn(c, TRUE, "success")

ReportFailure(c) ==
    /\ attempt[c].pc = "report"
    /\ EndSignIn(c, FALSE, "credentials")

-----------------------------------------------------------------------------

ProtocolInit ==
    /\ account \in {[password |-> p, forced |-> FALSE, totp |-> FALSE, active |-> TRUE]
                      : p \in Passwords}
    /\ apps = {}
    /\ tally = [k \in LimiterKeys |-> 0]
    /\ attempt = [c \in Clients |-> NoAttempt]
    /\ attempts = 0 /\ accountChanges = 0

ProtocolNext ==
    \/ \E list \in SUBSET (Protocols \cup {Other}) : CreateAppPassword(list)
    \/ \E a \in apps : RevokeAppPassword(a)
    \/ ChangeAccountPassword \/ ForceMailboxMFA \/ EnableTOTP \/ ResetMFA \/ SetAccountStatus
    \/ \E k \in LimiterKeys : LockRunsOut(k)
    \/ \E c \in Clients :
         \/ \E protocol \in Protocols, offered \in Passwords \cup {a.secret : a \in apps} :
              BeginSignIn(c, protocol, offered)
         \/ ReadAccountRow(c) \/ ReadAppPassword(c)
         \/ QueryPassdb(c) \/ AllowAfterAuth(c) \/ ReportFailure(c)

ProtocolSpec == ProtocolInit /\ [][ProtocolNext]_protocolVars

-----------------------------------------------------------------------------

ProtocolTypeOK ==
    /\ account \in AccountRow
    /\ apps \subseteq AppRow
    /\ tally \in [LimiterKeys -> 0..FailureLimit]
    /\ \A c \in Clients : attempt[c].proper \in BOOLEAN
    /\ attempts \in 0..MaxAttempts /\ accountChanges \in 0..MaxAccountChanges

\* A program is let in only if there was a moment of its attempt at which the
\* settings page and the policy allowed what it offered, though groupware
\* reads the account and the app password one after the other and all of it
\* may change in between: never by an app password that was revoked before
\* the attempt began, by the password of the account while a second factor
\* is asked for, or with DAV by an app password made for mail only.
OpensByPolicy ==
    \A c \in Clients : attempt[c].pc = "opened" => attempt[c].proper

=============================================================================
