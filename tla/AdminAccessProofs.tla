-------------------------- MODULE AdminAccessProofs --------------------------
(***************************************************************************)
(* Proofs about AdminAccess, for every set of requests and whatever the    *)
(* bounds: type correctness, SignInPossible, FactorsKept, AnswersBounded   *)
(* and the refinement of Trust.                                            *)
(***************************************************************************)
EXTENDS AdminAccess, FiniteSetTheorems, TLAPS

-----------------------------------------------------------------------------
(* The inductive invariant.                                                *)

\* Settings s demand no factor that is not there, with k keys stored and p the
\* secrets of which a code was accepted.
Sound(s, k, p) == /\ s.totp # 0 => s.totp \in p
                  /\ s.keys => k # 0

\* Settings n have every factor that s have.
Keeps(s, n) == /\ s.totp # 0 => n.totp # 0
               /\ s.keys => n.keys

\* The places of a request that works with a challenge.
WithChallenge == {"check", "assert", "drop", "spend", "confirm", "insert",
                  "flag", "unload"}

\* A request in place q fits the tables: a registration has stored its key,
\* and settings that are about to be written are sound and, if still fresh,
\* keep what is there.
Fits(q, s, k, p) ==
    /\ q \in Places
    /\ q.pc = "save" <=> q.next # None
    /\ q.pc \in WithChallenge => q.challenge # 0
    /\ q.pc = "open" => q.row # None
    /\ q.pc \in {"flag", "unload", "reread"} => k # 0
    /\ q.next # None => /\ Sound(q.next, k, p)
                        /\ q.fresh => Keeps(s, q.next)

RequestsFit ==
    /\ request \in [Requests -> Places]
    /\ \A r \in Requests : Fits(request[r], settings, keys, proved)

TablesOK == /\ settings \in Settings /\ keys \in 0..MaxKeys
            /\ rows \in [Challenges -> Rows \cup {None}]
            /\ Sound(settings, keys, proved)
SessionsOK == /\ live \subseteq 1..made.sessions /\ trusted \subseteq live
              /\ made \in [sessions : 0..MaxSessions, secrets : 0..MaxSecrets]
HistoryOK == /\ proved \subseteq Secrets
             /\ used \in [Challenges -> Nat] /\ kept \subseteq Challenges

IInv == TablesOK /\ SessionsOK /\ HistoryOK /\ RequestsFit

-----------------------------------------------------------------------------
(* Requests: what keeps them fitting.                                      *)

\* A step that moves one request to a fitting place, and leaves the settings
\* alone, keeps the requests fitting.
LEMMA BecomeFits ==
  ASSUME RequestsFit, NEW r \in Requests, NEW q, Become(r, q),
         Fits(q, settings', keys', proved'),
         settings' = settings, keys # 0 => keys' # 0, proved \subseteq proved'
  PROVE  RequestsFit'
<1>1. /\ request' \in [Requests -> Places]
      /\ request'[r] = q
      /\ \A p \in Requests \ {r} : request'[p] = request[p]
  BY DEF RequestsFit, Become, Fits
<1>2. ASSUME NEW p \in Requests
      PROVE  Fits(request'[p], settings', keys', proved')
  BY <1>1, <1>2 DEF RequestsFit, Fits, Sound
<1> QED BY <1>1, <1>2 DEF RequestsFit

\* So does a step that writes the settings and outdates the other requests.
LEMMA OutdateFits ==
  ASSUME RequestsFit, NEW r \in Requests, NEW q, Outdate(r, q),
         Fits(q, settings', keys', proved'),
         keys' = keys, proved' = proved
  PROVE  RequestsFit'
<1>1. ASSUME NEW p \in Requests, p # r
      PROVE  Fits(request'[p], settings', keys', proved')
  <2> DEFINE old == request[p]
             new == [old EXCEPT !.fresh = old.next = None]
  <2>1. old \in Places /\ Fits(old, settings, keys, proved)
    BY DEF RequestsFit
  <2>2. new \in Places
    BY <2>1 DEF Places
  <2>3. /\ new.pc = old.pc /\ new.challenge = old.challenge
        /\ new.row = old.row /\ new.next = old.next
        /\ new.fresh = (old.next = None)
    BY <2>1 DEF Places
  <2>4. Fits(new, settings', keys', proved')
    BY <2>1, <2>2, <2>3 DEF Fits
  <2>5. request'[p] = new
    BY <1>1 DEF Outdate
  <2> QED BY <2>4, <2>5
<1>2. request'[r] = q
  BY DEF Outdate
<1>3. \A p \in Requests : Fits(request'[p], settings', keys', proved')
  BY <1>1, <1>2
<1>4. request' \in [Requests -> Places]
  BY <1>3 DEF Fits, Outdate
<1> QED BY <1>3, <1>4 DEF RequestsFit

\* A step that leaves requests and settings alone keeps them fitting.
LEMMA StillFit ==
  ASSUME RequestsFit, UNCHANGED <<request, settings, keys, proved>>
  PROVE  RequestsFit'
BY DEF RequestsFit

\* An idle request fits everything.
LEMMA IdleFits ==
  ASSUME NEW s, NEW k, NEW p
  PROVE  Fits(Idle, s, k, p)
BY DEF Fits, Idle, Places, PCs, WithChallenge, Sessions, Challenges

\* What is known of a request.
LEMMA RequestFacts ==
  ASSUME RequestsFit, NEW r \in Requests
  PROVE  request[r] \in Places /\ Fits(request[r], settings, keys, proved)
BY DEF RequestsFit

\* Going on to a later step of the same handler.
LEMMA GotoFits ==
  ASSUME RequestsFit, NEW r \in Requests, NEW s, NEW k, NEW p,
         NEW label \in PCs \ {"save", "open"},
         ~At(r, "save"),
         label \in WithChallenge => request[r].challenge # 0,
         label \in {"flag", "unload", "reread"} => k # 0
  PROVE  Fits([request[r] EXCEPT !.pc = label], s, k, p)
<1> DEFINE q == [request[r] EXCEPT !.pc = label]
<1>1. request[r] \in Places /\ request[r].next = None
  BY DEF RequestsFit, Fits, At
<1>2. q \in Places
  BY <1>1 DEF Places
<1>3. q.pc = label /\ q.next = None /\ q.challenge = request[r].challenge
  BY <1>1 DEF Places
<1> QED BY <1>2, <1>3 DEF Fits

\* Being about to write settings that are sound and keep what is there.
LEMMA SaveFits ==
  ASSUME NEW s, NEW k, NEW p, NEW n \in Settings, NEW c \in Challenges \cup {0},
         Sound(n, k, p), Keeps(s, n)
  PROVE  Fits([Idle EXCEPT !.pc = "save", !.next = n, !.challenge = c], s, k, p)
BY AdminAssumptions DEF Fits, Idle, Places, PCs, WithChallenge, Sessions

\* A request that has just come in: one that is to make a challenge,
LEMMA OpeningFits ==
  ASSUME NEW s, NEW k, NEW p, NEW row \in Rows
  PROVE  Fits([Idle EXCEPT !.pc = "open", !.row = row], s, k, p)
BY AdminAssumptions DEF Fits, Idle, Places, PCs, WithChallenge, Sessions,
                        Challenges

\* one that has brought the answer to one,
LEMMA AnsweringFits ==
  ASSUME NEW s, NEW k, NEW p, NEW label \in {"check", "assert"},
         NEW x \in Sessions \cup {0}, NEW c \in Challenges, NEW row \in Rows
  PROVE  Fits([Idle EXCEPT !.pc = label, !.session = x, !.challenge = c,
                      !.row = row], s, k, p)
<1> DEFINE q == [Idle EXCEPT !.pc = label, !.session = x, !.challenge = c,
                   !.row = row]
<1>1. q \in Places
  BY DEF Idle, Places, PCs
<1>2. q.pc = label /\ q.challenge = c /\ q.next = None
  BY DEF Idle
<1>3. c # 0
  BY DEF Challenges
<1> QED BY <1>1, <1>2, <1>3 DEF Fits

\* one that works with one in another way.
LEMMA WorkingFits ==
  ASSUME NEW s, NEW k, NEW p, NEW label \in {"confirm", "spend", "insert"},
         NEW c \in Challenges
  PROVE  Fits([Idle EXCEPT !.pc = label, !.challenge = c], s, k, p)
<1> DEFINE q == [Idle EXCEPT !.pc = label, !.challenge = c]
<1>1. q \in Places
  BY DEF Idle, Places, PCs
<1>2. q.pc = label /\ q.challenge = c /\ q.next = None
  BY DEF Idle
<1>3. c # 0
  BY DEF Challenges
<1> QED BY <1>1, <1>2, <1>3 DEF Fits

\* So does one that is about to delete a challenge.
LEMMA SpendingFits ==
  ASSUME NEW s, NEW k, NEW p, NEW c \in Challenges
  PROVE  Fits(Spending(c), s, k, p)
BY WorkingFits DEF Spending

\* A step that moves a request to a fitting place and leaves the rest alone.
LEMMA MoveKeeps ==
  ASSUME IInv, NEW r \in Requests, NEW q, Become(r, q),
         Fits(q, settings, keys, proved),
         UNCHANGED <<tables, sessions, made, history>>
  PROVE  IInv'
<1>1. RequestsFit'
  BY BecomeFits DEF IInv, tables, history
<1> QED BY <1>1 DEF IInv, TablesOK, SessionsOK, HistoryOK, tables, sessions, history

-----------------------------------------------------------------------------
(* Challenges, sign-in and step-up.                                        *)

\* A challenge of the provider.
LEMMA ChallengeFits ==
  ASSUME IInv, NEW r \in Requests, Challenge(r),
         UNCHANGED <<tables, sessions, made, history>>
  PROVE  IInv'
<1>1. Provider \in Rows
  BY DEF Challenge, Provider, Rows, Logins
<1> QED BY <1>1, OpeningFits, MoveKeeps DEF Challenge

LEMMA KeepsLogin ==
  ASSUME IInv, NEW r \in Requests, Login(r)
  PROVE  IInv'
<1>1. CASE Challenge(r)
  BY <1>1, ChallengeFits DEF Login
<1>2. CASE Become(r, [Idle EXCEPT !.pc = "create"])
  <2>1. Fits([Idle EXCEPT !.pc = "create"], settings, keys, proved)
    BY DEF Fits, Idle, Places, PCs, WithChallenge, Challenges, Sessions
  <2> QED BY <1>2, <2>1, MoveKeeps DEF Login
<1> QED BY <1>1, <1>2 DEF Login

LEMMA KeepsBeginStepUp ==
  ASSUME IInv, NEW r \in Requests, BeginStepUp(r)
  PROVE  IInv'
BY ChallengeFits DEF BeginStepUp

\* A step that ends a request, and changes neither settings nor keys.
LEMMA FinishFits ==
  ASSUME RequestsFit, NEW r \in Requests, Finish(r),
         UNCHANGED <<settings, keys, proved>>
  PROVE  RequestsFit'
BY IdleFits, BecomeFits DEF Finish

LEMMA KeepsOpen ==
  ASSUME IInv, NEW r \in Requests, Open(r)
  PROVE  IInv'
<1>1. PICK c \in Challenges :
        /\ At(r, "open")
        /\ rows' = [rows EXCEPT ![c] = request[r].row]
        /\ used' = [used EXCEPT ![c] = 0]
        /\ kept' = kept \ {c}
        /\ Finish(r)
        /\ UNCHANGED <<settings, keys, sessions, made, proved>>
  BY DEF Open
<1>2. RequestsFit'
  BY <1>1, FinishFits DEF IInv
<1>3. request[r].row \in Rows \cup {None}
  BY RequestFacts DEF IInv, Places
<1>4. TablesOK'
  BY <1>1, <1>3 DEF IInv, TablesOK
<1>5. HistoryOK'
  BY <1>1 DEF IInv, HistoryOK
<1>6. SessionsOK'
  BY <1>1 DEF IInv, SessionsOK, sessions
<1> QED BY <1>2, <1>4, <1>5, <1>6 DEF IInv

LEMMA KeepsExpire ==
  ASSUME IInv, NEW c \in Challenges, Expire(c)
  PROVE  IInv'
<1>1. RequestsFit'
  BY StillFit DEF IInv, Expire, history
<1>2. TablesOK'
  BY DEF IInv, Expire, TablesOK, history
<1>3. SessionsOK' /\ HistoryOK'
  BY DEF IInv, Expire, SessionsOK, HistoryOK, sessions, history
<1> QED BY <1>1, <1>2, <1>3 DEF IInv

LEMMA KeepsAnswer ==
  ASSUME IInv, NEW r \in Requests, NEW c \in Challenges,
         NEW x \in Sessions \cup {0}, Answer(r, c, x)
  PROVE  IInv'
<1>1. rows[c] \in Rows
  BY DEF IInv, TablesOK, Answer
<1>2. PICK label \in {"check", "assert"} :
        Become(r, [Idle EXCEPT !.pc = label, !.session = x, !.challenge = c,
                      !.row = rows[c]])
  BY DEF Answer
<1>3. Fits([Idle EXCEPT !.pc = label, !.session = x, !.challenge = c, !.row = rows[c]],
           settings, keys, proved)
  BY <1>1, AnsweringFits
<1> QED BY <1>2, <1>3, MoveKeeps DEF Answer

\* Going on, with nothing else changed.
LEMMA GotoKeeps ==
  ASSUME IInv, NEW r \in Requests, NEW label \in PCs \ {"save", "open"},
         Goto(r, label), ~At(r, "save"),
         label \in WithChallenge => request[r].challenge # 0,
         label \in {"flag", "unload", "reread"} => keys # 0,
         UNCHANGED <<tables, sessions, made, history>>
  PROVE  IInv'
<1>1. Fits([request[r] EXCEPT !.pc = label], settings, keys, proved)
  BY GotoFits DEF IInv
<1> QED BY <1>1, MoveKeeps DEF Goto

\* A request that works with a challenge has one.
LEMMA HasChallenge ==
  ASSUME IInv, NEW r \in Requests, request[r].pc \in WithChallenge
  PROVE  request[r].challenge \in Challenges
BY RequestFacts DEF IInv, Fits, Places

LEMMA KeepsCheck ==
  ASSUME IInv, NEW r \in Requests, Check(r)
  PROVE  IInv'
<1>1. request[r].challenge \in Challenges /\ ~At(r, "save")
  BY HasChallenge DEF Check, At, WithChallenge
<1>2. ASSUME NEW label \in {"create", "mark"}, Goto(r, label)
      PROVE  IInv'
  BY <1>1, <1>2, GotoKeeps DEF Check, PCs, WithChallenge
<1>3. CASE Become(r, Spending(request[r].challenge))
  BY <1>1, <1>3, SpendingFits, MoveKeeps DEF Check
<1> QED BY <1>2, <1>3 DEF Check, Granted

LEMMA KeepsAssertKey ==
  ASSUME IInv, NEW r \in Requests, AssertKey(r)
  PROVE  IInv'
<1>1. request[r].challenge # 0 /\ ~At(r, "save")
  BY RequestFacts DEF IInv, Fits, AssertKey, At, WithChallenge
<1> QED BY <1>1, GotoKeeps DEF AssertKey, PCs, WithChallenge

\* Deleting a row, or failing to, keeps the tables.
LEMMA DeleteKeeps ==
  ASSUME TablesOK, HistoryOK, NEW c \in Challenges, DeleteRow(c),
         UNCHANGED <<settings, keys, proved, used>>
  PROVE  TablesOK' /\ HistoryOK'
<1>1. rows' \in [Challenges -> Rows \cup {None}]
  BY DEF DeleteRow, TablesOK
<1>2. kept' \subseteq Challenges
  BY DEF DeleteRow, HistoryOK
<1> QED BY <1>1, <1>2 DEF TablesOK, HistoryOK

LEMMA KeepsDrop ==
  ASSUME IInv, NEW r \in Requests, Drop(r)
  PROVE  IInv'
<1>1. request[r].challenge \in Challenges
  BY HasChallenge DEF Drop, At, WithChallenge
<1>2. TablesOK' /\ HistoryOK'
  BY <1>1, DeleteKeeps DEF IInv, Drop
<1>3. SessionsOK'
  BY DEF IInv, SessionsOK, Drop, sessions
<1>4. PICK label \in {"create", "mark"} : Goto(r, label)
  BY DEF Drop, Granted
<1>5. Fits([request[r] EXCEPT !.pc = label], settings, keys, proved)
  BY GotoFits DEF IInv, Drop, At, PCs, WithChallenge
<1>6. RequestsFit'
  BY <1>4, <1>5, BecomeFits DEF IInv, Drop, Goto
<1> QED BY <1>2, <1>3, <1>6 DEF IInv

\* The end of a sign-in or step-up: what it does to requests and history.
LEMMA UsedKeeps ==
  ASSUME IInv, NEW r \in Requests, Used(r),
         UNCHANGED <<settings, keys, proved, kept>>
  PROVE  RequestsFit' /\ HistoryOK'
<1>1. HistoryOK'
  BY DEF IInv, HistoryOK, Used
<1>2. CASE Finish(r)
  BY <1>1, <1>2, FinishFits DEF IInv
<1>3. CASE Become(r, Spending(request[r].challenge)) /\ request[r].challenge # 0
  <2>1. request[r].challenge \in Challenges
    BY <1>3, RequestFacts DEF IInv, Places
  <2> QED BY <1>1, <1>3, <2>1, SpendingFits, BecomeFits DEF IInv
<1> QED BY <1>2, <1>3 DEF Used

LEMMA KeepsCreate ==
  ASSUME IInv, NEW r \in Requests, Create(r)
  PROVE  IInv'
<1>1. RequestsFit' /\ HistoryOK'
  BY UsedKeeps DEF Create, At, tables
<1>2. TablesOK'
  BY DEF IInv, TablesOK, Create, tables
<1>3. SessionsOK'
  BY DEF IInv, SessionsOK, Create, Sessions
<1> QED BY <1>1, <1>2, <1>3 DEF IInv

LEMMA KeepsMark ==
  ASSUME IInv, NEW r \in Requests, Mark(r)
  PROVE  IInv'
<1>1. RequestsFit' /\ HistoryOK'
  <2>1. CASE Used(r)
    BY <2>1, UsedKeeps DEF Mark, At, tables
  <2>2. CASE Finish(r) /\ UNCHANGED used
    BY <2>2, FinishFits DEF IInv, HistoryOK, Mark, tables
  <2> QED BY <2>1, <2>2 DEF Mark
<1>2. TablesOK'
  BY DEF IInv, TablesOK, Mark, tables
<1>3. SessionsOK'
  BY DEF IInv, SessionsOK, Mark
<1> QED BY <1>1, <1>2, <1>3 DEF IInv

LEMMA KeepsSpend ==
  ASSUME IInv, NEW r \in Requests, Spend(r)
  PROVE  IInv'
<1>1. request[r].challenge \in Challenges
  BY HasChallenge DEF Spend, At, WithChallenge
<1>2. TablesOK' /\ HistoryOK'
  BY <1>1, DeleteKeeps DEF IInv, Spend
<1>3. SessionsOK'
  BY DEF IInv, SessionsOK, Spend, sessions
<1>4. RequestsFit'
  BY FinishFits DEF IInv, Spend
<1> QED BY <1>2, <1>3, <1>4 DEF IInv

\* A step of the session map alone.
LEMMA SessionStepKeeps ==
  ASSUME IInv, live' \subseteq live, trusted' \subseteq live',
         UNCHANGED <<tables, request, made, history>>
  PROVE  IInv'
<1>1. RequestsFit'
  BY StillFit DEF IInv, tables, history
<1> QED BY <1>1 DEF IInv, TablesOK, SessionsOK, HistoryOK, tables, history

LEMMA KeepsLapse ==
  ASSUME IInv, NEW x \in Sessions, Lapse(x)
  PROVE  IInv'
BY SessionStepKeeps DEF IInv, SessionsOK, Lapse

LEMMA KeepsEndSession ==
  ASSUME IInv, NEW x \in Sessions, EndSession(x)
  PROVE  IInv'
BY SessionStepKeeps DEF IInv, SessionsOK, EndSession

-----------------------------------------------------------------------------
(* Setting the factors up.                                                 *)

\* A handler that has read the settings and will write sound ones that keep
\* the factors there are.
LEMMA PrepareKeeps ==
  ASSUME IInv, NEW r \in Requests, NEW n \in Settings,
         NEW c \in Challenges \cup {0},
         Prepare(r, n, c), Sound(n, keys, proved'), Keeps(settings, n),
         proved \subseteq proved',
         UNCHANGED <<tables, sessions>>,
         SessionsOK', HistoryOK'
  PROVE  IInv'
<1>1. Fits([Idle EXCEPT !.pc = "save", !.next = n, !.challenge = c],
           settings', keys', proved')
  BY SaveFits DEF tables
<1>2. RequestsFit'
  BY <1>1, BecomeFits DEF IInv, Prepare, tables
<1>3. TablesOK'
  BY DEF IInv, TablesOK, Sound, tables
<1> QED BY <1>2, <1>3 DEF IInv

LEMMA KeepsEditProvider ==
  ASSUME IInv, NEW r \in Requests, NEW on \in BOOLEAN, NEW hosted \in BOOLEAN,
         EditProvider(r, on, hosted)
  PROVE  IInv'
<1> DEFINE n == [settings EXCEPT !.enabled = on, !.hosted = hosted]
<1>1. n \in Settings
  BY DEF IInv, TablesOK, Settings
<1>2. n.totp = settings.totp /\ n.keys = settings.keys
  BY DEF IInv, TablesOK, Settings
<1>3. Sound(n, keys, proved') /\ Keeps(settings, n)
  BY <1>2 DEF IInv, TablesOK, Sound, Keeps, EditProvider, history
<1>4. SessionsOK' /\ HistoryOK'
  BY DEF IInv, SessionsOK, HistoryOK, EditProvider, sessions, history
<1> QED BY <1>1, <1>3, <1>4, PrepareKeeps DEF EditProvider, history

LEMMA KeepsEnrollTotp ==
  ASSUME IInv, NEW r \in Requests, EnrollTotp(r)
  PROVE  IInv'
<1> DEFINE secret == made.secrets + 1
           n == [settings EXCEPT !.pending = secret]
<1>1. secret \in 0..MaxSecrets
  BY DEF EnrollTotp, Secrets
<1>2. n \in Settings
  BY <1>1 DEF IInv, TablesOK, Settings
<1>3. n.totp = settings.totp /\ n.keys = settings.keys
  BY DEF IInv, TablesOK, Settings
<1>4. Sound(n, keys, proved') /\ Keeps(settings, n)
  BY <1>3 DEF IInv, TablesOK, Sound, Keeps, EnrollTotp, history
<1>5. SessionsOK' /\ HistoryOK'
  BY <1>1 DEF IInv, SessionsOK, HistoryOK, EnrollTotp, sessions, history
<1> QED BY <1>2, <1>4, <1>5, PrepareKeeps DEF EnrollTotp, history

\* The secret that is enabled is the one whose code was accepted.
LEMMA KeepsVerifyTotp ==
  ASSUME IInv, NEW r \in Requests, VerifyTotp(r)
  PROVE  IInv'
<1> DEFINE n == [settings EXCEPT !.totp = settings.pending, !.pending = 0]
<1>1. settings.pending \in Secrets
  BY DEF IInv, TablesOK, Settings, Secrets, VerifyTotp
<1>2. n \in Settings
  <2>1. 0 \in 0..MaxSecrets
    BY AdminAssumptions
  <2> QED BY <2>1 DEF IInv, TablesOK, Settings
<1>3. n.totp = settings.pending /\ n.keys = settings.keys
  BY DEF IInv, TablesOK, Settings
<1>4. Sound(n, keys, proved') /\ Keeps(settings, n)
  BY <1>3 DEF IInv, TablesOK, Sound, Keeps, VerifyTotp
<1>5. SessionsOK' /\ HistoryOK'
  BY <1>1 DEF IInv, SessionsOK, HistoryOK, VerifyTotp, sessions
<1> QED BY <1>2, <1>4, <1>5, PrepareKeeps DEF VerifyTotp

LEMMA KeepsVerifyHosted ==
  ASSUME IInv, NEW r \in Requests, VerifyHosted(r)
  PROVE  IInv'
<1>1. Fits([Idle EXCEPT !.pc = "open", !.row = "enrollment"], settings, keys, proved)
  BY OpeningFits DEF Rows
<1> QED BY <1>1, MoveKeeps DEF VerifyHosted

LEMMA KeepsConfirmHosted ==
  ASSUME IInv, NEW r \in Requests, NEW c \in Challenges, ConfirmHosted(r, c)
  PROVE  IInv'
BY WorkingFits, SpendingFits, MoveKeeps DEF ConfirmHosted

LEMMA KeepsConfirm ==
  ASSUME IInv, NEW r \in Requests, Confirm(r)
  PROVE  IInv'
<1> DEFINE n == [settings EXCEPT !.hosted = TRUE]
<1>1. request[r].challenge \in Challenges
  BY HasChallenge DEF Confirm, At, WithChallenge
<1>2. CASE Prepare(r, n, request[r].challenge)
  <2>1. n \in Settings
    BY DEF IInv, TablesOK, Settings
  <2>2. n.totp = settings.totp /\ n.keys = settings.keys
    BY DEF IInv, TablesOK, Settings
  <2>3. Sound(n, keys, proved') /\ Keeps(settings, n)
    BY <2>2 DEF IInv, TablesOK, Sound, Keeps, Confirm, history
  <2>4. SessionsOK' /\ HistoryOK'
    BY DEF IInv, SessionsOK, HistoryOK, Confirm, sessions, history
  <2> QED BY <1>1, <1>2, <2>1, <2>3, <2>4, PrepareKeeps DEF Confirm, history
<1>3. CASE Become(r, Spending(request[r].challenge))
  BY <1>1, <1>3, SpendingFits, MoveKeeps DEF Confirm
<1> QED BY <1>2, <1>3 DEF Confirm

\* The settings written are sound; nobody else's are fresh from then on.
LEMMA KeepsSave ==
  ASSUME IInv, NEW r \in Requests, Save(r)
  PROVE  IInv'
<1> DEFINE c == request[r].challenge
           q == IF c = 0 THEN Idle ELSE Spending(c)
<1>1. /\ request[r].next \in Settings /\ c \in Challenges \cup {0}
      /\ Sound(request[r].next, keys, proved)
  BY RequestFacts DEF IInv, Fits, Places, Save, At
<1>2. Fits(q, settings', keys', proved')
  BY <1>1, IdleFits, SpendingFits
<1>3. RequestsFit'
  BY <1>2, OutdateFits DEF IInv, Save, history
<1>4. TablesOK'
  BY <1>1 DEF IInv, TablesOK, Save, history
<1>5. SessionsOK' /\ HistoryOK'
  BY DEF IInv, SessionsOK, HistoryOK, Save, sessions, history
<1> QED BY <1>3, <1>4, <1>5 DEF IInv

LEMMA KeepsBeginKey ==
  ASSUME IInv, NEW r \in Requests, BeginKey(r)
  PROVE  IInv'
<1>1. Fits([Idle EXCEPT !.pc = "open", !.row = "registration"], settings, keys, proved)
  BY OpeningFits DEF Rows
<1> QED BY <1>1, MoveKeeps DEF BeginKey

LEMMA KeepsFinishKey ==
  ASSUME IInv, NEW r \in Requests, NEW c \in Challenges, FinishKey(r, c)
  PROVE  IInv'
BY WorkingFits, MoveKeeps DEF FinishKey

\* The key is stored before it is demanded.
LEMMA KeepsInsertKey ==
  ASSUME IInv, NEW r \in Requests, InsertKey(r)
  PROVE  IInv'
<1>1. request[r].challenge # 0 /\ ~At(r, "save")
  BY RequestFacts DEF IInv, Fits, InsertKey, At, WithChallenge
<1>2. keys' \in 0..MaxKeys /\ keys' # 0
  BY AdminAssumptions DEF IInv, TablesOK, InsertKey
<1>3. Fits([request[r] EXCEPT !.pc = "flag"], settings, keys', proved)
  BY <1>1, <1>2, GotoFits DEF IInv, PCs
<1>4. RequestsFit'
  BY <1>2, <1>3, BecomeFits DEF IInv, InsertKey, Goto, history
<1>5. TablesOK'
  BY <1>2 DEF IInv, TablesOK, Sound, InsertKey, history
<1>6. SessionsOK' /\ HistoryOK'
  BY DEF IInv, SessionsOK, HistoryOK, InsertKey, sessions, history
<1> QED BY <1>4, <1>5, <1>6 DEF IInv

LEMMA KeepsFlagKeys ==
  ASSUME IInv, NEW r \in Requests, FlagKeys(r)
  PROVE  IInv'
<1> DEFINE q == [request[r] EXCEPT !.pc = "unload"]
<1>1. /\ request[r].challenge # 0 /\ ~At(r, "save") /\ keys # 0
  BY RequestFacts DEF IInv, Fits, FlagKeys, At, WithChallenge
<1>2. Fits(q, settings', keys', proved')
  BY <1>1, GotoFits DEF IInv, PCs, FlagKeys
<1>3. RequestsFit'
  BY <1>2, OutdateFits, BecomeFits DEF IInv, FlagKeys, history
<1>4. settings' \in Settings /\ Sound(settings', keys, proved)
  BY <1>1 DEF IInv, TablesOK, Settings, Sound, FlagKeys
<1>5. TablesOK'
  BY <1>4 DEF IInv, TablesOK, FlagKeys, history
<1>6. SessionsOK' /\ HistoryOK'
  BY DEF IInv, SessionsOK, HistoryOK, FlagKeys, sessions, history
<1> QED BY <1>3, <1>5, <1>6 DEF IInv

LEMMA KeepsUnload ==
  ASSUME IInv, NEW r \in Requests, Unload(r)
  PROVE  IInv'
<1>1. request[r].challenge \in Challenges
  BY HasChallenge DEF Unload, At, WithChallenge
<1>2. TablesOK' /\ HistoryOK'
  BY <1>1, DeleteKeeps DEF IInv, Unload
<1>3. SessionsOK'
  BY DEF IInv, SessionsOK, Unload, sessions
<1>4. keys # 0 /\ ~At(r, "save")
  BY RequestFacts DEF IInv, Fits, Unload, At
<1>5. Fits([request[r] EXCEPT !.pc = "reread"], settings, keys, proved)
  BY <1>4, GotoFits DEF IInv, PCs, WithChallenge
<1>6. RequestsFit'
  BY <1>5, BecomeFits DEF IInv, Unload, Goto
<1> QED BY <1>2, <1>3, <1>6 DEF IInv

LEMMA KeepsReread ==
  ASSUME IInv, NEW r \in Requests, Reread(r)
  PROVE  IInv'
<1> DEFINE n == [settings EXCEPT !.keys = TRUE]
<1>1. keys # 0
  BY RequestFacts DEF IInv, Fits, Reread, At
<1>2. n \in Settings
  BY DEF IInv, TablesOK, Settings
<1>3. n.totp = settings.totp /\ n.keys
  BY DEF IInv, TablesOK, Settings
<1>4. Sound(n, keys, proved') /\ Keeps(settings, n)
  BY <1>1, <1>3 DEF IInv, TablesOK, Sound, Keeps, Reread, history
<1>5. SessionsOK' /\ HistoryOK'
  BY DEF IInv, SessionsOK, HistoryOK, Reread, sessions, history
<1> QED BY <1>2, <1>4, <1>5, PrepareKeeps DEF Reread, history

-----------------------------------------------------------------------------
(* Failures.                                                               *)

LEMMA KeepsFail ==
  ASSUME IInv, NEW r \in Requests, Fail(r)
  PROVE  IInv'
<1>1. kept' \subseteq Challenges
  BY HasChallenge DEF IInv, HistoryOK, Fail, At, WithChallenge
<1>2. RequestsFit'
  BY FinishFits DEF IInv, Fail, tables
<1> QED BY <1>1, <1>2 DEF IInv, TablesOK, SessionsOK, HistoryOK, Fail, tables, sessions

LEMMA KeepsRestart ==
  ASSUME IInv, Restart
  PROVE  IInv'
<1>1. kept' \subseteq Challenges
  BY HasChallenge DEF IInv, HistoryOK, Restart, At, WithChallenge
<1>2. \A r \in Requests : Fits(request'[r], settings', keys', proved')
  BY IdleFits DEF Restart
<1>3. RequestsFit'
  BY <1>2, IdleFits DEF RequestsFit, Restart, Fits
<1> QED BY <1>1, <1>3 DEF IInv, TablesOK, SessionsOK, HistoryOK, Restart, tables

-----------------------------------------------------------------------------
(* How often a challenge is used: every use was a request that held it.    *)

\* The places from which a request may still open a session, or mark one.
Using == {"check", "assert", "drop", "create", "mark"}

\* The requests that may still use challenge c, and those about to delete it.
Users(c) == {r \in Requests : request[r].challenge = c /\ request[r].pc \in Using}
Spenders(c) == {r \in Requests : request[r].challenge = c /\ request[r].pc = "spend"}

\* The uses there are and those to come are at most one for each request.
UsesCounted ==
    \A c \in Challenges \ kept :
        used[c] + Cardinality(Users(c)) <= Cardinality(Requests)

\* As long as the row is there, whoever used the challenge has yet to delete it.
UsesUnspent ==
    \A c \in Challenges \ kept :
        rows[c] # None => used[c] <= Cardinality(Spenders(c))

\* A ceremony is deleted before its key opens or marks a session.
Dropped(q) ==
    (q.pc \in {"create", "mark"} /\ q.row \notin Logins /\ q.challenge \in Challenges \ kept)
        => rows[q.challenge] = None
CeremoniesDropped == \A r \in Requests : Dropped(request[r])

UseInv == UsesCounted /\ UsesUnspent /\ CeremoniesDropped

\* A request at q that goes to n takes up no challenge, and deletes the one it
\* was about to delete, or fails to.
LetsGo(q, n) ==
    /\ (n.pc \in Using /\ n.challenge # 0) =>
           q.pc \in Using /\ n.challenge = q.challenge
    /\ (q.pc = "spend" /\ q.challenge \in Challenges \ kept') =>
           \/ n.pc = "spend" /\ n.challenge = q.challenge
           \/ rows'[q.challenge] = None
    /\ (n.pc \in {"create", "mark"} /\ n.row \notin Logins
            /\ n.challenge \in Challenges \ kept')
           => rows'[n.challenge] = None

\* No challenge is made or used.
NoUse == /\ UNCHANGED used
         /\ kept \subseteq kept'
         /\ \A c \in Challenges : rows'[c] \in {rows[c], None}
         /\ \A r \in Requests : LetsGo(request[r], request'[r])

\* The number of a set of requests.
LEMMA RequestsCounted ==
  ASSUME NEW S \in SUBSET Requests
  PROVE  /\ IsFiniteSet(S) /\ Cardinality(S) \in Nat
         /\ Cardinality(S) <= Cardinality(Requests)
         /\ Cardinality(Requests) \in Nat
BY FS_Subset, FS_CardinalityType, AdminAssumptions

\* Users and spenders of a challenge are different requests.
LEMMA UsersAndSpenders ==
  ASSUME NEW c
  PROVE  /\ Users(c) \in SUBSET Requests /\ Spenders(c) \in SUBSET Requests
         /\ Cardinality(Users(c)) + Cardinality(Spenders(c)) <= Cardinality(Requests)
<1>1. Users(c) \in SUBSET Requests /\ Spenders(c) \in SUBSET Requests
  BY DEF Users, Spenders
<1>2. Users(c) \cap Spenders(c) = {}
  BY DEF Users, Spenders, Using
<1>3. Users(c) \cup Spenders(c) \in SUBSET Requests
  BY <1>1
<1>4. /\ Cardinality(Users(c) \cup Spenders(c)) =
            Cardinality(Users(c)) + Cardinality(Spenders(c)) - Cardinality({})
  BY <1>1, <1>2, RequestsCounted, FS_Union
<1>5. Cardinality({}) = 0
  BY FS_EmptySet
<1> QED BY <1>1, <1>3, <1>4, <1>5, RequestsCounted

\* The types the counting needs.
LEMMA UseFacts ==
  ASSUME IInv
  PROVE  /\ used \in [Challenges -> Nat]
         /\ rows \in [Challenges -> Rows \cup {None}]
         /\ request \in [Requests -> Places]
         /\ 0 \notin Challenges
BY DEF IInv, HistoryOK, TablesOK, RequestsFit, Challenges

\* Steps that make and use no challenge.
LEMMA NoUseKeeps ==
  ASSUME IInv, UseInv, NoUse
  PROVE  UseInv'
<1>1. UsesCounted'
  <2> SUFFICES ASSUME NEW c \in Challenges, c \notin kept'
               PROVE  used'[c] + Cardinality(Users(c)') <= Cardinality(Requests)
    BY DEF UsesCounted
  <2>1. c \notin kept /\ used'[c] = used[c] /\ used[c] \in Nat
    BY UseFacts DEF NoUse
  <2>2. Users(c)' \in SUBSET Users(c)
    BY UseFacts DEF NoUse, LetsGo, Users
  <2>3. Cardinality(Users(c)') <= Cardinality(Users(c))
    BY <2>2, UsersAndSpenders, RequestsCounted, FS_Subset
  <2>4. Cardinality(Users(c)') \in Nat /\ Cardinality(Users(c)) \in Nat
    BY <2>2, UsersAndSpenders, RequestsCounted
  <2>5. used[c] + Cardinality(Users(c)) <= Cardinality(Requests)
    BY <2>1 DEF UseInv, UsesCounted
  <2> QED BY <2>1, <2>3, <2>4, <2>5, RequestsCounted
<1>2. UsesUnspent'
  <2> SUFFICES ASSUME NEW c \in Challenges, c \notin kept', rows'[c] # None
               PROVE  used'[c] <= Cardinality(Spenders(c)')
    BY DEF UsesUnspent
  <2>1. c \notin kept /\ rows[c] # None /\ used'[c] = used[c] /\ used[c] \in Nat
    BY UseFacts DEF NoUse
  <2>2. Spenders(c) \in SUBSET (Spenders(c)') /\ Spenders(c)' \in SUBSET Requests
    BY DEF NoUse, LetsGo, Spenders
  <2>3. Cardinality(Spenders(c)) <= Cardinality(Spenders(c)')
    BY <2>2, RequestsCounted, FS_Subset
  <2>4. Cardinality(Spenders(c)) \in Nat /\ Cardinality(Spenders(c)') \in Nat
    BY <2>2, UsersAndSpenders, RequestsCounted
  <2>5. used[c] <= Cardinality(Spenders(c))
    BY <2>1 DEF UseInv, UsesUnspent
  <2> QED BY <2>1, <2>3, <2>4, <2>5
<1>3. CeremoniesDropped'
  BY DEF NoUse, LetsGo, CeremoniesDropped, Dropped
<1> QED BY <1>1, <1>2, <1>3 DEF UseInv

\* One request moves, and takes up no challenge.
LEMMA UsesKeptByMove ==
  ASSUME IInv, UseInv, NEW r \in Requests, NEW q,
         Become(r, q) \/ Outdate(r, q),
         UNCHANGED used, kept \subseteq kept',
         \A c \in Challenges : rows'[c] \in {rows[c], None},
         LetsGo(request[r], q)
  PROVE  UseInv'
<1>1. /\ request'[r] = q
      /\ \A p \in Requests \ {r} : /\ request'[p].pc = request[p].pc
                                   /\ request'[p].challenge = request[p].challenge
                                   /\ request'[p].row = request[p].row
  BY UseFacts DEF Become, Outdate, Places
<1>2. \A p \in Requests : LetsGo(request[p], request'[p])
  BY <1>1 DEF LetsGo, UseInv, CeremoniesDropped, Dropped
<1> QED BY <1>2, NoUseKeeps DEF NoUse

\* A request that ends, or begins without a challenge, and was not about to
\* delete one.
LEMMA UsesKeptByOther ==
  ASSUME IInv, UseInv, NEW r \in Requests, NEW q,
         Become(r, q) \/ Outdate(r, q), q.pc \in Using => q.challenge = 0,
         ~At(r, "spend"),
         UNCHANGED used, kept \subseteq kept',
         \A c \in Challenges : rows'[c] \in {rows[c], None}
  PROVE  UseInv'
<1>1. LetsGo(request[r], q)
  BY UseFacts DEF LetsGo, At, Using
<1> QED BY <1>1, UsesKeptByMove

\* What a request that goes on keeps.
LEMMA GotoFacts ==
  ASSUME IInv, NEW r \in Requests, NEW label
  PROVE  /\ [request[r] EXCEPT !.pc = label].pc = label
         /\ [request[r] EXCEPT !.pc = label].challenge = request[r].challenge
         /\ [request[r] EXCEPT !.pc = label].row = request[r].row
BY UseFacts DEF Places

\* An idle request holds nothing; one that will delete a challenge holds it.
LEMMA PlaceFacts ==
  /\ Idle.pc = "idle" /\ Idle.challenge = 0
  /\ \A c : Spending(c).pc = "spend" /\ Spending(c).challenge = c
BY DEF Idle, Spending

\* Requests that begin, or go on, without a challenge to use.
LEMMA UsesKeptByHandlers ==
  ASSUME IInv, UseInv, NEW r \in Requests,
         \/ Login(r) \/ BeginStepUp(r) \/ EnrollTotp(r) \/ VerifyTotp(r)
         \/ VerifyHosted(r) \/ Confirm(r) \/ Save(r) \/ BeginKey(r)
         \/ InsertKey(r) \/ FlagKeys(r) \/ Unload(r) \/ Reread(r)
         \/ \E c \in Challenges : ConfirmHosted(r, c) \/ FinishKey(r, c)
         \/ \E on, hosted \in BOOLEAN : EditProvider(r, on, hosted)
  PROVE  UseInv'
<1> USE PlaceFacts DEF At, Using
<1>1. ASSUME NEW q, Become(r, q), q.pc \in Using => q.challenge = 0,
             ~At(r, "spend"), UNCHANGED <<used, kept, rows>>
      PROVE  UseInv'
  BY <1>1, UsesKeptByOther
<1>2. CASE Login(r) \/ BeginStepUp(r)
  <2>1. PICK q \in {[Idle EXCEPT !.pc = "open", !.row = Provider],
                    [Idle EXCEPT !.pc = "create"]} : Become(r, q)
    BY <1>2 DEF Login, BeginStepUp, Challenge
  <2>2. q.pc \in {"open", "create"} /\ q.challenge = 0
    BY DEF Idle
  <2> QED BY <1>1, <1>2, <2>1, <2>2 DEF Login, BeginStepUp, tables, history
<1>3. ASSUME NEW n, NEW c, Prepare(r, n, c), ~At(r, "spend"),
             UNCHANGED <<used, kept, rows>>
      PROVE  UseInv'
  <2>1. [Idle EXCEPT !.pc = "save", !.next = n, !.challenge = c].pc = "save"
    BY DEF Idle
  <2> QED BY <1>1, <1>3, <2>1 DEF Prepare
<1>4. CASE EnrollTotp(r) \/ VerifyTotp(r) \/ Reread(r)
  BY <1>3, <1>4 DEF EnrollTotp, VerifyTotp, Reread, tables, history
<1>5. ASSUME NEW on \in BOOLEAN, NEW hosted \in BOOLEAN, EditProvider(r, on, hosted)
      PROVE  UseInv'
  BY <1>3, <1>5 DEF EditProvider, tables, history
<1>6. CASE VerifyHosted(r) \/ BeginKey(r)
  <2>1. PICK row \in Rows : Become(r, [Idle EXCEPT !.pc = "open", !.row = row])
    BY <1>6 DEF VerifyHosted, BeginKey, Rows
  <2>2. [Idle EXCEPT !.pc = "open", !.row = row].pc = "open"
    BY DEF Idle
  <2> QED BY <1>1, <1>6, <2>1, <2>2 DEF VerifyHosted, BeginKey, tables, history
<1>7. ASSUME NEW c \in Challenges, NEW label \in {"confirm", "insert"}, At(r, "idle"),
             Become(r, [Idle EXCEPT !.pc = label, !.challenge = c]),
             UNCHANGED <<used, kept, rows>>
      PROVE  UseInv'
  <2>1. [Idle EXCEPT !.pc = label, !.challenge = c].pc = label
    BY DEF Idle
  <2> QED BY <1>1, <1>7, <2>1
<1>8. ASSUME NEW c \in Challenges, ConfirmHosted(r, c) \/ FinishKey(r, c)
      PROVE  UseInv'
  BY <1>1, <1>7, <1>8 DEF ConfirmHosted, FinishKey, tables, history
<1>9. CASE Confirm(r)
  BY <1>1, <1>3, <1>9 DEF Confirm, tables, history
<1>10. CASE Save(r)
  <2> DEFINE q == IF request[r].challenge = 0 THEN Idle
                  ELSE Spending(request[r].challenge)
  <2>1. q.pc \in {"idle", "spend"}
    OBVIOUS
  <2>2. Outdate(r, q) /\ ~At(r, "spend") /\ UNCHANGED <<used, kept, rows>>
    BY <1>10 DEF Save, history
  <2> QED BY <2>1, <2>2, UsesKeptByOther
<1>11. CASE InsertKey(r) \/ FlagKeys(r)
  <2>1. PICK label \in {"flag", "unload"} :
           \/ Become(r, [request[r] EXCEPT !.pc = label])
           \/ Outdate(r, [request[r] EXCEPT !.pc = label])
    BY <1>11 DEF InsertKey, FlagKeys, Goto
  <2>2. ~At(r, "spend") /\ UNCHANGED <<used, kept, rows>>
    BY <1>11 DEF InsertKey, FlagKeys, history
  <2> QED BY <2>1, <2>2, GotoFacts, UsesKeptByOther
<1>12. CASE Unload(r)
  <2> DEFINE q == [request[r] EXCEPT !.pc = "reread"]
  <2>1. Become(r, q) /\ ~At(r, "spend") /\ UNCHANGED used
    BY <1>12 DEF Unload, Goto
  <2>2. kept \subseteq kept' /\ \A c \in Challenges : rows'[c] \in {rows[c], None}
    BY <1>12, UseFacts DEF Unload, DeleteRow
  <2>3. q.pc \notin Using
    BY GotoFacts
  <2> HIDE DEF q
  <2> QED BY <2>1, <2>2, <2>3, UsesKeptByOther
<1> QED BY <1>2, <1>4, <1>5, <1>6, <1>8, <1>9, <1>10, <1>11, <1>12

\* A request that goes on with the challenge it holds.
LEMMA UsesKeptByUser ==
  ASSUME IInv, UseInv, NEW r \in Requests,
         Check(r) \/ AssertKey(r) \/ Drop(r)
  PROVE  UseInv'
<1>1. CASE Check(r)
  <2>1. UNCHANGED <<used, kept, rows>>
    BY <1>1 DEF Check, tables, history
  <2>2. ASSUME NEW label \in {"create", "mark"}, Goto(r, label), request[r].row \in Logins
        PROVE  UseInv'
    <3>1. LetsGo(request[r], [request[r] EXCEPT !.pc = label])
      BY <1>1, <2>2, GotoFacts DEF LetsGo, Check, At, Using
    <3> QED BY <2>1, <2>2, <3>1, UsesKeptByMove DEF Goto
  <2>3. CASE Become(r, Spending(request[r].challenge))
    BY <1>1, <2>1, <2>3, PlaceFacts, UsesKeptByOther DEF Check, At, Using
  <2> QED BY <1>1, <2>2, <2>3 DEF Check, Granted, Logins
<1>2. CASE AssertKey(r)
  <2>1. LetsGo(request[r], [request[r] EXCEPT !.pc = "drop"])
    BY <1>2, GotoFacts DEF LetsGo, AssertKey, At, Using
  <2> QED BY <1>2, <2>1, UsesKeptByMove DEF AssertKey, Goto, tables, history
<1>3. CASE Drop(r)
  <2>1. PICK label \in {"create", "mark"} : Goto(r, label)
    BY <1>3 DEF Drop, Granted
  <2>2. /\ UNCHANGED used /\ kept \subseteq kept'
        /\ \A c \in Challenges : rows'[c] \in {rows[c], None}
        /\ request[r].challenge \in kept' \/ rows'[request[r].challenge] = None
    <3>1. request[r].challenge \in Challenges
      BY <1>3, HasChallenge DEF Drop, At, WithChallenge
    <3> QED BY <1>3, <3>1, UseFacts DEF Drop, DeleteRow
  <2>3. LetsGo(request[r], [request[r] EXCEPT !.pc = label])
    BY <1>3, <2>2, GotoFacts DEF LetsGo, Drop, At, Using
  <2> QED BY <2>1, <2>2, <2>3, UsesKeptByMove DEF Goto
<1> QED BY <1>1, <1>2, <1>3

\* The deletion, or its failure, ends the request.
LEMMA UsesKeptBySpend ==
  ASSUME IInv, UseInv, NEW r \in Requests, Spend(r) \/ Fail(r)
  PROVE  UseInv'
<1> DEFINE c == request[r].challenge
<1>1. /\ UNCHANGED used /\ kept \subseteq kept'
      /\ \A d \in Challenges : rows'[d] \in {rows[d], None}
      /\ At(r, "spend") => c \in kept' \/ rows'[c] = None
  <2>1. At(r, "spend") => c \in Challenges
    BY HasChallenge DEF At, WithChallenge
  <2>2. CASE Spend(r)
    BY <2>1, <2>2, UseFacts DEF Spend, DeleteRow
  <2>3. CASE Fail(r)
    BY <2>3 DEF Fail, tables
  <2> QED BY <2>2, <2>3
<1>2. LetsGo(request[r], Idle)
  BY <1>1, PlaceFacts DEF LetsGo, At, Using
<1>3. Become(r, Idle)
  BY DEF Spend, Fail, Finish
<1> QED BY <1>1, <1>2, <1>3, UsesKeptByMove

\* The answer to a challenge: one more request that may use it.
LEMMA UsesKeptByAnswer ==
  ASSUME IInv, UseInv, NEW r \in Requests, NEW c \in Challenges, NEW x,
         Answer(r, c, x)
  PROVE  UseInv'
<1>1. PICK label \in {"check", "assert"} :
        Become(r, [Idle EXCEPT !.pc = label, !.session = x, !.challenge = c,
                      !.row = rows[c]])
  BY DEF Answer
<1>2. /\ request'[r].pc = label /\ request'[r].challenge = c
      /\ \A p \in Requests \ {r} : request'[p] = request[p]
      /\ request[r].pc = "idle"
      /\ UNCHANGED <<used, kept, rows>> /\ rows[c] # None
  BY <1>1, UseFacts DEF Become, Idle, Answer, At, tables, history
<1>3. \A d : Spenders(d)' = Spenders(d)
  BY <1>2 DEF Spenders
<1>4. UsesUnspent'
  BY <1>2, <1>3 DEF UseInv, UsesUnspent
<1>5. CeremoniesDropped'
  BY <1>2 DEF UseInv, CeremoniesDropped, Dropped
<1>6. UsesCounted'
  <2> SUFFICES ASSUME NEW d \in Challenges, d \notin kept
               PROVE  used[d] + Cardinality(Users(d)') <= Cardinality(Requests)
    BY <1>2 DEF UsesCounted
  <2>1. used[d] \in Nat
    BY UseFacts
  <2>2. CASE d = c
    <3>1. used[d] <= Cardinality(Spenders(d))
      BY <1>2, <2>2 DEF UseInv, UsesUnspent
    <3>2. Users(d)' \cap Spenders(d) = {} /\ Users(d)' \in SUBSET Requests
      BY <1>2 DEF Users, Spenders, Using
    <3>3. Cardinality(Users(d)') + Cardinality(Spenders(d)) <= Cardinality(Requests)
      <4>1. Spenders(d) \in SUBSET Requests
        BY UsersAndSpenders
      <4>2. (Users(d)') \cup Spenders(d) \in SUBSET Requests
        BY <3>2, <4>1
      <4>3. Cardinality((Users(d)') \cup Spenders(d)) =
              Cardinality(Users(d)') + Cardinality(Spenders(d)) - Cardinality({})
        BY <3>2, <4>1, RequestsCounted, FS_Union
      <4>4. Cardinality({}) = 0
        BY FS_EmptySet
      <4> QED BY <3>2, <4>1, <4>2, <4>3, <4>4, RequestsCounted
    <3> QED BY <2>1, <3>1, <3>2, <3>3, RequestsCounted, UsersAndSpenders
  <2>3. CASE d # c
    <3>1. Users(d)' = Users(d)
      BY <1>2, <2>3 DEF Users, Using
    <3> QED BY <3>1 DEF UseInv, UsesCounted
  <2> QED BY <2>2, <2>3
<1> QED BY <1>4, <1>5, <1>6 DEF UseInv

\* A new challenge is one nobody holds.
LEMMA UsesKeptByOpen ==
  ASSUME IInv, UseInv, NEW r \in Requests, Open(r)
  PROVE  UseInv'
<1>1. PICK c \in Challenges :
        /\ At(r, "open")
        /\ \A p \in Requests : request[p].challenge # c
        /\ rows' = [rows EXCEPT ![c] = request[r].row]
        /\ used' = [used EXCEPT ![c] = 0]
        /\ kept' = kept \ {c}
        /\ Finish(r)
  BY DEF Open
<1>2. /\ request'[r].pc = "idle" /\ request'[r].challenge = 0
      /\ \A p \in Requests \ {r} : request'[p] = request[p]
      /\ request[r].pc = "open"
  BY <1>1, UseFacts, PlaceFacts DEF Finish, Become, At
<1>3. /\ used'[c] = 0
      /\ \A d \in Challenges \ {c} : used'[d] = used[d] /\ rows'[d] = rows[d]
  BY <1>1, UseFacts
<1>4. \A d \in Challenges : Users(d)' = Users(d) /\ Spenders(d)' = Spenders(d)
  BY <1>2, UseFacts DEF Users, Spenders, Using
<1>5. UsesCounted'
  <2> SUFFICES ASSUME NEW d \in Challenges, d \notin kept'
               PROVE  used'[d] + Cardinality(Users(d)) <= Cardinality(Requests)
    BY <1>4 DEF UsesCounted
  <2>1. CASE d = c
    <3>1. Users(d) \in SUBSET Requests
      BY UsersAndSpenders
    <3> QED BY <1>3, <2>1, <3>1, RequestsCounted
  <2>2. CASE d # c
    BY <1>1, <1>3, <2>2 DEF UseInv, UsesCounted
  <2> QED BY <2>1, <2>2
<1>6. UsesUnspent'
  <2> SUFFICES ASSUME NEW d \in Challenges, d \notin kept', rows'[d] # None
               PROVE  used'[d] <= Cardinality(Spenders(d))
    BY <1>4 DEF UsesUnspent
  <2>1. CASE d = c
    <3>1. Spenders(d) \in SUBSET Requests
      BY UsersAndSpenders
    <3> QED BY <1>3, <2>1, <3>1, RequestsCounted
  <2>2. CASE d # c
    BY <1>1, <1>3, <2>2 DEF UseInv, UsesUnspent
  <2> QED BY <2>1, <2>2
<1>7. CeremoniesDropped'
  BY <1>1, <1>2, <1>3 DEF UseInv, CeremoniesDropped, Dropped
<1> QED BY <1>5, <1>6, <1>7 DEF UseInv

\* The end of a sign-in or step-up: the request has used its challenge, and is
\* about to delete it unless its row is gone.
LEMMA UsesKeptByUse ==
  ASSUME IInv, UseInv, NEW r \in Requests, Used(r),
         At(r, "create") \/ At(r, "mark"),
         UNCHANGED <<rows, kept>>
  PROVE  UseInv'
<1>0. PICK c : c = request[r].challenge
  OBVIOUS
<1>1. PICK q \in {Idle, Spending(c)} :
        /\ Become(r, q)
        /\ q = Idle => c = 0 \/ request[r].row \notin Logins
        /\ q # Idle => q = Spending(c) /\ c # 0
  BY <1>0, PlaceFacts DEF Used, Finish
<1>2. /\ request'[r] = q
      /\ \A p \in Requests \ {r} : request'[p] = request[p]
      /\ q.pc \in {"idle", "spend"}
      /\ q.pc = "idle" => q = Idle
      /\ q.pc = "spend" => q.challenge = c
      /\ request[r].pc \in {"create", "mark"}
  BY <1>0, <1>1, UseFacts, PlaceFacts DEF Become, At
<1>3. CASE c \in kept \cup {0}
  <2>1. UNCHANGED used
    BY <1>0, <1>3 DEF Used
  <2>2. LetsGo(request[r], q)
    BY <1>0, <1>2 DEF LetsGo, Using
  <2> QED BY <1>1, <2>1, <2>2, UsesKeptByMove
<1>4. CASE c \notin kept \cup {0}
  <2>1. c \in Challenges /\ used' = [used EXCEPT ![c] = @ + 1]
    BY <1>0, <1>4, UseFacts DEF Used, Places
  <2>2. CeremoniesDropped'
    BY <1>2 DEF UseInv, CeremoniesDropped, Dropped
  <2>3. ASSUME NEW d \in Challenges, d # c
        PROVE  /\ used'[d] = used[d]
               /\ Users(d)' = Users(d) /\ Spenders(d)' = Spenders(d)
    <3>1. used'[d] = used[d]
      BY <2>1, <2>3, UseFacts
    <3>2. q.challenge # d \/ q.pc = "idle"
      BY <1>2, <2>3
    <3>3. Users(d)' = Users(d)
      BY <1>0, <1>2, <2>3 DEF Users, Using
    <3>4. Spenders(d)' = Spenders(d)
      BY <1>0, <1>2, <2>3, <3>2 DEF Spenders
    <3> QED BY <3>1, <3>3, <3>4
  <2>4. /\ used'[c] = used[c] + 1 /\ used[c] \in Nat
        /\ Users(c) \in SUBSET Requests /\ Spenders(c) \in SUBSET Requests
    BY <2>1, UseFacts, UsersAndSpenders
  <2>5. Cardinality(Users(c)') = Cardinality(Users(c)) - 1
    <3>1. Users(c)' = Users(c) \ {r} /\ r \in Users(c)
      BY <1>0, <1>2 DEF Users, Using
    <3> QED BY <2>4, <3>1, RequestsCounted, FS_RemoveElement
  <2>6. UsesCounted'
    <3> SUFFICES ASSUME NEW d \in Challenges, d \notin kept
                 PROVE  used'[d] + Cardinality(Users(d)') <= Cardinality(Requests)
      BY DEF UsesCounted
    <3>1. used[d] + Cardinality(Users(d)) <= Cardinality(Requests)
      BY DEF UseInv, UsesCounted
    <3>2. CASE d = c
      BY <2>4, <2>5, <3>1, <3>2, RequestsCounted
    <3>3. CASE d # c
      BY <2>3, <3>1, <3>3
    <3> QED BY <3>2, <3>3
  <2>7. UsesUnspent'
    <3> SUFFICES ASSUME NEW d \in Challenges, d \notin kept, rows[d] # None
                 PROVE  used'[d] <= Cardinality(Spenders(d)')
      BY DEF UsesUnspent
    <3>1. used[d] <= Cardinality(Spenders(d))
      BY DEF UseInv, UsesUnspent
    <3>2. CASE d = c
      <4>1. q.pc = "spend"
        BY <1>0, <1>1, <1>2, <1>4, <2>1, <3>2, PlaceFacts
           DEF UseInv, CeremoniesDropped, Dropped
      <4>2. Spenders(c)' = Spenders(c) \cup {r} /\ r \notin Spenders(c)
        BY <1>0, <1>2, <4>1 DEF Spenders
      <4>3. Cardinality(Spenders(c)') = Cardinality(Spenders(c)) + 1
        BY <2>4, <4>2, RequestsCounted, FS_AddElement
      <4> QED BY <2>4, <3>1, <3>2, <4>3, RequestsCounted
    <3>3. CASE d # c
      BY <2>3, <3>1, <3>3
    <3> QED BY <3>2, <3>3
  <2> QED BY <2>2, <2>6, <2>7 DEF UseInv
<1> QED BY <1>3, <1>4

LEMMA UsesKeptByGrant ==
  ASSUME IInv, UseInv, NEW r \in Requests, Create(r) \/ Mark(r)
  PROVE  UseInv'
<1>1. CASE Used(r)
  BY <1>1, UsesKeptByUse DEF Create, Mark, tables
<1>2. CASE Finish(r) /\ UNCHANGED used /\ At(r, "mark")
  <2>1. UNCHANGED <<kept, rows>>
    BY DEF Create, Mark, tables
  <2>2. Become(r, Idle) /\ ~At(r, "spend")
    BY <1>2 DEF Finish, At
  <2> QED BY <1>2, <2>1, <2>2, PlaceFacts, UsesKeptByOther DEF Using
<1> QED BY <1>1, <1>2 DEF Create, Mark

\* What happens at any time uses no challenge.
LEMMA UsesKeptByOthers ==
  ASSUME IInv, UseInv,
         \/ UNCHANGED vars \/ Restart
         \/ \E c \in Challenges : Expire(c)
         \/ \E x \in Sessions : Lapse(x) \/ EndSession(x)
  PROVE  UseInv'
<1>1. CASE Restart
  <2>1. \A r \in Requests : request'[r] = Idle
    BY <1>1 DEF Restart
  <2>2. UNCHANGED <<used, rows>> /\ kept \subseteq kept'
        /\ \A r \in Requests : At(r, "spend") => request[r].challenge \in kept'
    BY <1>1 DEF Restart, tables
  <2>3. \A r \in Requests : LetsGo(request[r], request'[r])
    BY <2>1, <2>2, PlaceFacts DEF LetsGo, At, Using
  <2> QED BY <2>2, <2>3, NoUseKeeps DEF NoUse
<1>2. CASE \/ UNCHANGED vars
           \/ \E c \in Challenges : Expire(c)
           \/ \E x \in Sessions : Lapse(x) \/ EndSession(x)
  <2>1. UNCHANGED <<used, kept, request>>
    BY <1>2 DEF vars, Expire, Lapse, EndSession, history
  <2>2. \A c \in Challenges : rows'[c] \in {rows[c], None}
    BY <1>2, UseFacts DEF vars, Expire, Lapse, EndSession, tables
  <2>3. \A r \in Requests : LetsGo(request[r], request'[r])
    BY <2>1, <2>2 DEF LetsGo, UseInv, CeremoniesDropped, Dropped
  <2> QED BY <2>1, <2>2, <2>3, NoUseKeeps DEF NoUse
<1> QED BY <1>1, <1>2

-----------------------------------------------------------------------------
(* The theorems.                                                           *)

LEMMA InitOK == Init => IInv
<1> SUFFICES ASSUME Init PROVE IInv
  OBVIOUS
<1>1. TablesOK /\ SessionsOK /\ HistoryOK
  BY AdminAssumptions DEF Init, TablesOK, SessionsOK, HistoryOK, Settings, Sound
<1>2. RequestsFit
  BY IdleFits DEF Init, RequestsFit, Fits
<1> QED BY <1>1, <1>2 DEF IInv

LEMMA NextKeeps == IInv /\ [Next]_vars => IInv'
<1> SUFFICES ASSUME IInv, [Next]_vars PROVE IInv'
  OBVIOUS
<1>1. ASSUME NEW r \in Requests, Step(r)
      PROVE  IInv'
  BY <1>1, KeepsLogin, KeepsBeginStepUp, KeepsOpen, KeepsCheck, KeepsAssertKey,
     KeepsDrop, KeepsCreate, KeepsMark, KeepsSpend, KeepsEnrollTotp,
     KeepsVerifyTotp, KeepsVerifyHosted, KeepsConfirm, KeepsSave, KeepsBeginKey,
     KeepsInsertKey, KeepsFlagKeys, KeepsUnload, KeepsReread, KeepsFail,
     KeepsConfirmHosted, KeepsFinishKey, KeepsAnswer, KeepsEditProvider
     DEF Step
<1>2. ASSUME NEW c \in Challenges, Expire(c)
      PROVE  IInv'
  BY <1>2, KeepsExpire
<1>3. ASSUME NEW x \in Sessions, Lapse(x) \/ EndSession(x)
      PROVE  IInv'
  BY <1>3, KeepsLapse, KeepsEndSession
<1>4. CASE Restart
  BY <1>4, KeepsRestart
<1>5. CASE UNCHANGED vars
  BY <1>5, StillFit DEF vars, tables, sessions, history, IInv, TablesOK,
                        SessionsOK, HistoryOK
<1> QED BY <1>1, <1>2, <1>3, <1>4, <1>5 DEF Next

\* The invariant the others rest on.
THEOREM Inductive == Spec => []IInv
BY InitOK, NextKeeps, PTL DEF Spec

\* Tables and requests stay well formed, and only sessions in the map are
\* marked (the settings row and session map of webadmin).
THEOREM TypeCorrect == Spec => []TypeOK
<1>1. IInv => TypeOK
  BY DEF IInv, TablesOK, SessionsOK, HistoryOK, RequestsFit, Fits, TypeOK, At
<1> QED BY <1>1, Inductive, PTL

\* The settings never demand a factor that cannot be presented, whatever
\* enrolments and saves overlap (SaveAdminMFASettings writes a row read
\* earlier).
THEOREM FactorsPresentable == Spec => []SignInPossible
<1>1. IInv => SignInPossible
  BY DEF IInv, TablesOK, Sound, SignInPossible
<1> QED BY <1>1, Inductive, PTL

\* Only a write of settings that others have written since takes a factor away
\* (the handlers of mfa.go change the fields that are theirs).
THEOREM FactorsStay == Spec => FactorsKept
<1> DEFINE A == (settings.totp # 0 /\ settings'.totp = 0) \/ (settings.keys /\ ~settings'.keys)
                  => \E r \in Requests : At(r, "save") /\ ~request[r].fresh
<1>1. ASSUME IInv, [Next]_vars
      PROVE  [A]_vars
  <2>1. CASE settings' = settings
    BY <2>1
  <2>2. ASSUME NEW r \in Requests, FlagKeys(r)
        PROVE  A
    <3>1. settings' = settings \/ (settings'.totp = settings.totp /\ settings'.keys)
      BY <1>1, <2>2 DEF FlagKeys, IInv, TablesOK, Settings
    <3> QED BY <3>1
  <2>3. ASSUME NEW r \in Requests, Save(r)
        PROVE  A
    <3>1. At(r, "save") /\ settings' = request[r].next
      BY <2>3 DEF Save
    <3>2. request[r].fresh => Keeps(settings, settings')
      BY <1>1, <3>1, RequestFacts DEF IInv, Fits, At, Places
    <3> QED BY <3>1, <3>2 DEF Keeps
  <2>4. settings' = settings \/ \E r \in Requests : FlagKeys(r) \/ Save(r)
    BY <1>1 DEF Next, Step, Login, BeginStepUp, Open, Check, AssertKey, Drop,
       Create, Mark, Spend, EnrollTotp, VerifyTotp, VerifyHosted, Confirm,
       BeginKey, InsertKey, Unload, Reread, Fail, ConfirmHosted, FinishKey,
       Answer, EditProvider, Expire, Lapse, EndSession, Restart, vars, tables
  <2> QED BY <2>1, <2>2, <2>3, <2>4
<1>2. Spec => [][A]_vars
  BY <1>1, Inductive, PTL DEF Spec
<1> QED BY <1>2 DEF FactorsKept

\* Sessions keep their promise: a mark finds its session in the map or fails
\* (session/manager.go, MarkStepUp), and none returns after it has ended.
THEOREM Refinement == Spec => ImplementsTrust
<1>1. Init => Manager!Init
  BY DEF Init, Manager!Init
<1>2. ASSUME IInv, [Next]_vars
      PROVE  [Manager!Next]_<<live, trusted, (1..made.sessions) \ live>>
  <2> USE DEF Manager!Next
  <2>0. /\ live \subseteq 1..made.sessions /\ trusted \subseteq live
        /\ made.sessions \in Nat
    BY <1>2, AdminAssumptions DEF IInv, SessionsOK
  <2>1. ASSUME NEW r \in Requests, Create(r)
        PROVE  Manager!Next
    <3> DEFINE s == made.sessions + 1
    <3>1. s \in Sessions /\ live' = live \cup {s} /\ trusted' = trusted
      BY <2>1 DEF Create
    <3>2. made'.sessions = s
      BY <1>2, <2>1 DEF Create, IInv, SessionsOK
    <3>3. s \notin live \cup ((1..made.sessions) \ live)
      BY <2>0
    <3>4. (1..s) \ (live \cup {s}) = (1..made.sessions) \ live
      BY <2>0
    <3>5. Manager!SignIn(s)
      BY <3>1, <3>2, <3>3, <3>4 DEF Manager!SignIn
    <3> QED BY <3>1, <3>5
  <2>2. ASSUME NEW r \in Requests, Mark(r)
        PROVE  Manager!Next \/ UNCHANGED <<live, trusted, made>>
    <3>1. CASE UNCHANGED trusted
      BY <2>2, <3>1 DEF Mark
    <3>2. CASE request[r].session \in live
               /\ trusted' = trusted \cup {request[r].session}
      BY <2>2, <3>2 DEF Mark, Manager!Raise
    <3> QED BY <2>2, <3>1, <3>2 DEF Mark
  <2>3. ASSUME NEW x \in Sessions, Lapse(x)
        PROVE  Manager!Next
    BY <2>0, <2>3 DEF Lapse, Manager!Lower
  <2>4. ASSUME NEW x \in Sessions, EndSession(x)
        PROVE  Manager!Next
    <3>1. Manager!End({x})
      BY <2>0, <2>4 DEF EndSession, Manager!End
    <3> QED BY <2>4, <3>1 DEF EndSession
  <2>5. CASE Restart
    <3>1. Manager!End(live)
      BY <2>0, <2>5 DEF Restart, Manager!End
    <3> QED BY <3>1
  <2>6. ASSUME live' = live, trusted' = trusted, made'.sessions = made.sessions
        PROVE  UNCHANGED <<live, trusted, (1..made.sessions) \ live>>
    BY <2>6
  <2>7. \/ \E r \in Requests : Create(r) \/ Mark(r)
        \/ \E x \in Sessions : Lapse(x) \/ EndSession(x)
        \/ Restart
        \/ live' = live /\ trusted' = trusted /\ made'.sessions = made.sessions
    BY ZenonT(40), <1>2 DEF IInv, SessionsOK, Next, Step, Login, BeginStepUp, Open, Check,
       AssertKey, Drop, Spend, EnrollTotp, VerifyTotp, VerifyHosted, Confirm,
       Save, BeginKey, InsertKey, FlagKeys, Unload, Reread, Fail,
       ConfirmHosted, FinishKey, Answer, EditProvider, Expire, vars, sessions
  <2> QED BY <2>1, <2>2, <2>3, <2>4, <2>5, <2>6, <2>7
<1> QED BY <1>1, <1>2, Inductive, PTL DEF Spec, ImplementsTrust, Manager!Spec

\* A challenge opens or marks one session at most for each request that had
\* read it before its row went, a failed deletion aside
\* (mfa.go deletes the challenge of a sign-in after the session is made).
THEOREM AnswersAreBounded == Spec => []AnswersBounded
<1>1. Init => UseInv
  <2> SUFFICES ASSUME Init PROVE UseInv
    OBVIOUS
  <2>1. \A c \in Challenges : used[c] = 0 /\ rows[c] = None
    BY DEF Init
  <2>2. UsesUnspent /\ CeremoniesDropped
    BY <2>1, PlaceFacts DEF Init, UsesUnspent, CeremoniesDropped, Dropped
  <2>3. UsesCounted
    <3> SUFFICES ASSUME NEW c \in Challenges
                 PROVE  used[c] + Cardinality(Users(c)) <= Cardinality(Requests)
      BY DEF UsesCounted
    <3>1. Users(c) \in SUBSET Requests
      BY UsersAndSpenders
    <3> QED BY <2>1, <3>1, RequestsCounted
  <2> QED BY <2>2, <2>3 DEF UseInv
<1>2. IInv /\ UseInv /\ [Next]_vars => UseInv'
  BY UsesKeptByHandlers, UsesKeptByUser, UsesKeptBySpend, UsesKeptByAnswer,
     UsesKeptByOpen, UsesKeptByGrant, UsesKeptByOthers DEF Next, Step
<1>3. IInv /\ UseInv => AnswersBounded
  <2> SUFFICES ASSUME IInv, UseInv, NEW c \in Challenges \ kept
               PROVE  used[c] <= Cardinality(Requests)
    BY DEF AnswersBounded
  <2>1. Users(c) \in SUBSET Requests /\ used[c] \in Nat
    BY UsersAndSpenders, UseFacts
  <2>2. used[c] + Cardinality(Users(c)) <= Cardinality(Requests)
    BY DEF UseInv, UsesCounted
  <2> QED BY <2>1, <2>2, RequestsCounted
<1> QED BY <1>1, <1>2, <1>3, Inductive, PTL DEF Spec

=============================================================================
