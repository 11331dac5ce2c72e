----------------------------- MODULE ComposeProofs -----------------------------
(***************************************************************************)
(* Proofs about Compose, for any number of requests, messages and          *)
(* mailboxes: type correctness, that the sent folder holds no more than    *)
(* the mail server accepted, that a request takes away drafts of its own   *)
(* message only, and that a text the user was told is saved is kept.       *)
(***************************************************************************)
EXTENDS Compose, FiniteSetTheorems, TLAPS

-----------------------------------------------------------------------------
(* The inductive invariant.                                                *)

RequestType == [pc : PCs, message : Optional(Messages), version : Versions,
                from : Optional(Mailboxes), draft : Optional(Names)]
FileType == [message : Messages, version : Versions, mailbox : Mailboxes]

\* A request that is served is about a message and from an address.
RequestsFormed ==
    \A r \in Requests : ~At(r, "idle") =>
      request[r].message \in Messages /\ request[r].from \in Mailboxes

\* An idle one names no draft.
IdleNamesNone == \A r \in Requests : At(r, "idle") => request[r].draft = None

\* Requests that were accepted by the mail server and have not filed the copy.
InFile(m) == {r \in Requests : At(r, "file") /\ request[r].message = m}

\* Each of them is still owed a copy.
FiledAccounted == \A m \in Messages : filed[m] + Cardinality(InFile(m)) <= accepted[m]

\* What has been filed is at least as new as the request that filed it.
FiledIsNew ==
    \A r \in Requests : request[r].pc \in {"clean", "sent"} =>
      newest[request[r].message] >= request[r].version

\* Draft names are handed out in order.
NamesUsed ==
    /\ window.draft \in Optional(1..names)
    /\ \A r \in Requests : request[r].draft \in Optional(1..names)

\* No version is newer than the one typed last.
TextNewest ==
    /\ window.message # None => window.version <= text[window.message]
    /\ \A r \in Requests : ~At(r, "idle") =>
         request[r].version <= text[request[r].message]
    /\ \A n \in Names : draft[n] # None => draft[n].version <= text[draft[n].message]

\* The draft that y names is of its message and not newer, if it is among d and
\* no reply or forward took it along: its message is not in c.
Own(y, d, c) ==
    y.message # None /\ y.draft # None /\ d[y.draft] # None =>
      \/ d[y.draft].message \in c
      \/ /\ d[y.draft].message = y.message
         /\ d[y.draft].version <= y.version

\* While the window has not turned under a request, the window and the requests
\* name drafts of their own, and a save or a send is of what the window shows.
OwnDrafts ==
    ~turned =>
      /\ Own(window, draft, carried)
      /\ \A r \in Requests : Own(request[r], draft, carried)
      /\ \A r \in Requests : request[r].pc \notin {"idle", "opened"} =>
           \/ window.message = None
           \/ /\ window.message = request[r].message
              /\ request[r].version <= window.version

\* What was answered as saved is stored, and so is what is about to be, unless a
\* reply or forward took a draft of the message along.
SavesKept ==
    ~turned /\ ~torn =>
      /\ \A m \in Messages \ carried : saved[m] # 0 => Stored(m, saved[m])
      /\ \A r \in Requests : At(r, "saved") /\ request[r].message \notin carried =>
           Stored(request[r].message, request[r].version)

IInv == TypeOK /\ RequestsFormed /\ IdleNamesNone /\ FiledAccounted /\ FiledIsNew
          /\ NamesUsed /\ TextNewest /\ OwnDrafts /\ SavesKept

-----------------------------------------------------------------------------
(* What a step does to the requests.                                       *)

Others(r) == \A q \in Requests : q # r => request'[q] = request[q]

\* Request r goes on with the same message, text, sender and draft.
SameAt(r, label) ==
    /\ request' \in [Requests -> RequestType]
    /\ request'[r].pc = label
    /\ request'[r].message = request[r].message
    /\ request'[r].version = request[r].version
    /\ request'[r].from = request[r].from
    /\ request'[r].draft = request[r].draft
    /\ Others(r)

LEMMA BecomeStep ==
  ASSUME TypeOK, NEW r \in Requests, NEW x \in RequestType, Become(r, x)
  PROVE  request' \in [Requests -> RequestType] /\ request'[r] = x /\ Others(r)
BY DEF TypeOK, Become, Others, RequestType

LEMMA GotoStep ==
  ASSUME TypeOK, NEW r \in Requests, NEW label \in PCs, Goto(r, label)
  PROVE  SameAt(r, label)
<1> DEFINE x == [request[r] EXCEPT !.pc = label]
<1>1. request[r] \in RequestType
  BY DEF TypeOK, RequestType
<1>2. /\ x \in RequestType /\ x.pc = label /\ x.message = request[r].message
      /\ x.version = request[r].version /\ x.from = request[r].from
      /\ x.draft = request[r].draft
  BY <1>1 DEF RequestType
<1>3. Become(r, x)
  BY DEF Goto
<1> HIDE DEF x
<1> QED BY <1>2, <1>3, BecomeStep DEF SameAt

\* An idle request is about nothing.
LEMMA IdleIs ==
  /\ Idle \in RequestType /\ Idle.pc = "idle" /\ Idle.message = None
  /\ Idle.draft = None /\ Idle.version = 0 /\ Idle.from = None
BY ComposeAssumptions
   DEF Idle, RequestType, PCs, Optional, Versions, ComposeAssumptions

LEMMA OverStep ==
  ASSUME TypeOK, NEW r \in Requests, Over(r)
  PROVE  request' \in [Requests -> RequestType] /\ request'[r] = Idle /\ Others(r)
BY BecomeStep, IdleIs DEF Over

\* Request r is about what the window shows.
AsShown(r, label) ==
    /\ request' \in [Requests -> RequestType]
    /\ request'[r].pc = label
    /\ request'[r].message = window.message
    /\ request'[r].version = window.version
    /\ request'[r].from = window.from
    /\ request'[r].draft = window.draft
    /\ Others(r)

LEMMA AskStep ==
  ASSUME TypeOK, NEW r \in Requests, NEW label \in PCs, Ask(r, label)
  PROVE  AsShown(r, label)
<1> DEFINE x == [Idle EXCEPT !.pc = label, !.message = window.message,
                     !.version = window.version, !.from = window.from,
                     !.draft = window.draft]
<1>1. /\ window.message \in Optional(Messages) /\ window.version \in Versions
      /\ window.from \in Optional(Mailboxes) /\ window.draft \in Optional(Names)
  BY DEF TypeOK, Optional
<1>2. /\ x \in RequestType /\ x.pc = label /\ x.message = window.message
      /\ x.version = window.version /\ x.from = window.from /\ x.draft = window.draft
  BY <1>1 DEF Idle, RequestType
<1>3. Become(r, x)
  BY DEF Ask
<1> HIDE DEF x
<1> QED BY <1>2, <1>3, BecomeStep DEF AsShown

\* Request r reads the file of draft n.
Opens(r, n) ==
    /\ request' \in [Requests -> RequestType]
    /\ request'[r].pc = "opened"
    /\ request'[r].message = draft[n].message
    /\ request'[r].version = draft[n].version
    /\ request'[r].from = draft[n].mailbox
    /\ request'[r].draft = n
    /\ Others(r)

LEMMA OpenStep ==
  ASSUME TypeOK, NEW r \in Requests, NEW n \in Names, OpenDraft(r, n)
  PROVE  Opens(r, n) /\ draft[n] \in FileType
<1> DEFINE x == [Idle EXCEPT !.pc = "opened", !.message = draft[n].message,
                     !.version = draft[n].version, !.from = draft[n].mailbox,
                     !.draft = n]
<1>1. draft[n] \in FileType
  BY DEF OpenDraft, TypeOK, Optional, FileType
<1>2. /\ x \in RequestType /\ x.pc = "opened" /\ x.message = draft[n].message
      /\ x.version = draft[n].version /\ x.from = draft[n].mailbox /\ x.draft = n
  BY <1>1 DEF Idle, RequestType, FileType, Optional, PCs
<1>3. Become(r, x)
  BY DEF OpenDraft
<1> HIDE DEF x
<1> QED BY <1>1, <1>2, <1>3, BecomeStep DEF Opens

\* Request r has written its text to a new draft.
Writes(r) ==
    /\ request' \in [Requests -> RequestType]
    /\ request'[r].pc = "saved"
    /\ request'[r].message = request[r].message
    /\ request'[r].version = request[r].version
    /\ request'[r].from = request[r].from
    /\ request'[r].draft = names'
    /\ Others(r)

LEMMA WriteStep ==
  ASSUME TypeOK, NEW r \in Requests, Write(r)
  PROVE  Writes(r) /\ names' \in Names
<1> DEFINE x == [request[r] EXCEPT !.pc = "saved", !.draft = names']
<1>1. request[r] \in RequestType
  BY DEF TypeOK, RequestType
<1>2. names' \in Names
  BY ComposeAssumptions DEF Write, TypeOK, Names, ComposeAssumptions
<1>3. /\ x \in RequestType /\ x.pc = "saved" /\ x.message = request[r].message
      /\ x.version = request[r].version /\ x.from = request[r].from
      /\ x.draft = names'
  BY <1>1, <1>2 DEF RequestType, Optional, PCs
<1>4. Become(r, x)
  BY DEF Write
<1> HIDE DEF x
<1> QED BY <1>2, <1>3, <1>4, BecomeStep DEF Writes

-----------------------------------------------------------------------------
(* What a step does to the window and to the drafts.                       *)

WindowType == [message : Optional(Messages), version : Versions,
               from : Mailboxes, draft : Optional(Names)]

\* The window shows version v of message m, from address f, over draft d.
Shows(m, v, f, d) ==
    /\ window' \in WindowType
    /\ window'.message = m /\ window'.version = v
    /\ window'.from = f /\ window'.draft = d

LEMMA WindowIs ==
  ASSUME TypeOK
  PROVE  /\ window \in WindowType
         /\ window.message \in Optional(Messages) /\ window.version \in Versions
         /\ window.from \in Mailboxes /\ window.draft \in Optional(Names)
BY DEF TypeOK, WindowType

LEMMA RequestIs ==
  ASSUME TypeOK, NEW r \in Requests
  PROVE  /\ request[r] \in RequestType /\ request[r].pc \in PCs
         /\ request[r].message \in Optional(Messages) /\ request[r].version \in Versions
         /\ request[r].from \in Optional(Mailboxes) /\ request[r].draft \in Optional(Names)
<1>1. request[r] \in RequestType
  BY DEF TypeOK, RequestType
<1> QED BY <1>1 DEF RequestType

LEMMA DraftIs ==
  ASSUME TypeOK, NEW n \in Names, draft[n] # None
  PROVE  /\ draft[n] \in FileType
         /\ draft[n].message \in Messages /\ draft[n].version \in Versions
         /\ draft[n].mailbox \in Mailboxes
<1>1. draft[n] \in FileType
  BY DEF TypeOK, FileType, Optional
<1> QED BY <1>1 DEF FileType

LEMMA StartShows ==
  ASSUME TypeOK, NEW m \in Messages, StartCompose(m)
  PROVE  Shows(m, 1, window.from, None)
<1>1. 1 \in Versions
  BY ComposeAssumptions DEF Versions, ComposeAssumptions
<1> QED BY <1>1, WindowIs DEF StartCompose, Shows, WindowType, Optional

LEMMA ResponseShows ==
  ASSUME TypeOK, NEW m \in Messages, OpenResponse(m)
  PROVE  Shows(m, 1, window.from, window.draft)
<1>1. 1 \in Versions
  BY ComposeAssumptions DEF Versions, ComposeAssumptions
<1> QED BY <1>1, WindowIs DEF OpenResponse, Shows, WindowType, Optional

LEMMA DiscardShows ==
  ASSUME TypeOK, Discard
  PROVE  Shows(None, 0, window.from, None)
<1>1. 0 \in Versions
  BY ComposeAssumptions DEF Versions, ComposeAssumptions
<1> QED BY <1>1, WindowIs DEF Discard, Closed, Shows, WindowType, Optional

LEMMA ShowDraftShows ==
  ASSUME TypeOK, RequestsFormed, NEW r \in Requests, ShowDraft(r)
  PROVE  Shows(request[r].message, request[r].version, request[r].from, request[r].draft)
<1>1. request[r].from \in Mailboxes
  BY DEF ShowDraft, At, RequestsFormed
<1> QED BY <1>1, RequestIs DEF ShowDraft, Shows, WindowType

\* Editing raises the version or changes the sender, of the message shown.
LEMMA EditShows ==
  ASSUME TypeOK, Edit
  PROVE  LET m == window.message IN
         /\ m \in Messages
         /\ \/ /\ text' = OneMore(text, m) /\ text'[m] = text[m] + 1 /\ text[m] < MaxTexts
               /\ Shows(m, text'[m], window.from, window.draft)
            \/ /\ text' = text
               /\ \E from \in Mailboxes : Shows(m, window.version, from, window.draft)
<1> DEFINE m == window.message
<1>1. m \in Messages
  BY WindowIs DEF Edit, Shown, Optional
<1>2. CASE text[m] < MaxTexts /\ text' = OneMore(text, m)
             /\ window' = [window EXCEPT !.version = text'[m]]
  <2>1. text'[m] = text[m] + 1 /\ text'[m] \in Versions
    BY <1>1, <1>2, ComposeAssumptions DEF OneMore, TypeOK, Versions, ComposeAssumptions
  <2>2. Shows(m, text'[m], window.from, window.draft)
    BY <1>2, <2>1, WindowIs DEF Shows, WindowType
  <2> QED BY <1>1, <1>2, <2>1, <2>2
<1>3. CASE \E from \in Mailboxes \ {window.from} :
             window' = [window EXCEPT !.from = from] /\ UNCHANGED text
  <2>1. PICK from \in Mailboxes : window' = [window EXCEPT !.from = from] /\ text' = text
    BY <1>3
  <2>2. Shows(m, window.version, from, window.draft)
    BY <2>1, WindowIs DEF Shows, WindowType
  <2> QED BY <1>1, <2>1, <2>2
<1> QED BY <1>2, <1>3 DEF Edit

LEMMA AnswerSavedShows ==
  ASSUME TypeOK, NEW r \in Requests, AnswerSaved(r)
  PROVE  Shows(window.message, window.version, window.from, request[r].draft)
BY WindowIs, RequestIs DEF AnswerSaved, Shows, WindowType

LEMMA AnswerSentShows ==
  ASSUME TypeOK, NEW r \in Requests, AnswerSent(r)
  PROVE  Shows(None, 0, window.from, None)
<1>1. 0 \in Versions
  BY ComposeAssumptions DEF Versions, ComposeAssumptions
<1> QED BY <1>1, WindowIs DEF AnswerSent, Closed, Shows, WindowType, Optional

\* A draft goes only if the request names it.
LEMMA DropStep ==
  ASSUME TypeOK, NEW r \in Requests, DropDraft(r)
  PROVE  /\ draft' \in [Names -> Optional(FileType)]
         /\ \A n \in Names : draft'[n] # draft[n] => draft'[n] = None /\ n = request[r].draft
BY DEF DropDraft, TypeOK, Optional, FileType

\* Version v of what request r is about is written to a new file.
LEMMA FileStep ==
  ASSUME TypeOK, RequestsFormed, NEW r \in Requests, ~At(r, "idle"), NEW v \in Versions,
         names < MaxDrafts, names' = names + 1,
         draft' = [draft EXCEPT ![names'] = File(request[r], v)]
  PROVE  /\ names' \in Names /\ names' \notin 1..names /\ draft[names'] = None
         /\ draft' \in [Names -> Optional(FileType)]
         /\ draft'[names'] # None
         /\ draft'[names'].message = request[r].message /\ draft'[names'].version = v
         /\ \A n \in Names : n # names' => draft'[n] = draft[n]
<1>1. names \in Nat /\ names' \in Names /\ names' \notin 1..names
  BY ComposeAssumptions DEF TypeOK, Names, ComposeAssumptions
<1>2. draft[names'] = None
  BY <1>1 DEF TypeOK
<1> DEFINE f == File(request[r], v)
<1>3. f \in FileType /\ f.message = request[r].message /\ f.version = v
  BY DEF File, FileType, RequestsFormed
<1>4. f # None
  BY <1>3, ComposeAssumptions DEF FileType, Versions, ComposeAssumptions
<1>5. draft \in [Names -> Optional(FileType)]
  BY DEF TypeOK, FileType
<1>6. draft' = [draft EXCEPT ![names'] = f]
  OBVIOUS
<1> HIDE DEF f
<1>7. draft'[names'] = f /\ \A n \in Names : n # names' => draft'[n] = draft[n]
  BY <1>1, <1>5, <1>6
<1>8. draft' \in [Names -> Optional(FileType)]
  BY <1>1, <1>3, <1>5, <1>6 DEF Optional
<1> QED BY <1>1, <1>2, <1>3, <1>4, <1>7, <1>8

-----------------------------------------------------------------------------
(* Type correctness.                                                       *)

\* TypeOK, drafts apart.
PlainTypes ==
    /\ window \in WindowType
    /\ text \in [Messages -> Versions]
    /\ sends \in 0..MaxSends
    /\ accepted \in [Messages -> Nat] /\ loose \in [Messages -> Nat]
    /\ filed \in [Messages -> Nat] /\ newest \in [Messages -> Versions]
    /\ saved \in [Messages -> Versions]
    /\ turned \in BOOLEAN /\ carried \subseteq Messages /\ torn \in BOOLEAN

DraftTypes ==
    /\ draft \in [Names -> Optional(FileType)]
    /\ names \in 0..MaxDrafts
    /\ \A n \in Names : draft[n] # None => n <= names

RequestTypes ==
    /\ request \in [Requests -> RequestType]
    /\ \A r \in Requests : ~At(r, "idle") => request[r].message # None

LEMMA TypesAre == TypeOK <=> PlainTypes /\ DraftTypes /\ RequestTypes
BY DEF TypeOK, PlainTypes, DraftTypes, RequestTypes, WindowType, FileType, RequestType

LEMMA RaiseIs ==
  ASSUME NEW f \in [Messages -> Versions], NEW x, x.message \in Messages,
         x.version \in Versions
  PROVE  /\ Raise(f, x) \in [Messages -> Versions]
         /\ \A m \in Messages : Raise(f, x)[m] >= f[m]
         /\ Raise(f, x)[x.message] >= x.version
         /\ \A m \in Messages :
              Raise(f, x)[m] = f[m] \/ (m = x.message /\ Raise(f, x)[m] = x.version)
<1> DEFINE b == IF x.version > f[x.message] THEN x.version ELSE f[x.message]
<1>1. \A v \in Versions : v \in Nat
  BY ComposeAssumptions DEF Versions, ComposeAssumptions
<1> DEFINE old == f[x.message]
<1>0. old \in Versions /\ old \in Nat /\ x.version \in Nat
  BY <1>1
<1> HIDE DEF old
<1>2. b \in Versions /\ b >= old /\ b >= x.version /\ (b = old \/ b = x.version)
  BY <1>0 DEF old
<1> USE DEF old
<1>3. Raise(f, x) = [f EXCEPT ![x.message] = b]
  BY DEF Raise
<1> HIDE DEF b
<1>4. /\ Raise(f, x) \in [Messages -> Versions] /\ Raise(f, x)[x.message] = b
      /\ \A m \in Messages : m # x.message => Raise(f, x)[m] = f[m]
  BY <1>2, <1>3
<1>5. \A m \in Messages : f[m] >= f[m]
  <2> TAKE m \in Messages
  <2>1. f[m] \in Nat
    BY <1>1
  <2> QED BY <2>1
<1>6. ASSUME NEW m \in Messages
      PROVE  /\ Raise(f, x)[m] >= f[m]
             /\ Raise(f, x)[m] = f[m] \/ (m = x.message /\ Raise(f, x)[m] = x.version)
  <2>1. CASE m = x.message
    BY <1>2, <1>4, <2>1 DEF old
  <2>2. CASE m # x.message
    BY <1>4, <1>5, <2>2
  <2> QED BY <2>1, <2>2
<1>7. Raise(f, x)[x.message] >= x.version
  BY <1>2, <1>4
<1> QED BY <1>4, <1>6, <1>7

\* The requests keep their types and are about a message.
LEMMA RequestsKeep ==
  ASSUME TypeOK, RequestsFormed, Next
  PROVE  RequestTypes' /\ RequestsFormed'
<1> USE DEF RequestTypes, RequestsFormed, At
<1>0. None \notin Messages /\ request \in [Requests -> RequestType]
  BY ComposeAssumptions, TypesAre DEF ComposeAssumptions
<1>1. CASE UNCHANGED request
  BY <1>0, <1>1
<1>2. ASSUME NEW r \in Requests, NEW label, SameAt(r, label), ~At(r, "idle")
      PROVE  RequestTypes' /\ RequestsFormed'
  <2>1. request' \in [Requests -> RequestType]
    BY <1>2 DEF SameAt
  <2>2. ASSUME NEW q \in Requests, request'[q].pc # "idle"
        PROVE  /\ request'[q].message \in Messages /\ request'[q].message # None
               /\ request'[q].from \in Mailboxes
    <3>1. CASE q = r
      BY <1>0, <1>2, <3>1 DEF SameAt
    <3>2. CASE q # r
      BY <1>0, <1>2, <2>2, <3>2 DEF SameAt, Others
    <3> QED BY <3>1, <3>2
  <2> QED BY <2>1, <2>2
<1>3. ASSUME NEW r \in Requests, request' \in [Requests -> RequestType],
             request'[r] = Idle, Others(r)
      PROVE  RequestTypes' /\ RequestsFormed'
  BY <1>0, <1>3, IdleIs DEF Others
<1>4. ASSUME NEW r \in Requests, NEW label, AsShown(r, label), window.message # None
      PROVE  RequestTypes' /\ RequestsFormed'
  <2>1. window.message \in Messages /\ window.from \in Mailboxes
    BY <1>4, WindowIs DEF Optional
  <2> QED BY <1>0, <1>4, <2>1 DEF AsShown, Others
<1>5. ASSUME NEW r \in Requests, NEW n \in Names, OpenDraft(r, n)
      PROVE  RequestTypes' /\ RequestsFormed'
  <2>1. /\ Opens(r, n) /\ draft[n].message \in Messages /\ draft[n].mailbox \in Mailboxes
    BY <1>5, OpenStep, DraftIs DEF OpenDraft
  <2>2. ASSUME NEW q \in Requests, request'[q].pc # "idle"
        PROVE  /\ request'[q].message \in Messages /\ request'[q].message # None
               /\ request'[q].from \in Mailboxes
    <3>1. CASE q = r
      BY <1>0, <2>1, <3>1 DEF Opens
    <3>2. CASE q # r
      BY <1>0, <2>1, <2>2, <3>2 DEF Opens, Others
    <3> QED BY <3>1, <3>2
  <2>3. request' \in [Requests -> RequestType]
    BY <2>1 DEF Opens
  <2> QED BY <2>2, <2>3
<1>6. ASSUME NEW r \in Requests, Write(r)
      PROVE  RequestTypes' /\ RequestsFormed'
  BY <1>0, <1>6, WriteStep DEF Writes, Others, Write
<1>7. CASE User
  <2>1. ASSUME NEW r \in Requests, NEW label \in PCs, Ask(r, label)
        PROVE  RequestTypes' /\ RequestsFormed'
    BY <2>1, <1>4, AskStep DEF Ask, Shown
  <2> QED BY <1>1, <1>5, <1>7, <2>1 DEF User, StartCompose, OpenResponse, Discard, Edit, AskSave,
          AskSend, PCs
<1>8. ASSUME NEW r \in Requests, Serve(r)
      PROVE  RequestTypes' /\ RequestsFormed'
  <2>1. ASSUME NEW label \in PCs, Goto(r, label), ~At(r, "idle")
        PROVE  RequestTypes' /\ RequestsFormed'
    BY <2>1, <1>2, GotoStep
  <2>2. CASE Over(r)
    BY <2>2, <1>3, OverStep
  <2> QED BY <1>6, <1>8, <2>1, <2>2
          DEF Serve, ShowDraft, Replace, AnswerSaved, Deliver, FileSent, Clean, AnswerSent,
              PCs
<1>9. ASSUME NEW r \in Requests, Failure(r)
      PROVE  RequestTypes' /\ RequestsFormed'
  BY <1>9, <1>3, OverStep DEF Failure, WriteFails, Abandon, SendFails, Lose
<1> QED BY <1>1, <1>7, <1>8, <1>9 DEF Next, DeliverLoose

\* The drafts keep their types, whatever happens to them.
LEMMA DraftsKeep ==
  ASSUME TypeOK, RequestsFormed, Next
  PROVE  DraftTypes'
<1> USE DEF DraftTypes, maildir
<1>0. DraftTypes
  BY TypesAre
<1>1. CASE UNCHANGED maildir
  BY <1>0, <1>1
<1>2. ASSUME NEW r \in Requests, DropDraft(r), names' = names
      PROVE  DraftTypes'
  BY <1>0, <1>2, DropStep
<1>3. ASSUME NEW r \in Requests, ~At(r, "idle"), NEW v \in Versions,
             names < MaxDrafts, names' = names + 1,
             draft' = [draft EXCEPT ![names'] = File(request[r], v)]
      PROVE  DraftTypes'
  <2>1. /\ names' \in Names /\ draft' \in [Names -> Optional(FileType)]
        /\ \A n \in Names : n # names' => draft'[n] = draft[n]
    BY <1>3, FileStep
  <2>2. names' \in 0..MaxDrafts /\ \A n \in Names : draft'[n] # None => n <= names'
    BY <1>0, <1>3, <2>1, ComposeAssumptions DEF Names, ComposeAssumptions
  <2> QED BY <2>1, <2>2
<1>4. ASSUME NEW r \in Requests, Write(r)
      PROVE  DraftTypes'
  BY <1>3, <1>4, RequestIs DEF Write, At
<1>5. ASSUME NEW r \in Requests, WriteFails(r)
      PROVE  DraftTypes'
  BY <1>1, <1>3, <1>5, ComposeAssumptions
     DEF WriteFails, At, Versions, ComposeAssumptions
<1> QED BY <1>1, <1>2, <1>4, <1>5
        DEF Next, User, Serve, Failure, StartCompose, OpenResponse, Discard, OpenDraft, Edit, AskSave, AskSend,
            ShowDraft, Replace, AnswerSaved, Deliver, FileSent, Clean, AnswerSent, Abandon,
            SendFails, Lose, DeliverLoose

\* So does everything else.
LEMMA PlainKeeps ==
  ASSUME TypeOK, RequestsFormed, Next
  PROVE  PlainTypes'
<1> USE DEF PlainTypes, answers, delivery
<1>0. PlainTypes
  BY TypesAre
<1>1. ASSUME NEW r \in Requests, ~At(r, "idle")
      PROVE  request[r].message \in Messages /\ request[r].version \in Versions
  BY <1>1, RequestIs DEF RequestsFormed
<1>2. ASSUME NEW m \in Messages, StartCompose(m)
      PROVE  PlainTypes'
  <2>1. window' \in WindowType
    BY <1>2, StartShows DEF Shows
  <2>2. text' \in [Messages -> Versions]
    BY <1>0, <1>2, ComposeAssumptions DEF StartCompose, Versions, ComposeAssumptions
  <2> QED BY <1>0, <1>2, <2>1, <2>2 DEF StartCompose
<1>12. ASSUME NEW m \in Messages, OpenResponse(m)
       PROVE  PlainTypes'
  <2>1. window' \in WindowType
    BY <1>12, ResponseShows DEF Shows
  <2>2. text' \in [Messages -> Versions]
    BY <1>0, <1>12, ComposeAssumptions DEF OpenResponse, Versions, ComposeAssumptions
  <2>3. NamedByWindow \subseteq Messages
    BY DraftIs DEF NamedByWindow
  <2> QED BY <1>0, <1>12, <2>1, <2>2, <2>3 DEF OpenResponse
<1>13. CASE Discard
  <2>1. window' \in WindowType
    BY <1>13, DiscardShows DEF Shows
  <2> QED BY <1>0, <1>13, <2>1 DEF Discard
<1>3. CASE Edit
  <2>1. window' \in WindowType
    BY <1>3, EditShows DEF Shows
  <2>2. text' \in [Messages -> Versions]
    BY <1>0, <1>3, EditShows, ComposeAssumptions DEF OneMore, Versions, ComposeAssumptions
  <2> QED BY <1>0, <1>3, <2>1, <2>2 DEF Edit
<1>4. ASSUME NEW r \in Requests, AskSend(r)
      PROVE  PlainTypes'
  <2>1. sends' \in 0..MaxSends
    BY <1>0, <1>4, ComposeAssumptions DEF AskSend, ComposeAssumptions
  <2> QED BY <1>0, <1>4, <2>1 DEF AskSend
<1>5. ASSUME NEW r \in Requests, ShowDraft(r) \/ AnswerSent(r)
      PROVE  PlainTypes'
  <2>1. window' \in WindowType
    BY <1>5, ShowDraftShows, AnswerSentShows DEF Shows
  <2> QED BY <1>0, <1>5, <2>1 DEF ShowDraft, AnswerSent
<1>6. ASSUME NEW r \in Requests, AnswerSaved(r)
      PROVE  PlainTypes'
  <2>1. window' \in WindowType
    BY <1>6, AnswerSavedShows DEF Shows
  <2>2. saved' \in [Messages -> Versions]
    BY <1>0, <1>1, <1>6, RaiseIs DEF AnswerSaved, At
  <2> QED BY <1>0, <1>6, <2>1, <2>2 DEF AnswerSaved
<1>7. ASSUME NEW r \in Requests, Deliver(r)
      PROVE  PlainTypes'
  <2>1. accepted' \in [Messages -> Nat]
    BY <1>0, <1>1, <1>7 DEF Deliver, OneMore, At
  <2> QED BY <1>0, <1>7, <2>1 DEF Deliver
<1>8. ASSUME NEW r \in Requests, Abandon(r)
      PROVE  PlainTypes'
  <2>1. loose' \in [Messages -> Nat]
    BY <1>0, <1>1, <1>8 DEF Abandon, OneMore, At
  <2> QED BY <1>0, <1>8, <2>1 DEF Abandon
<1>9. ASSUME NEW m \in Messages, DeliverLoose(m)
      PROVE  PlainTypes'
  <2>1. loose' \in [Messages -> Nat]
    BY <1>0, <1>9 DEF DeliverLoose
  <2>2. accepted' \in [Messages -> Nat]
    BY <1>0, <1>9 DEF DeliverLoose, OneMore
  <2> QED BY <1>0, <1>9, <2>1, <2>2 DEF DeliverLoose
<1>10. ASSUME NEW r \in Requests, FileSent(r)
       PROVE  PlainTypes'
  <2>1. filed' \in [Messages -> Nat]
    BY <1>0, <1>1, <1>10 DEF FileSent, AddSent, OneMore, At
  <2>2. newest' \in [Messages -> Versions]
    BY <1>0, <1>1, <1>10, RaiseIs DEF FileSent, AddSent, At
  <2> QED BY <1>0, <1>10, <2>1, <2>2 DEF FileSent
<1>11. ASSUME NEW r \in Requests,
              \/ AskSave(r) \/ Replace(r) \/ Write(r) \/ Clean(r) \/ WriteFails(r)
              \/ SendFails(r) \/ Lose(r) \/ \E n \in Names : OpenDraft(r, n)
       PROVE  PlainTypes'
  <2>1. UNCHANGED <<window, text, delivery, sends, saved, turned, carried>> /\ torn' \in BOOLEAN
    BY <1>0, <1>11 DEF AskSave, Replace, Write, Clean, WriteFails, SendFails, Lose, OpenDraft, At
  <2> QED BY <1>0, <2>1
<1> QED BY <1>2, <1>3, <1>4, <1>5, <1>6, <1>7, <1>8, <1>9, <1>10, <1>11,
           <1>12, <1>13
        DEF Next, User, Serve, Failure

LEMMA TypesKeep ==
  ASSUME TypeOK, RequestsFormed, [Next]_vars
  PROVE  TypeOK' /\ RequestsFormed'
<1>1. CASE UNCHANGED vars
  BY <1>1 DEF vars, maildir, delivery, answers, TypeOK, RequestsFormed, At
<1>2. CASE Next
  BY <1>2, PlainKeeps, DraftsKeep, RequestsKeep
     DEF TypeOK, PlainTypes, DraftTypes, RequestTypes, WindowType, FileType, RequestType, At
<1> QED BY <1>1, <1>2

-----------------------------------------------------------------------------
(* The sent folder.                                                        *)

\* One request less is owed a copy, or one more, or none either way.
LEMMA InFileFinite ==
  ASSUME NEW m
  PROVE  IsFiniteSet(InFile(m)) /\ Cardinality(InFile(m)) \in Nat
BY ComposeAssumptions, FS_Subset, FS_CardinalityType DEF InFile, ComposeAssumptions

\* No request begins to be owed a copy.
LEMMA FileShrinks ==
  ASSUME TypeOK, FiledAccounted, filed' = filed, accepted' \in [Messages -> Nat],
         \A m \in Messages : accepted'[m] >= accepted[m] /\ InFile(m)' \subseteq InFile(m)
  PROVE  FiledAccounted'
<1> SUFFICES ASSUME NEW m \in Messages
             PROVE  filed[m] + Cardinality(InFile(m)') <= accepted'[m]
  BY DEF FiledAccounted
<1>1. Cardinality(InFile(m)') <= Cardinality(InFile(m)) /\ Cardinality(InFile(m)') \in Nat
  BY InFileFinite, FS_Subset, FS_CardinalityType
<1>2. filed[m] + Cardinality(InFile(m)) <= accepted[m]
  BY DEF FiledAccounted
<1>3. filed[m] \in Nat /\ accepted[m] \in Nat /\ accepted'[m] \in Nat /\ Cardinality(InFile(m)) \in Nat
  BY InFileFinite DEF TypeOK
<1> QED BY <1>1, <1>2, <1>3

\* Whatever step is taken, at most one request changes, and how.
LEMMA RequestSteps ==
  ASSUME TypeOK, RequestsFormed, Next
  PROVE  \/ UNCHANGED request /\ ((\E m \in Messages : StartCompose(m) \/ OpenResponse(m) \/ DeliverLoose(m))
              \/ Discard \/ Edit)
         \/ \E r \in Requests :
              \/ At(r, "idle") /\ \E n \in Names : OpenDraft(r, n) /\ Opens(r, n)
              \/ At(r, "idle") /\ AskSave(r) /\ AsShown(r, "replace")
              \/ At(r, "idle") /\ AskSend(r) /\ AsShown(r, "smtp")
              \/ At(r, "replace") /\ Replace(r) /\ SameAt(r, "write")
              \/ At(r, "write") /\ Write(r) /\ Writes(r)
              \/ At(r, "smtp") /\ Deliver(r) /\ SameAt(r, "file")
              \/ At(r, "file") /\ FileSent(r) /\ SameAt(r, "clean")
              \/ At(r, "clean") /\ Clean(r) /\ SameAt(r, "sent")
              \/ /\ ~At(r, "idle") /\ request'[r] = Idle /\ Others(r)
                 /\ \/ ShowDraft(r) \/ AnswerSaved(r) \/ AnswerSent(r) \/ Deliver(r)
                    \/ Failure(r)
<1>1. ASSUME NEW r \in Requests, NEW n \in Names, OpenDraft(r, n)
      PROVE  At(r, "idle") /\ Opens(r, n)
  BY <1>1, OpenStep DEF OpenDraft
<1>2. ASSUME NEW r \in Requests, AskSave(r)
      PROVE  At(r, "idle") /\ AsShown(r, "replace")
  BY <1>2, AskStep DEF AskSave, Ask, PCs
<1>3. ASSUME NEW r \in Requests, AskSend(r)
      PROVE  At(r, "idle") /\ AsShown(r, "smtp")
  BY <1>3, AskStep DEF AskSend, Ask, PCs
<1>4. ASSUME NEW r \in Requests, Replace(r)
      PROVE  At(r, "replace") /\ SameAt(r, "write")
  BY <1>4, GotoStep DEF Replace, PCs
<1>5. ASSUME NEW r \in Requests, Write(r)
      PROVE  At(r, "write") /\ Writes(r)
  BY <1>5, WriteStep DEF Write
<1>6. ASSUME NEW r \in Requests, FileSent(r)
      PROVE  At(r, "file") /\ SameAt(r, "clean")
  BY <1>6, GotoStep DEF FileSent, PCs
<1>7. ASSUME NEW r \in Requests, Clean(r)
      PROVE  At(r, "clean") /\ SameAt(r, "sent")
  BY <1>7, GotoStep DEF Clean, PCs
<1>8. ASSUME NEW r \in Requests, Deliver(r)
      PROVE  At(r, "smtp") /\ (SameAt(r, "file") \/ (request'[r] = Idle /\ Others(r)))
  BY <1>8, GotoStep, OverStep DEF Deliver, PCs
<1>9. ASSUME NEW r \in Requests, ShowDraft(r) \/ AnswerSaved(r) \/ AnswerSent(r) \/ Failure(r)
      PROVE  ~At(r, "idle") /\ request'[r] = Idle /\ Others(r)
  BY <1>9, OverStep
     DEF ShowDraft, AnswerSaved, AnswerSent, Failure, WriteFails, Abandon, SendFails, Lose, At
<1>10. ASSUME NEW r \in Requests
       PROVE  At(r, "smtp") => ~At(r, "idle")
  BY DEF At
<1>11. Edit \/ Discard \/ (\E m \in Messages : StartCompose(m) \/ OpenResponse(m) \/ DeliverLoose(m)) =>
         UNCHANGED request
  BY DEF Edit, StartCompose, OpenResponse, Discard, DeliverLoose, vars
<1> QED
  <2>1. CASE User
    BY <2>1, <1>1, <1>2, <1>3, <1>11 DEF User
  <2>2. ASSUME NEW r \in Requests, Serve(r)
        PROVE  \/ At(r, "replace") /\ Replace(r) /\ SameAt(r, "write")
               \/ At(r, "write") /\ Write(r) /\ Writes(r)
               \/ At(r, "smtp") /\ Deliver(r) /\ SameAt(r, "file")
               \/ At(r, "file") /\ FileSent(r) /\ SameAt(r, "clean")
               \/ At(r, "clean") /\ Clean(r) /\ SameAt(r, "sent")
               \/ /\ ~At(r, "idle") /\ request'[r] = Idle /\ Others(r)
                  /\ ShowDraft(r) \/ AnswerSaved(r) \/ AnswerSent(r) \/ Deliver(r)
    BY <2>2, <1>4, <1>5, <1>6, <1>7, <1>8, <1>9, <1>10 DEF Serve
  <2>3. ASSUME NEW r \in Requests, Failure(r)
        PROVE  ~At(r, "idle") /\ request'[r] = Idle /\ Others(r)
    BY <2>3, <1>9
  <2>4. CASE \E m \in Messages : DeliverLoose(m)
    BY <2>4, <1>11
  <2> QED BY <2>1, <2>2, <2>3, <2>4 DEF Next

\* Only a request that is over is idle.
LEMMA IdleKeeps ==
  ASSUME TypeOK, RequestsFormed, IdleNamesNone, Next
  PROVE  IdleNamesNone'
<1> SUFFICES ASSUME NEW q \in Requests, At(q, "idle")'
             PROVE  request'[q].draft = None
  BY DEF IdleNamesNone
<1>1. request'[q] = request[q] \/ request'[q] = Idle
  BY RequestSteps DEF Others, SameAt, AsShown, Writes, Opens, At
<1> QED BY <1>1, IdleIs DEF IdleNamesNone, At

\* One that is accepted is owed a copy; one that files it is no more.
LEMMA FiledKeeps ==
  ASSUME TypeOK, RequestsFormed, FiledAccounted, Next
  PROVE  FiledAccounted'
<1> USE DEF InFile, At
<1>0. /\ filed \in [Messages -> Nat] /\ accepted \in [Messages -> Nat]
      /\ accepted' \in [Messages -> Nat]
  BY PlainKeeps DEF TypeOK, PlainTypes
<1>1. ASSUME NEW r \in Requests, Others(r), request'[r].pc # "file"
      PROVE  \A m \in Messages : InFile(m)' \subseteq InFile(m)
  BY <1>1 DEF Others
<1>2. ASSUME NEW m \in Messages, UNCHANGED accepted \/ accepted' = OneMore(accepted, m)
      PROVE  \A k \in Messages : accepted'[k] >= accepted[k]
  <2> TAKE k \in Messages
  <2>1. accepted[k] \in Nat /\ (accepted'[k] = accepted[k] \/ accepted'[k] = accepted[k] + 1)
    BY <1>0, <1>2 DEF OneMore
  <2> QED BY <2>1
<1>3. CASE UNCHANGED request /\ ((\E m \in Messages : StartCompose(m) \/ OpenResponse(m) \/ DeliverLoose(m))
              \/ Discard \/ Edit)
  <2>1. \A m \in Messages : InFile(m)' \subseteq InFile(m)
    BY <1>3
  <2>2. filed' = filed /\ (UNCHANGED accepted \/ \E m \in Messages : accepted' = OneMore(accepted, m))
    BY <1>3 DEF StartCompose, OpenResponse, Discard, DeliverLoose, Edit, delivery
  <2>3. \A k \in Messages : accepted'[k] >= accepted[k]
    BY <1>0, <1>2, <2>2
  <2> QED BY <1>0, <2>1, <2>2, <2>3, FileShrinks
<1>4. ASSUME NEW r \in Requests, At(r, "smtp"), Deliver(r), SameAt(r, "file")
      PROVE  FiledAccounted'
  <2>0. PICK k \in Messages : k = request[r].message
    BY <1>4 DEF RequestsFormed
  <2>1. filed' = filed /\ accepted' = OneMore(accepted, k)
    BY <1>4, <2>0 DEF Deliver
  <2>2. InFile(k)' = InFile(k) \cup {r} /\ r \notin InFile(k)
    BY <1>4, <2>0 DEF SameAt, Others
  <2>3. \A m \in Messages \ {k} : InFile(m)' = InFile(m)
    BY <1>4, <2>0 DEF SameAt, Others
  <2> HIDE DEF InFile
  <2>4. Cardinality(InFile(k)') = Cardinality(InFile(k)) + 1
    BY <2>2, InFileFinite, FS_AddElement
  <2> SUFFICES ASSUME NEW m \in Messages
               PROVE  filed[m] + Cardinality(InFile(m)') <= accepted'[m]
    BY <2>1 DEF FiledAccounted
  <2>5. /\ filed[m] + Cardinality(InFile(m)) <= accepted[m] /\ filed[m] \in Nat
        /\ accepted[m] \in Nat /\ Cardinality(InFile(m)) \in Nat
    BY <1>0, InFileFinite DEF FiledAccounted
  <2>6. accepted'[m] = IF m = k THEN accepted[m] + 1 ELSE accepted[m]
    BY <1>0, <2>1 DEF OneMore
  <2>7. Cardinality(InFile(m)') = IF m = k THEN Cardinality(InFile(m)) + 1 ELSE Cardinality(InFile(m))
    BY <2>3, <2>4
  <2> QED BY <2>5, <2>6, <2>7
<1>5. ASSUME NEW r \in Requests, At(r, "file"), FileSent(r), SameAt(r, "clean")
      PROVE  FiledAccounted'
  <2>0. PICK k \in Messages : k = request[r].message
    BY <1>5 DEF RequestsFormed
  <2>1. filed' = OneMore(filed, k) /\ accepted' = accepted
    BY <1>5, <2>0 DEF FileSent, AddSent
  <2>2. InFile(k)' = InFile(k) \ {r} /\ r \in InFile(k)
    BY <1>5, <2>0 DEF SameAt, Others
  <2>3. \A m \in Messages \ {k} : InFile(m)' = InFile(m)
    BY <1>5, <2>0 DEF SameAt, Others
  <2> HIDE DEF InFile
  <2>4. Cardinality(InFile(k)') = Cardinality(InFile(k)) - 1
    BY <2>2, InFileFinite, FS_RemoveElement
  <2> SUFFICES ASSUME NEW m \in Messages
               PROVE  filed'[m] + Cardinality(InFile(m)') <= accepted[m]
    BY <2>1 DEF FiledAccounted
  <2>5. /\ filed[m] + Cardinality(InFile(m)) <= accepted[m] /\ filed[m] \in Nat
        /\ accepted[m] \in Nat /\ Cardinality(InFile(m)) \in Nat
    BY <1>0, InFileFinite DEF FiledAccounted
  <2>6. filed'[m] = IF m = k THEN filed[m] + 1 ELSE filed[m]
    BY <1>0, <2>1 DEF OneMore
  <2>7. Cardinality(InFile(m)') = IF m = k THEN Cardinality(InFile(m)) - 1 ELSE Cardinality(InFile(m))
    BY <2>3, <2>4
  <2> QED BY <2>5, <2>6, <2>7
<1>6. ASSUME NEW r \in Requests, Others(r), request'[r].pc # "file", filed' = filed,
             UNCHANGED accepted \/ \E m \in Messages : accepted' = OneMore(accepted, m)
      PROVE  FiledAccounted'
  <2>1. \A m \in Messages : InFile(m)' \subseteq InFile(m)
    BY <1>1, <1>6
  <2>2. \A k \in Messages : accepted'[k] >= accepted[k]
    BY <1>0, <1>2, <1>6
  <2> QED BY <1>0, <1>6, <2>1, <2>2, FileShrinks
<1>7. ASSUME NEW r \in Requests,
             \/ (\E n \in Names : OpenDraft(r, n) /\ Opens(r, n))
             \/ AskSave(r) /\ AsShown(r, "replace")
             \/ AskSend(r) /\ AsShown(r, "smtp")
             \/ Replace(r) /\ SameAt(r, "write")
             \/ Write(r) /\ Writes(r)
             \/ Clean(r) /\ SameAt(r, "sent")
      PROVE  FiledAccounted'
  <2>1. UNCHANGED delivery
    BY <1>7 DEF OpenDraft, AskSave, AskSend, Replace, Write, Clean
  <2>2. Others(r) /\ request'[r].pc # "file"
    BY <1>7 DEF Opens, AsShown, SameAt, Writes
  <2> QED BY <2>1, <2>2, <1>6 DEF delivery
<1>8. ASSUME NEW r \in Requests, ~At(r, "idle"), request'[r] = Idle, Others(r),
             \/ ShowDraft(r) \/ AnswerSaved(r) \/ AnswerSent(r) \/ Deliver(r) \/ Failure(r)
      PROVE  FiledAccounted'
  <2>1. request[r].message \in Messages
    BY <1>8 DEF RequestsFormed
  <2>2. filed' = filed /\ (UNCHANGED accepted \/ accepted' = OneMore(accepted, request[r].message))
    BY <1>8 DEF ShowDraft, AnswerSaved, AnswerSent, Deliver, Failure, WriteFails, Abandon,
                SendFails, Lose, delivery
  <2> QED BY <1>6, <1>8, <2>1, <2>2, IdleIs
<1> QED BY <1>3, <1>4, <1>5, <1>7, <1>8, RequestSteps

\* The copy that was filed is at least as new as the text of the request.
LEMMA FiledIsNewKeeps ==
  ASSUME TypeOK, RequestsFormed, FiledIsNew, Next
  PROVE  FiledIsNew'
<1> USE DEF At
<1>0. /\ newest \in [Messages -> Versions]
      /\ \A v \in Versions : v \in Nat
  BY ComposeAssumptions DEF TypeOK, Versions, ComposeAssumptions
<1>1. ASSUME NEW r \in Requests, Others(r), request'[r].pc \notin {"clean", "sent"},
             newest' = newest
      PROVE  FiledIsNew'
  BY <1>1 DEF FiledIsNew, Others
<1>2. ASSUME NEW r \in Requests, FileSent(r), SameAt(r, "clean"), request[r].pc = "file"
      PROVE  FiledIsNew'
  <2>1. request[r].message \in Messages /\ request[r].version \in Versions
    BY <1>2, RequestIs DEF RequestsFormed
  <2>2. newest' = Raise(newest, request[r])
    BY <1>2 DEF FileSent, AddSent
  <2>3. /\ \A m \in Messages : newest'[m] >= newest[m]
        /\ newest'[request[r].message] >= request[r].version
        /\ newest' \in [Messages -> Versions]
    BY <1>0, <2>1, <2>2, RaiseIs
  <2> SUFFICES ASSUME NEW q \in Requests, request'[q].pc \in {"clean", "sent"}
               PROVE  newest'[request'[q].message] >= request'[q].version
    BY DEF FiledIsNew
  <2>4. CASE q = r
    BY <1>2, <2>3, <2>4 DEF SameAt
  <2>5. CASE q # r
    <3>1. request'[q] = request[q]
      BY <1>2, <2>5 DEF SameAt, Others
    <3>2. /\ request[q].message \in Messages /\ request[q].version \in Nat
          /\ newest[request[q].message] >= request[q].version
      BY <3>1, <1>0, RequestIs DEF RequestsFormed, FiledIsNew
    <3>3. newest[request[q].message] \in Nat /\ newest'[request[q].message] \in Nat
      BY <1>0, <2>3, <3>2
    <3>4. newest'[request[q].message] >= newest[request[q].message]
      BY <2>3, <3>2
    <3> QED BY <3>1, <3>2, <3>3, <3>4
  <2> QED BY <2>4, <2>5
<1>3. ASSUME NEW r \in Requests, Clean(r), SameAt(r, "sent"), request[r].pc = "clean"
      PROVE  FiledIsNew'
  BY <1>3 DEF FiledIsNew, SameAt, Others, Clean, delivery
<1>4. CASE UNCHANGED request /\ ((\E m \in Messages : StartCompose(m) \/ OpenResponse(m) \/ DeliverLoose(m))
              \/ Discard \/ Edit)
  BY <1>4 DEF FiledIsNew, StartCompose, OpenResponse, Discard, DeliverLoose, Edit, delivery
<1>5. ASSUME NEW r \in Requests,
             \/ (\E n \in Names : OpenDraft(r, n) /\ Opens(r, n))
             \/ AskSave(r) /\ AsShown(r, "replace")
             \/ AskSend(r) /\ AsShown(r, "smtp")
             \/ Replace(r) /\ SameAt(r, "write")
             \/ Write(r) /\ Writes(r)
             \/ Deliver(r) /\ SameAt(r, "file")
      PROVE  FiledIsNew'
  <2>1. newest' = newest
    BY <1>5 DEF OpenDraft, AskSave, AskSend, Replace, Write, Deliver, delivery
  <2>2. Others(r) /\ request'[r].pc \notin {"clean", "sent"}
    BY <1>5 DEF Opens, AsShown, SameAt, Writes
  <2> QED BY <1>1, <2>1, <2>2
<1>6. ASSUME NEW r \in Requests, request'[r] = Idle, Others(r),
             \/ ShowDraft(r) \/ AnswerSaved(r) \/ AnswerSent(r) \/ Deliver(r) \/ Failure(r)
      PROVE  FiledIsNew'
  <2>1. newest' = newest
    BY <1>6 DEF ShowDraft, AnswerSaved, AnswerSent, Deliver, Failure, WriteFails, Abandon,
                SendFails, Lose, delivery
  <2> QED BY <1>1, <1>6, <2>1, IdleIs
<1> QED BY <1>2, <1>3, <1>4, <1>5, <1>6, RequestSteps

-----------------------------------------------------------------------------
(* Drafts and their owners.                                                *)

\* What happens to drafts: one is removed, or one is written under a new name
\* for the message of a request, and not newer than it.
LEMMA DraftSteps ==
  ASSUME TypeOK, RequestsFormed, Next
  PROVE  /\ names \in Nat /\ names' \in Nat /\ names <= names'
         /\ \A n \in 1..names : n \in Names /\ (draft'[n] = None \/ draft'[n] = draft[n])
         /\ \A n \in Names : draft'[n] # None /\ draft'[n] # draft[n] =>
              \E r \in Requests : /\ ~At(r, "idle")
                                  /\ draft'[n].message = request[r].message
                                  /\ draft'[n].version <= request[r].version
<1> DEFINE Goal ==
      /\ names <= names'
      /\ \A n \in 1..names : draft'[n] = None \/ draft'[n] = draft[n]
      /\ \A n \in Names : draft'[n] # None /\ draft'[n] # draft[n] =>
           \E r \in Requests : /\ ~At(r, "idle")
                               /\ draft'[n].message = request[r].message
                               /\ draft'[n].version <= request[r].version
<1>0. /\ names \in Nat /\ names' \in Nat
      /\ \A n \in 1..names : n \in Names
  <2>1. names \in 0..MaxDrafts /\ names' \in 0..MaxDrafts
    BY DraftsKeep, TypesAre DEF DraftTypes
  <2> QED BY <2>1, ComposeAssumptions DEF Names, ComposeAssumptions
<1>1. CASE UNCHANGED maildir
  BY <1>0, <1>1 DEF maildir
<1>2. ASSUME NEW r \in Requests, DropDraft(r), names' = names
      PROVE  Goal
  BY <1>0, <1>2, DropStep
<1>3. ASSUME NEW r \in Requests, ~At(r, "idle"), NEW v \in Versions, v <= request[r].version,
             names < MaxDrafts, names' = names + 1,
             draft' = [draft EXCEPT ![names'] = File(request[r], v)]
      PROVE  Goal
  <2>1. /\ names' \notin 1..names /\ draft'[names'].message = request[r].message
        /\ draft'[names'].version = v
        /\ \A n \in Names : n # names' => draft'[n] = draft[n]
    BY <1>3, FileStep
  <2>2. ASSUME NEW n \in 1..names
        PROVE  draft'[n] = draft[n]
    BY <1>0, <2>1
  <2>3. ASSUME NEW n \in Names, draft'[n] # draft[n]
        PROVE  /\ ~At(r, "idle") /\ draft'[n].message = request[r].message
               /\ draft'[n].version <= request[r].version
    BY <1>3, <2>1, <2>3
  <2>4. names <= names'
    BY <1>0, <1>3
  <2> QED BY <2>2, <2>3, <2>4
<1>4. ASSUME NEW r \in Requests, Write(r) \/ WriteFails(r)
      PROVE  Goal
  <2>1. /\ ~At(r, "idle") /\ request[r].version \in Versions /\ 0 \in Versions
        /\ 0 <= request[r].version /\ request[r].version <= request[r].version
    BY <1>4, RequestIs, ComposeAssumptions
       DEF Write, WriteFails, At, Versions, ComposeAssumptions
  <2>2. CASE Write(r)
    BY <1>3, <2>1, <2>2 DEF Write
  <2>3. CASE WriteFails(r)
    BY <1>1, <1>3, <2>1, <2>3 DEF WriteFails
  <2> QED BY <1>4, <2>2, <2>3
<1>5. UNCHANGED maildir \/ \E r \in Requests :
        (DropDraft(r) /\ names' = names) \/ Write(r) \/ WriteFails(r)
  BY DEF Next, User, Serve, Failure, StartCompose, OpenResponse, Discard, OpenDraft, Edit, AskSave, AskSend,
         ShowDraft, Replace, AnswerSaved, Deliver, FileSent, Clean, AnswerSent, Abandon,
         SendFails, Lose, DeliverLoose, maildir
<1>6. Goal
  BY <1>1, <1>2, <1>4, <1>5
<1> QED BY <1>0, <1>6

\* What was taken along stays so.
LEMMA CarriedGrows ==
  ASSUME Next
  PROVE  carried \subseteq carried'
BY DEF Next, User, Serve, Failure, StartCompose, OpenResponse, Discard, OpenDraft, Edit, AskSave,
       AskSend, ShowDraft, Replace, Write, AnswerSaved, Deliver, FileSent, Clean, AnswerSent,
       WriteFails, Abandon, SendFails, Lose, DeliverLoose, answers

\* What is owned stays so.
LEMMA OwnLasts ==
  ASSUME TypeOK, RequestsFormed, Next, NEW y, y.draft \in Optional(1..names),
         Own(y, draft, carried)
  PROVE  Own(y, draft', carried') /\ y.draft \in Optional(1..names')
<1>1. y.draft = None \/ (y.draft \in 1..names /\ y.draft \in 1..names')
  BY DraftSteps DEF Optional
<1>2. y.draft \in 1..names => draft'[y.draft] = None \/ draft'[y.draft] = draft[y.draft]
  BY DraftSteps
<1> QED BY <1>1, <1>2, CarriedGrows DEF Own, Optional

\* The window and the requests name drafts that were written.
LEMMA NamesKeep ==
  ASSUME TypeOK, RequestsFormed, NamesUsed, Next
  PROVE  NamesUsed'
<1>0. \A d : d \in Optional(1..names) => d \in Optional(1..names')
  BY DraftSteps DEF Optional
<1>1. None \in Optional(1..names')
  BY DEF Optional
<1>2. window'.draft \in Optional(1..names')
  <2>1. ASSUME NEW m \in Messages, StartCompose(m)
        PROVE  window'.draft = None
    BY <2>1, StartShows DEF Shows
  <2>6. ASSUME NEW m \in Messages, OpenResponse(m)
        PROVE  window'.draft = window.draft
    BY <2>6, ResponseShows DEF Shows
  <2>7. CASE Discard
    BY <2>7, <1>1, DiscardShows DEF Shows
  <2>2. CASE Edit
    BY <2>2, <1>0, EditShows DEF NamesUsed, Shows
  <2>3. ASSUME NEW r \in Requests, ShowDraft(r) \/ AnswerSaved(r)
        PROVE  window'.draft = request[r].draft
    BY <2>3, ShowDraftShows, AnswerSavedShows DEF Shows
  <2>4. ASSUME NEW r \in Requests, AnswerSent(r)
        PROVE  window'.draft = None
    BY <2>4, AnswerSentShows DEF Shows
  <2>5. \/ Edit \/ Discard \/ \E m \in Messages : StartCompose(m) \/ OpenResponse(m)
        \/ \E r \in Requests : ShowDraft(r) \/ AnswerSaved(r) \/ AnswerSent(r)
        \/ UNCHANGED window
    BY DEF Next, User, Serve, Failure, OpenDraft, AskSave, AskSend, Replace, Write, Deliver,
           FileSent, Clean, WriteFails, Abandon, SendFails, Lose, DeliverLoose
  <2> QED BY <1>0, <1>1, <2>1, <2>2, <2>3, <2>4, <2>5, <2>6, <2>7 DEF NamesUsed
<1>3. ASSUME NEW r \in Requests, Others(r), request'[r].draft \in Optional(1..names')
      PROVE  \A q \in Requests : request'[q].draft \in Optional(1..names')
  BY <1>0, <1>3 DEF NamesUsed, Others
<1>4. \A q \in Requests : request'[q].draft \in Optional(1..names')
  <2>1. ASSUME NEW r \in Requests,
               \/ AsShown(r, "replace") \/ AsShown(r, "smtp")
               \/ SameAt(r, "write") \/ SameAt(r, "file") \/ SameAt(r, "clean") \/ SameAt(r, "sent")
        PROVE  Others(r) /\ request'[r].draft \in Optional(1..names')
    BY <2>1, <1>0 DEF AsShown, SameAt, NamesUsed
  <2>2. ASSUME NEW r \in Requests, NEW n \in Names, OpenDraft(r, n), Opens(r, n)
        PROVE  Others(r) /\ request'[r].draft \in Optional(1..names')
    <3>1. n \in 1..names
      BY <2>2 DEF OpenDraft, TypeOK, Names
    <3> QED BY <2>2, <3>1, <1>0 DEF Opens, Optional
  <2>3. ASSUME NEW r \in Requests, Write(r), Writes(r)
        PROVE  Others(r) /\ request'[r].draft \in Optional(1..names')
    <3>1. names' \in 1..names'
      BY <2>3, DraftSteps DEF Write
    <3> QED BY <2>3, <3>1 DEF Writes, Optional
  <2>4. UNCHANGED request => \A q \in Requests : request'[q].draft \in Optional(1..names')
    BY <1>0 DEF NamesUsed
  <2>5. Idle.draft \in Optional(1..names')
    BY <1>1, IdleIs
  <2> QED BY <1>3, <2>1, <2>2, <2>3, <2>4, <2>5, RequestSteps
<1> QED BY <1>2, <1>4 DEF NamesUsed

\* Texts only grow, and nothing is newer than the text.
LEMMA TextKeeps ==
  ASSUME TypeOK, RequestsFormed, TextNewest, Next
  PROVE  TextNewest'
<1>0. /\ \A v \in Versions : v \in Nat
      /\ text \in [Messages -> Versions] /\ text' \in [Messages -> Versions]
      /\ None \notin Messages
  <2>1. text \in [Messages -> Versions] /\ text' \in [Messages -> Versions]
    BY PlainKeeps, TypesAre DEF PlainTypes
  <2> QED BY <2>1, ComposeAssumptions DEF Versions, ComposeAssumptions
<1>1. ASSUME NEW m \in Messages
      PROVE  text'[m] \in Nat /\ text[m] \in Nat /\ text'[m] >= text[m]
  <2>1. text[m] \in Nat /\ text'[m] \in Nat
    BY <1>0
  <2>2. CASE text' = text
    BY <2>1, <2>2
  <2>3. ASSUME NEW k \in Messages, StartCompose(k) \/ OpenResponse(k)
        PROVE  text'[m] >= text[m]
    BY <1>0, <2>1, <2>3 DEF StartCompose, OpenResponse
  <2>4. CASE Edit
    BY <1>0, <2>1, <2>4, EditShows DEF OneMore
  <2>5. text' = text \/ Edit \/ \E k \in Messages : StartCompose(k) \/ OpenResponse(k)
    BY DEF Next, User, Serve, Failure, Discard, OpenDraft, AskSave, AskSend, ShowDraft, Replace, Write,
           AnswerSaved, Deliver, FileSent, Clean, AnswerSent, WriteFails, Abandon, SendFails,
           Lose, DeliverLoose
  <2> QED BY <2>1, <2>2, <2>3, <2>4, <2>5
<1>2. ASSUME NEW m \in Messages, NEW v \in Nat, v <= text[m]
      PROVE  v <= text'[m]
  BY <1>1, <1>2
<1>3. ASSUME NEW r \in Requests, ~At(r, "idle")
      PROVE  /\ request[r].message \in Messages /\ request[r].version \in Nat
             /\ request[r].version <= text[request[r].message]
             /\ request[r].version <= text'[request[r].message]
  BY <1>0, <1>2, <1>3, RequestIs DEF RequestsFormed, TextNewest
<1>4. window'.message # None => window'.version <= text'[window'.message]
  <2>8. CASE Discard
    BY <2>8, DiscardShows DEF Shows
  <2>1. ASSUME NEW m \in Messages, StartCompose(m) \/ OpenResponse(m)
        PROVE  window'.version <= text'[window'.message]
    <3>1. window'.message = m /\ window'.version = 1
      BY <2>1, StartShows, ResponseShows DEF Shows
    <3>2. text'[m] = 1
      BY <1>0, <2>1 DEF StartCompose, OpenResponse
    <3> QED BY <3>1, <3>2
  <2>2. window.message \in Messages => window.version <= text'[window.message]
    BY <1>0, <1>2, WindowIs DEF TextNewest
  <2>3. CASE Edit
    <3>1. window'.message = window.message /\ window.message \in Messages
      BY <2>3, EditShows DEF Shows
    <3>2. \/ window'.version = text'[window.message]
          \/ window'.version = window.version
      BY <2>3, EditShows DEF Shows
    <3> QED BY <1>1, <2>2, <3>1, <3>2
  <2>4. ASSUME NEW r \in Requests, ShowDraft(r)
        PROVE  window'.version <= text'[window'.message]
    <3>1. window'.message = request[r].message /\ window'.version = request[r].version
      BY <2>4, ShowDraftShows DEF Shows
    <3> QED BY <1>3, <2>4, <3>1 DEF ShowDraft, At
  <2>5. ASSUME NEW r \in Requests, AnswerSaved(r)
        PROVE  window'.message = window.message /\ window'.version = window.version
    BY <2>5, AnswerSavedShows DEF Shows
  <2>6. ASSUME NEW r \in Requests, AnswerSent(r)
        PROVE  window'.message = None
    BY <2>6, AnswerSentShows DEF Shows
  <2>7. \/ Edit \/ Discard \/ \E m \in Messages : StartCompose(m) \/ OpenResponse(m)
        \/ \E r \in Requests : ShowDraft(r) \/ AnswerSaved(r) \/ AnswerSent(r)
        \/ UNCHANGED window
    BY DEF Next, User, Serve, Failure, OpenDraft, AskSave, AskSend, Replace, Write, Deliver,
           FileSent, Clean, WriteFails, Abandon, SendFails, Lose, DeliverLoose
  <2> QED BY <2>1, <2>2, <2>3, <2>4, <2>5, <2>6, <2>7, <2>8, WindowIs DEF Optional
<1>5. ASSUME NEW q \in Requests, ~At(q, "idle")'
      PROVE  request'[q].version <= text'[request'[q].message]
  <2>1. CASE request'[q] = request[q]
    BY <1>3, <1>5, <2>1 DEF At
  <2>2. CASE /\ ~At(q, "idle") /\ request'[q].version = request[q].version
             /\ request'[q].message = request[q].message
    BY <1>3, <2>2
  <2>3. CASE /\ request'[q].message = window.message /\ request'[q].version = window.version
             /\ window.message \in Messages
    BY <1>0, <1>2, <2>3, WindowIs DEF TextNewest
  <2>4. ASSUME NEW n \in Names, OpenDraft(q, n), Opens(q, n)
        PROVE  request'[q].version <= text'[request'[q].message]
    <3>1. /\ draft[n].message \in Messages /\ draft[n].version \in Nat
          /\ draft[n].version <= text[draft[n].message]
      BY <1>0, <2>4, DraftIs DEF OpenDraft, TextNewest
    <3> QED BY <1>2, <2>4, <3>1 DEF Opens
  <2>5. ASSUME NEW r \in Requests, AskSave(r) \/ AskSend(r)
        PROVE  window.message \in Messages
    BY <2>5, WindowIs DEF AskSave, AskSend, Ask, Shown, Optional
  <2>6. request'[q] # Idle
    BY <1>5, IdleIs DEF At
  <2> QED BY <2>1, <2>2, <2>3, <2>4, <2>5, <2>6, RequestSteps
          DEF Others, SameAt, AsShown, Writes, Opens, At
<1>6. ASSUME NEW n \in Names, draft'[n] # None
      PROVE  draft'[n].version <= text'[draft'[n].message]
  <2>1. CASE draft'[n] = draft[n]
    BY <1>0, <1>2, <1>6, <2>1, DraftIs DEF TextNewest
  <2>2. CASE draft'[n] # draft[n]
    <3>1. PICK r \in Requests : /\ ~At(r, "idle")
                                /\ draft'[n].message = request[r].message
                                /\ draft'[n].version <= request[r].version
      BY <1>6, <2>2, DraftSteps
    <3>2. draft'[n].version \in Nat
      <4>1. draft'[n] \in FileType
        BY <1>6, DraftsKeep DEF DraftTypes, Optional
      <4> QED BY <1>0, <4>1 DEF FileType
    <3>3. text'[request[r].message] \in Nat
      BY <1>1, <1>3, <3>1
    <3> QED BY <1>3, <3>1, <3>2, <3>3
  <2> QED BY <2>1, <2>2
<1> QED BY <1>4, <1>5, <1>6 DEF TextNewest

\* What a request that is served may count on while the window has not turned.
ShownStill(r) ==
    request[r].pc \notin {"idle", "opened"} =>
      \/ window.message = None
      \/ /\ window.message = request[r].message
         /\ request[r].version <= window.version

\* The window and the requests go on naming drafts of their own.
LEMMA OwnKeeps ==
  ASSUME TypeOK, RequestsFormed, NamesUsed, TextNewest, OwnDrafts, Next
  PROVE  OwnDrafts'
<1> SUFFICES ASSUME ~turned'
             PROVE  /\ Own(window', draft', carried')
                    /\ \A r \in Requests : Own(request'[r], draft', carried')
                    /\ \A r \in Requests : request'[r].pc \notin {"idle", "opened"} =>
                         \/ window'.message = None
                         \/ /\ window'.message = request'[r].message
                            /\ request'[r].version <= window'.version
  BY DEF OwnDrafts
<1>1. ~turned
  BY DEF Next, User, Serve, Failure, StartCompose, OpenResponse, Discard, OpenDraft, Edit, AskSave, AskSend, ShowDraft,
         Replace, Write, AnswerSaved, Deliver, FileSent, Clean, AnswerSent, WriteFails, Abandon,
         SendFails, Lose, DeliverLoose, answers
<1>2. /\ Own(window, draft, carried) /\ \A r \in Requests : Own(request[r], draft, carried)
      /\ \A r \in Requests : ShownStill(r)
  BY <1>1 DEF OwnDrafts, ShownStill
<1>3. /\ Own(window, draft', carried') /\ \A r \in Requests : Own(request[r], draft', carried')
  BY <1>2, OwnLasts DEF NamesUsed
<1>4. None \notin Messages /\ None \notin Names /\ \A v \in Versions : v \in Nat
  BY ComposeAssumptions DEF Versions, Names, ComposeAssumptions
<1>5. window.message \in Messages \cup {None} /\ window.version \in Nat
  BY <1>4, WindowIs DEF Optional
<1>6. ASSUME NEW m \in Messages, StartCompose(m)
      PROVE  /\ window'.draft = None /\ \A r \in Requests : request'[r].pc = "idle"
             /\ request' = request
  BY <1>6, StartShows DEF Shows, StartCompose, Busy, At
<1>16. ASSUME NEW m \in Messages, OpenResponse(m)
       PROVE  /\ Own(window', draft', carried') /\ \A r \in Requests : request'[r].pc = "idle"
              /\ request' = request
  <2>1. draft' = draft /\ carried' = carried \cup NamedByWindow
    BY <1>16 DEF OpenResponse, maildir
  <2>2. window'.draft = window.draft /\ window.draft \in Optional(Names)
    BY <1>16, ResponseShows, WindowIs DEF Shows
  <2>3. Own(window', draft', carried')
    BY <2>1, <2>2 DEF Own, Optional, NamedByWindow
  <2> QED BY <1>16, <2>3 DEF OpenResponse, Busy, At
<1>7. ASSUME NEW r \in Requests, ShowDraft(r), request'[r] = Idle, Others(r)
      PROVE  /\ window'.message = request[r].message /\ window'.version = request[r].version
             /\ window'.draft = request[r].draft
             /\ \A q \in Requests : request'[q].pc = "idle"
  <2>1. /\ window'.message = request[r].message /\ window'.version = request[r].version
        /\ window'.draft = request[r].draft
    BY <1>7, ShowDraftShows DEF Shows
  <2>2. \A q \in Requests : q # r => request[q].pc = "idle"
    BY <1>7 DEF ShowDraft, Busy, At
  <2> QED BY <1>7, <2>1, <2>2, IdleIs DEF Others
<1>8. CASE Edit
  <2>1. /\ window.message \in Messages /\ window'.message = window.message
        /\ window'.draft = window.draft /\ window'.version >= window.version
        /\ window'.version \in Nat
    <3>1. /\ window.message \in Messages /\ window'.message = window.message
          /\ window'.draft = window.draft /\ window' \in WindowType
      BY <1>8, EditShows DEF Shows
    <3>2. \/ window'.version = text[window.message] + 1
          \/ window'.version = window.version
      BY <1>8, EditShows DEF Shows
    <3>3. window.version <= text[window.message] /\ text[window.message] \in Nat
      BY <1>4, <3>1, TypesAre DEF TextNewest, PlainTypes
    <3>4. window'.version \in Nat
      BY <1>4, <3>1 DEF WindowType
    <3> QED BY <1>5, <3>1, <3>2, <3>3, <3>4
  <2>2. request' = request /\ draft' = draft /\ carried' = carried
    BY <1>8 DEF Edit, maildir, answers
  <2>3. Own(window', draft', carried')
    <3>1. window.draft \in Names /\ draft[window.draft] # None =>
            draft[window.draft].version \in Nat
      BY <1>4, DraftIs
    <3>2. window.draft \in Optional(Names)
      BY WindowIs
    <3> QED BY <1>2, <1>5, <2>1, <2>2, <3>1, <3>2 DEF Own, Optional
  <2>4. ASSUME NEW r \in Requests, request'[r].pc \notin {"idle", "opened"}
        PROVE  \/ window'.message = None
               \/ /\ window'.message = request'[r].message
                  /\ request'[r].version <= window'.version
    <3>1. request[r].version \in Nat
      BY <1>4, RequestIs
    <3> QED BY <1>2, <1>4, <1>5, <2>1, <2>2, <2>4, <3>1 DEF ShownStill
  <2> QED BY <1>3, <2>2, <2>3, <2>4
<1>9. ASSUME NEW r \in Requests, AnswerSaved(r), request'[r] = Idle, Others(r)
      PROVE  /\ Own(window', draft', carried') /\ window'.message = window.message
             /\ window'.version = window.version
  <2>1. /\ window'.message = window.message /\ window'.version = window.version
        /\ window'.draft = request[r].draft
    BY <1>9, AnswerSavedShows DEF Shows
  <2>2. \/ window.message = None
        \/ window.message = request[r].message /\ request[r].version <= window.version
    BY <1>2, <1>9 DEF ShownStill, AnswerSaved, At
  <2>3. request[r].draft \in Names /\ draft'[request[r].draft] # None =>
          draft'[request[r].draft].version \in Nat
    <3>1. draft' \in [Names -> Optional(FileType)]
      BY DraftsKeep DEF DraftTypes
    <3> QED BY <1>4, <3>1 DEF FileType, Optional
  <2>4. request[r].draft \in Optional(Names) /\ request[r].version \in Nat
    BY <1>4, RequestIs
  <2> QED BY <1>3, <1>5, <2>1, <2>2, <2>3, <2>4 DEF Own, Optional
<1>10. ASSUME NEW r \in Requests, AnswerSent(r)
       PROVE  window'.message = None
  BY <1>10, AnswerSentShows DEF Shows
<1>11. \/ Edit \/ Discard \/ UNCHANGED window
       \/ \E m \in Messages : StartCompose(m) \/ OpenResponse(m)
       \/ \E r \in Requests : ShowDraft(r) \/ AnswerSaved(r) \/ AnswerSent(r)
  BY DEF Next, User, Serve, Failure, OpenDraft, AskSave, AskSend, Replace, Write, Deliver,
         FileSent, Clean, WriteFails, Abandon, SendFails, Lose, DeliverLoose
<1>12. ASSUME NEW r \in Requests, ~At(r, "idle"),
              ShowDraft(r) \/ AnswerSaved(r) \/ AnswerSent(r)
       PROVE  request'[r] = Idle /\ Others(r)
  BY <1>12, OverStep DEF ShowDraft, AnswerSaved, AnswerSent
<1>13. Own(window', draft', carried')
  <2>1. ASSUME NEW m \in Messages, StartCompose(m)
        PROVE  Own(window', draft', carried')
    BY <1>6, <2>1 DEF Own
  <2>2. ASSUME NEW r \in Requests, ShowDraft(r)
        PROVE  Own(window', draft', carried')
    BY <1>3, <1>7, <1>12, <2>2 DEF Own, ShowDraft, At
  <2>3. ASSUME NEW r \in Requests, AnswerSaved(r)
        PROVE  Own(window', draft', carried')
    BY <1>9, <1>12, <2>3 DEF AnswerSaved, At
  <2>4. ASSUME NEW r \in Requests, AnswerSent(r)
        PROVE  Own(window', draft', carried')
    BY <1>10, <2>4 DEF Own
  <2>5. CASE Discard
    BY <2>5, DiscardShows DEF Own, Shows
  <2> QED BY <1>3, <1>8, <1>11, <1>16, <2>1, <2>2, <2>3, <2>4, <2>5
<1>14. ASSUME NEW q \in Requests
       PROVE  Own(request'[q], draft', carried')
  <2>1. CASE request'[q] = request[q]
    BY <1>3, <2>1
  <2>2. CASE request'[q] = Idle
    BY <2>2, IdleIs DEF Own
  <2>3. CASE /\ request'[q].message = request[q].message
             /\ request'[q].version = request[q].version
             /\ request'[q].draft = request[q].draft
    BY <1>3, <2>3 DEF Own
  <2>4. CASE /\ request'[q].message = window.message
             /\ request'[q].version = window.version
             /\ request'[q].draft = window.draft
    BY <1>3, <2>4 DEF Own
  <2>5. ASSUME NEW n \in Names, OpenDraft(q, n), Opens(q, n)
        PROVE  Own(request'[q], draft', carried')
    <3>1. draft' = draft /\ draft[n].version \in Nat
      BY <1>4, <2>5, DraftIs DEF OpenDraft, maildir
    <3> QED BY <2>5, <3>1 DEF Opens, Own
  <2>6. ASSUME Write(q), Writes(q)
        PROVE  Own(request'[q], draft', carried')
    <3>1. /\ draft'[names'].message = request[q].message
          /\ draft'[names'].version = request[q].version
      BY <2>6, RequestIs, FileStep DEF Write, At
    <3>2. request[q].version \in Nat
      BY <1>4, RequestIs
    <3> QED BY <2>6, <3>1, <3>2 DEF Writes, Own
  <2> QED BY <2>1, <2>2, <2>3, <2>4, <2>5, <2>6, RequestSteps
          DEF Others, SameAt, AsShown, Writes, Opens
<1>15. ASSUME NEW q \in Requests, request'[q].pc \notin {"idle", "opened"}
       PROVE  \/ window'.message = None
              \/ /\ window'.message = request'[q].message
                 /\ request'[q].version <= window'.version
  <2>1. ASSUME ~Edit
        PROVE  \/ window'.message = None
               \/ window'.message = window.message /\ window'.version = window.version
    <3>1. ASSUME NEW m \in Messages, StartCompose(m)
          PROVE  FALSE
      BY <1>6, <1>15, <3>1
    <3>4. ASSUME NEW m \in Messages, OpenResponse(m)
          PROVE  FALSE
      BY <1>16, <1>15, <3>4
    <3>5. CASE Discard
      BY <3>5, DiscardShows DEF Shows
    <3>2. ASSUME NEW r \in Requests, ShowDraft(r)
          PROVE  FALSE
      BY <1>7, <1>12, <1>15, <3>2 DEF ShowDraft, At
    <3>3. ASSUME NEW r \in Requests, AnswerSaved(r)
          PROVE  window'.message = window.message /\ window'.version = window.version
      BY <1>9, <1>12, <3>3 DEF AnswerSaved, At
    <3> QED BY <1>10, <1>11, <2>1, <3>1, <3>2, <3>3, <3>4, <3>5
  <2>2. \/ window.message = None
        \/ /\ window.message = request'[q].message
           /\ request'[q].version <= window.version
    <3>1. CASE request'[q] = request[q]
      BY <1>2, <1>15, <3>1 DEF ShownStill
    <3>2. CASE /\ request'[q].message = request[q].message
               /\ request'[q].version = request[q].version
               /\ request[q].pc \notin {"idle", "opened"}
      BY <1>2, <3>2 DEF ShownStill
    <3>3. CASE /\ request'[q].message = window.message
               /\ request'[q].version = window.version
      BY <1>5, <3>3
    <3>4. request'[q] # Idle
      BY <1>15, IdleIs
    <3> QED BY <1>15, <3>1, <3>2, <3>3, <3>4, RequestSteps
            DEF Others, SameAt, AsShown, Writes, Opens, At
  <2> QED BY <1>8, <1>15, <2>1, <2>2
<1> QED BY <1>13, <1>14, <1>15

-----------------------------------------------------------------------------
(* What was saved.                                                         *)

\* A text that is stored stays so, unless a save fails half-way or a reply or
\* forward takes its draft along.
LEMMA StoredLasts ==
  ASSUME TypeOK, RequestsFormed, FiledIsNew, OwnDrafts, Next, ~turned, ~torn',
         NEW m \in Messages, m \notin carried, NEW v \in Nat, Stored(m, v)
  PROVE  Stored(m, v)'
<1>0. None \notin Messages /\ \A k \in Versions : k \in Nat
  BY ComposeAssumptions DEF Versions, ComposeAssumptions
<1>1. \A k \in Messages : newest[k] \in Nat /\ newest'[k] \in Nat /\ newest'[k] >= newest[k]
  <2>1. newest \in [Messages -> Versions] /\ newest' \in [Messages -> Versions]
    BY PlainKeeps, TypesAre DEF PlainTypes
  <2>2. ASSUME NEW r \in Requests, FileSent(r)
        PROVE  \A k \in Messages : newest'[k] >= newest[k]
    BY <2>1, <2>2, RaiseIs, RequestIs DEF FileSent, AddSent, At, RequestsFormed
  <2>3. newest' = newest \/ \E r \in Requests : FileSent(r)
    BY DEF Next, User, Serve, Failure, StartCompose, OpenResponse, Discard, OpenDraft, Edit, AskSave, AskSend,
           ShowDraft, Replace, Write, AnswerSaved, Deliver, Clean, AnswerSent, WriteFails,
           Abandon, SendFails, Lose, DeliverLoose, delivery
  <2> SUFFICES ASSUME NEW k \in Messages
               PROVE  newest[k] \in Nat /\ newest'[k] \in Nat /\ newest'[k] >= newest[k]
    OBVIOUS
  <2>4. newest[k] \in Nat /\ newest'[k] \in Nat
    BY <1>0, <2>1
  <2> QED BY <2>2, <2>3, <2>4
<1>2. CASE newest[m] >= v
  BY <1>1, <1>2 DEF Stored
<1>3. ASSUME NEW n \in Names, draft[n] # None, draft[n].message = m, draft[n].version >= v
      PROVE  Stored(m, v)'
  <2>0. draft[n].version \in Nat
    BY <1>0, <1>3, DraftIs
  <2>1. CASE draft'[n] = draft[n]
    BY <1>3, <2>1 DEF Stored
  <2>2. CASE draft'[n] # draft[n]
    <3>1. n \in 1..names
      BY <1>3 DEF TypeOK, Names
    <3>2. PICK r \in Requests : \/ Write(r) \/ WriteFails(r)
                                \/ (Replace(r) \/ Clean(r)) /\ DropDraft(r)
      BY <2>2 DEF Next, User, Serve, Failure, StartCompose, OpenResponse, Discard, OpenDraft, Edit, AskSave, AskSend,
             ShowDraft, Replace, AnswerSaved, Deliver, FileSent, Clean, AnswerSent, Abandon,
             SendFails, Lose, DeliverLoose, maildir
    <3>3. ~WriteFails(r)
      BY DEF WriteFails
    <3>4. ~Write(r)
      <4>1. CASE Write(r)
        <5>1. n = names'
          BY <2>2, <4>1, RequestIs, FileStep DEF Write, At
        <5> QED BY <3>1, <4>1, <5>1, DraftSteps DEF Write
      <4> QED BY <4>1
    <3>5. n = request[r].draft /\ request[r].message \in Messages
      BY <2>2, <3>2, <3>3, <3>4, DropStep DEF Replace, Clean, At, RequestsFormed
    <3>6. request[r].message = m /\ request[r].version >= v /\ request[r].version \in Nat
      <4>1. Own(request[r], draft, carried) /\ request[r].version \in Nat
        BY <1>0, RequestIs DEF OwnDrafts
      <4>2. n # None
        BY ComposeAssumptions DEF Names, ComposeAssumptions
      <4>3. draft[n].message = request[r].message /\ draft[n].version <= request[r].version
        BY <1>0, <1>3, <3>5, <4>1, <4>2 DEF Own
      <4> QED BY <1>3, <2>0, <4>1, <4>3
    <3>7. CASE Replace(r)
      <4>1. SameAt(r, "write")
        BY <3>7, GotoStep DEF Replace, PCs
      <4> QED BY <3>6, <4>1 DEF Stored, SameAt, At
    <3>8. CASE Clean(r)
      <4>1. newest[m] >= request[r].version
        BY <3>6, <3>8 DEF Clean, At, FiledIsNew
      <4> QED BY <1>1, <3>6, <4>1 DEF Stored
    <3> QED BY <3>2, <3>3, <3>4, <3>7, <3>8
  <2> QED BY <2>1, <2>2
<1>4. ASSUME NEW r \in Requests, At(r, "write"), request[r].message = m, request[r].version >= v
      PROVE  Stored(m, v)'
  <2>1. CASE request'[r] = request[r]
    BY <1>4, <2>1 DEF Stored, At
  <2>2. CASE Write(r)
    <3>1. /\ names' \in Names /\ draft'[names'] # None
          /\ draft'[names'].message = m /\ draft'[names'].version = request[r].version
      BY <1>4, <2>2, RequestIs, FileStep DEF Write, At
    <3> QED BY <1>4, <3>1 DEF Stored
  <2>3. CASE Failure(r)
    BY <1>4, <2>3 DEF Failure, WriteFails, Abandon, SendFails, Lose, At
  <2>4. request'[r] = request[r] \/ Write(r) \/ Failure(r)
    BY <1>4, RequestSteps
       DEF Others, SameAt, AsShown, Writes, Opens, At, ShowDraft, AnswerSaved, AnswerSent,
           Deliver
  <2> QED BY <2>1, <2>2, <2>3, <2>4
<1> QED BY <1>2, <1>3, <1>4 DEF Stored

\* So does what was answered as saved.
LEMMA SavesKeep ==
  ASSUME TypeOK, RequestsFormed, FiledIsNew, OwnDrafts, SavesKept, Next
  PROVE  SavesKept'
<1> SUFFICES ASSUME ~turned', ~torn'
             PROVE  /\ \A m \in Messages \ carried' : saved'[m] # 0 => Stored(m, saved[m])'
                    /\ \A r \in Requests :
                         At(r, "saved")' /\ request'[r].message \notin carried' =>
                           Stored(request[r].message, request[r].version)'
  BY DEF SavesKept, Stored, At
<1>1. ~turned /\ ~torn
  <2>1. ~turned
    BY DEF Next, User, Serve, Failure, StartCompose, OpenResponse, Discard, OpenDraft, Edit, AskSave, AskSend,
           ShowDraft, Replace, Write, AnswerSaved, Deliver, FileSent, Clean, AnswerSent,
           WriteFails, Abandon, SendFails, Lose, DeliverLoose, answers
  <2>2. ASSUME NEW r \in Requests, Lose(r)
        PROVE  ~torn
    BY <2>2 DEF Lose
  <2>3. ASSUME NEW r \in Requests, WriteFails(r)
        PROVE  FALSE
    BY <2>3 DEF WriteFails
  <2>4. UNCHANGED torn \/ \E r \in Requests : Lose(r) \/ WriteFails(r)
    BY DEF Next, User, Serve, Failure, StartCompose, OpenResponse, Discard, OpenDraft, Edit, AskSave, AskSend,
           ShowDraft, Replace, Write, AnswerSaved, Deliver, FileSent, Clean, AnswerSent,
           Abandon, SendFails, DeliverLoose, answers
  <2> QED BY <2>1, <2>2, <2>3, <2>4
<1>2. /\ \A m \in Messages \ carried : saved[m] # 0 => Stored(m, saved[m])
      /\ \A r \in Requests : At(r, "saved") /\ request[r].message \notin carried =>
           Stored(request[r].message, request[r].version)
  BY <1>1 DEF SavesKept
<1>3. /\ saved \in [Messages -> Versions] /\ saved' \in [Messages -> Versions]
      /\ \A k \in Versions : k \in Nat
  <2>1. saved \in [Messages -> Versions] /\ saved' \in [Messages -> Versions]
    BY PlainKeeps, TypesAre DEF PlainTypes
  <2> QED BY <2>1, ComposeAssumptions DEF Versions, ComposeAssumptions
<1>4. ASSUME NEW m \in Messages \ carried', saved'[m] # 0
      PROVE  Stored(m, saved[m])'
  <2>0. m \in Messages \ carried
    BY CarriedGrows
  <2>1. PICK v \in Nat : v = saved'[m]
    BY <1>3
  <2>2. Stored(m, v)
    <3>1. CASE saved' = saved
      BY <1>2, <1>4, <2>0, <2>1, <3>1
    <3>2. ASSUME NEW r \in Requests, AnswerSaved(r)
          PROVE  Stored(m, v)
      <4>1. /\ At(r, "saved") /\ request[r].message \in Messages
            /\ request[r].version \in Versions /\ saved' = Raise(saved, request[r])
        BY <3>2, RequestIs DEF AnswerSaved, At, RequestsFormed
      <4>2. \/ saved'[m] = saved[m]
            \/ m = request[r].message /\ saved'[m] = request[r].version
        BY <1>3, <4>1, RaiseIs
      <4> QED BY <1>2, <1>4, <2>0, <2>1, <4>1, <4>2
    <3>3. saved' = saved \/ \E r \in Requests : AnswerSaved(r)
      BY DEF Next, User, Serve, Failure, StartCompose, OpenResponse, Discard, OpenDraft, Edit, AskSave, AskSend,
             ShowDraft, Replace, Write, Deliver, FileSent, Clean, AnswerSent, WriteFails,
             Abandon, SendFails, Lose, DeliverLoose, answers
    <3> QED BY <3>1, <3>2, <3>3
  <2>3. Stored(m, v)'
    BY <1>1, <2>0, <2>2, StoredLasts
  <2> QED BY <2>1, <2>3 DEF Stored
<1>5. ASSUME NEW r \in Requests, At(r, "saved")', request'[r].message \notin carried'
      PROVE  Stored(request[r].message, request[r].version)'
  <2>1. CASE request'[r] = request[r]
    <3>1. At(r, "saved") /\ request[r].message \in Messages /\ request[r].version \in Nat
      BY <1>3, <1>5, <2>1, RequestIs DEF At, RequestsFormed
    <3>2. PICK m \in Messages, v \in Nat : m = request[r].message /\ v = request[r].version
      BY <3>1
    <3>3. m \notin carried
      BY <1>5, <2>1, <3>2, CarriedGrows
    <3>4. Stored(m, v)'
      BY <1>1, <1>2, <3>1, <3>2, <3>3, StoredLasts
    <3> QED BY <2>1, <3>2, <3>4 DEF Stored
  <2>2. CASE Write(r) /\ Writes(r)
    <3>1. /\ names' \in Names /\ draft'[names'] # None
          /\ draft'[names'].message = request[r].message
          /\ draft'[names'].version = request[r].version
      BY <2>2, RequestIs, FileStep DEF Write, At
    <3>2. request[r].version \in Nat
      BY <1>3, RequestIs
    <3> QED BY <2>2, <3>1, <3>2 DEF Stored, Writes
  <2>3. request'[r] # Idle
    BY <1>5, IdleIs DEF At
  <2> QED BY <1>5, <2>1, <2>2, <2>3, RequestSteps DEF Others, SameAt, AsShown, Writes, Opens, At
<1> QED BY <1>4, <1>5

-----------------------------------------------------------------------------
(* The theorems.                                                           *)

\* Every step keeps the invariant.
LEMMA NextKeeps ==
  ASSUME IInv, [Next]_vars
  PROVE  IInv'
<1> USE DEF IInv
<1>1. CASE Next
  BY <1>1, TypesKeep, IdleKeeps, FiledKeeps, FiledIsNewKeeps, NamesKeep, TextKeeps, OwnKeeps, SavesKeep
<1>2. CASE UNCHANGED vars
  <2>1. TypeOK' /\ RequestsFormed'
    BY TypesKeep
  <2>2. IdleNamesNone' /\ FiledAccounted' /\ FiledIsNew' /\ NamesUsed'
    BY <1>2 DEF vars, maildir, delivery, answers, IdleNamesNone, FiledAccounted, InFile, FiledIsNew,
                NamesUsed, At
  <2>3. TextNewest' /\ OwnDrafts' /\ SavesKept'
    BY <1>2 DEF vars, maildir, delivery, answers, TextNewest, OwnDrafts, SavesKept, Stored, At
  <2> QED BY <2>1, <2>2, <2>3
<1> QED BY <1>1, <1>2

\* It holds at the start.
LEMMA InitHolds ==
  ASSUME Init
  PROVE  IInv
<1> USE DEF Init
<1>0. /\ MaxTexts \in Nat /\ MaxDrafts \in Nat /\ MaxSends \in Nat
      /\ 0 \in Versions /\ 0 \in 0..MaxDrafts /\ 0 \in 0..MaxSends
  BY ComposeAssumptions DEF ComposeAssumptions, Versions
<1>1. PICK from \in Mailboxes : window = Closed(from)
  OBVIOUS
<1>2. /\ window \in WindowType /\ window.message = None /\ window.draft = None
  BY <1>0, <1>1 DEF Closed, WindowType, Optional
<1>3. \A r \in Requests : request[r] = Idle
  OBVIOUS
<1>4. PlainTypes
  BY <1>0, <1>2 DEF PlainTypes
<1>5. DraftTypes
  BY <1>0 DEF DraftTypes, Optional
<1>6. RequestTypes /\ RequestsFormed
  BY IdleIs DEF RequestTypes, RequestsFormed, At
<1>7. FiledAccounted
  <2> SUFFICES ASSUME NEW m \in Messages
               PROVE  filed[m] + Cardinality(InFile(m)) <= accepted[m]
    BY DEF FiledAccounted
  <2>1. InFile(m) = {}
    BY <1>3, IdleIs DEF InFile, At
  <2>2. Cardinality(InFile(m)) = 0
    BY <2>1, FS_EmptySet
  <2> QED BY <2>2
<1>8. IdleNamesNone /\ FiledIsNew /\ NamesUsed
  BY <1>2, <1>3, IdleIs DEF IdleNamesNone, FiledIsNew, NamesUsed, Optional
<1>9. TextNewest
  BY <1>2, <1>3, IdleIs DEF TextNewest, At
<1>10. OwnDrafts
  BY <1>2, <1>3, IdleIs DEF OwnDrafts, Own
<1>11. SavesKept
  BY <1>3, IdleIs DEF SavesKept, At
<1> QED BY <1>4, <1>5, <1>6, <1>7, <1>8, <1>9, <1>10, <1>11, TypesAre DEF IInv

\* The invariant holds for ever.
LEMMA AlwaysIInv == Spec => []IInv
<1>1. Init => IInv
  BY InitHolds
<1>2. IInv /\ [Next]_vars => IInv'
  BY NextKeeps
<1> QED BY <1>1, <1>2, PTL DEF Spec

\* The window, the drafts and the requests have their types.
THEOREM ComposeTypes == Spec => []TypeOK
<1>1. IInv => TypeOK
  BY DEF IInv
<1> QED BY <1>1, AlwaysIInv, PTL

\* However many requests run at once, fail, are abandoned or are retried, the
\* sent folder holds no copy of a message the mail server has not accepted.
THEOREM FiledIsAccepted == Spec => []FiledWasAccepted
<1>1. IInv => FiledWasAccepted
  <2> SUFFICES ASSUME IInv, NEW m \in Messages
               PROVE  filed[m] <= accepted[m]
    BY DEF FiledWasAccepted
  <2>1. /\ filed[m] + Cardinality(InFile(m)) <= accepted[m]
        /\ filed[m] \in Nat /\ accepted[m] \in Nat
    BY DEF IInv, FiledAccounted, TypeOK
  <2>2. Cardinality(InFile(m)) \in Nat
    BY InFileFinite
  <2> QED BY <2>1, <2>2
<1> QED BY <1>1, AlwaysIInv, PTL

\* Drafts are removed by requests about their own message only, unless an
\* answer found the window turned to another text, or a reply or forward took the
\* draft along: whatever is edited, saved, sent, discarded, opened or begun anew.
THEOREM DraftsAreOwn == Spec => []TakesOwnDraft
<1>1. IInv => TakesOwnDraft
  <2> SUFFICES ASSUME IInv, ~turned, NEW r \in Requests, request[r].draft # None,
                      draft[request[r].draft] # None
               PROVE  draft[request[r].draft].message \in carried \cup {request[r].message}
    BY DEF TakesOwnDraft
  <2>1. Own(request[r], draft, carried)
    BY DEF IInv, OwnDrafts
  <2>2. request[r].message # None
    BY DEF IInv, TypeOK, IdleNamesNone
  <2> QED BY <2>1, <2>2 DEF Own
<1> QED BY <1>1, AlwaysIInv, PTL

\* A text the user was told is saved, or a newer one, stays in a draft or in
\* the hands of a save, or was sent: for any number of saves and sends at once,
\* and for every message but those whose draft a reply or forward took along.
THEOREM SavedIsKept == Spec => []SavedTextKept
<1>1. IInv => SavedTextKept
  BY DEF IInv, SavesKept, SavedTextKept
<1> QED BY <1>1, AlwaysIInv, PTL

===============================================================================
