------------------------------- MODULE Compose -------------------------------
(***************************************************************************)
(* Writing a message in webmail: the compose window of one browser saves   *)
(* drafts and sends, and each request is a sequence of file operations and *)
(* one SMTP delivery.                                                      *)
(*                                                                         *)
(*   internal/webmail/static.go        the compose window                  *)
(*   internal/webmail/handlers.go      send, draft                         *)
(*   internal/webmail/sql_store.go     CompositeStore.SendMessage          *)
(*   internal/webmail/maildir.go       SaveDraftMessage, SaveSentMessage   *)
(*   internal/webmail/smtp_sender.go   Send                                *)
(*                                                                         *)
(* The window does not wait: while one request is served the user may      *)
(* click again, edit, or turn to another message, and the answer is        *)
(* applied to whatever the window holds by then.  A text is its version;   *)
(* a draft's file name is never used again (it is a time in nanoseconds).  *)
(***************************************************************************)
EXTENDS Naturals, FiniteSets

CONSTANTS
    Requests,   \* requests that may be served at once
    Messages,   \* messages the user writes
    Mailboxes,  \* addresses the user may send from, each with its Maildir
    None,       \* no message, no draft
    MaxTexts,   \* bound: versions of a message
    MaxDrafts,  \* bound: draft files written
    MaxSends    \* bound: send requests

ASSUME ComposeAssumptions ==
    /\ IsFiniteSet(Requests)
    /\ None \notin Messages \cup Nat
    /\ None \notin [message : Messages, version : Nat, mailbox : Mailboxes]
    /\ Mailboxes # {}
    /\ MaxTexts \in Nat \ {0} /\ MaxDrafts \in Nat /\ MaxSends \in Nat

Names == 1..MaxDrafts
Versions == 0..MaxTexts

VARIABLES
    window,   \* what is shown: message, version, sender, state.currentDraftId
    text,     \* message -> the version typed last
    draft,    \* name -> its file: message, version, mailbox; or None
    names,    \* draft names used so far
    accepted, \* message -> copies the mail server has accepted
    filed,    \* message -> copies written to the sent folder
    newest,   \* message -> newest version among these copies
    loose,    \* message -> deliveries that go on although their request is over
    request,  \* the requests being served
    sends,    \* send requests so far
    saved,    \* message -> newest version of a save answered with success
    turned,   \* the window turned to another text while a request was served
    carried,  \* messages whose draft a reply or forward has taken along
    torn      \* a save failed after it had removed the draft it replaces

maildir == <<draft, names>>
delivery == <<accepted, filed, newest, loose>>
answers == <<saved, turned, carried, torn>>
vars == <<window, text, maildir, delivery, request, sends, answers>>

Idle == [pc |-> "idle", message |-> None, version |-> 0, from |-> None,
         draft |-> None]
Closed(from) == [message |-> None, version |-> 0, from |-> from, draft |-> None]

Init == /\ \E from \in Mailboxes : window = Closed(from)
        /\ text = [m \in Messages |-> 0]
        /\ draft = [n \in Names |-> None] /\ names = 0
        /\ accepted = [m \in Messages |-> 0]
        /\ filed = [m \in Messages |-> 0] /\ newest = [m \in Messages |-> 0]
        /\ loose = [m \in Messages |-> 0]
        /\ request = [r \in Requests |-> Idle]
        /\ sends = 0
        /\ saved = [m \in Messages |-> 0]
        /\ turned = FALSE /\ carried = {} /\ torn = FALSE

At(r, label) == request[r].pc = label
Become(r, x) == request' = [request EXCEPT ![r] = x]
Goto(r, label) == Become(r, [request[r] EXCEPT !.pc = label])
Over(r) == Become(r, Idle)
Shown(m) == window.message = m
Busy == {r \in Requests : ~At(r, "idle")}
OneMore(f, m) == [f EXCEPT ![m] = @ + 1]
Raise(f, x) == [f EXCEPT ![x.message] = IF x.version > @ THEN x.version ELSE @]

-----------------------------------------------------------------------------
(* The compose window.                                                     *)

\* The message of the draft that the window names, if its file is there.
NamedByWindow == {draft[n].message : n \in {x \in Names : window.draft = x /\ draft[x] # None}}

\* Reply and Forward fill the window with a new message, and leave it the name
\* of the draft that was shown before.
OpenResponse(m) ==
    /\ text[m] = 0
    /\ text' = [text EXCEPT ![m] = 1]
    /\ window' = [window EXCEPT !.message = m, !.version = 1]
    /\ turned' = (turned \/ Busy # {})
    /\ carried' = carried \cup NamedByWindow
    /\ UNCHANGED <<maildir, delivery, request, sends, saved, torn>>

\* Variant: the name of the draft shown before is kept.
StartComposeOver(m) ==
    /\ text[m] = 0
    /\ text' = [text EXCEPT ![m] = 1]
    /\ window' = [window EXCEPT !.message = m, !.version = 1]
    /\ turned' = (turned \/ Busy # {})
    /\ UNCHANGED <<maildir, delivery, request, sends, saved, carried, torn>>

\* The compose button: a new message in an empty window; what was shown is given
\* up, what was saved of it stays.
StartCompose(m) ==
    /\ text[m] = 0
    /\ text' = [text EXCEPT ![m] = 1]
    /\ window' = [window EXCEPT !.message = m, !.version = 1, !.draft = None]
    /\ turned' = (turned \/ Busy # {})
    /\ UNCHANGED <<maildir, delivery, request, sends, saved, carried, torn>>

\* "Discard" empties the window.
Discard ==
    /\ ~Shown(None)
    /\ window' = Closed(window.from)
    /\ UNCHANGED <<text, maildir, delivery, request, sends, answers>>

\* "Edit draft" reads the file of a draft,
OpenDraft(r, n) ==
    /\ At(r, "idle")
    /\ draft[n] # None /\ draft[n].version # 0
    /\ Become(r, [Idle EXCEPT !.pc = "opened", !.message = draft[n].message,
                     !.version = draft[n].version, !.from = draft[n].mailbox,
                     !.draft = n])
    /\ UNCHANGED <<window, text, maildir, delivery, sends, answers>>

\* and shows it when it arrives.
ShowDraft(r) ==
    LET x == request[r] IN
    /\ At(r, "opened")
    /\ window' = [message |-> x.message, version |-> x.version, from |-> x.from,
                  draft |-> x.draft]
    /\ turned' = (turned \/ Busy # {r})
    /\ Over(r)
    /\ UNCHANGED <<text, maildir, delivery, sends, saved, carried, torn>>

\* The user edits the text or chooses another sender.
Edit ==
    /\ ~Shown(None)
    /\ \/ LET m == window.message IN
          /\ text[m] < MaxTexts
          /\ text' = OneMore(text, m)
          /\ window' = [window EXCEPT !.version = text'[m]]
       \/ \E from \in Mailboxes \ {window.from} :
             window' = [window EXCEPT !.from = from] /\ UNCHANGED text
    /\ UNCHANGED <<maildir, delivery, request, sends, answers>>

\* Variant: the shortcuts work while no message is shown.
AskAnytime(r, label) ==
    /\ At(r, "idle")
    /\ Become(r, [Idle EXCEPT !.pc = label, !.message = window.message,
                     !.version = window.version, !.from = window.from,
                     !.draft = window.draft])

\* A click: the request takes what the window shows at that moment.
Ask(r, label) ==
    /\ At(r, "idle")
    /\ ~Shown(None)
    /\ Become(r, [Idle EXCEPT !.pc = label, !.message = window.message,
                     !.version = window.version, !.from = window.from,
                     !.draft = window.draft])

AskSave(r) ==
    /\ Ask(r, "replace")
    /\ UNCHANGED <<window, text, maildir, delivery, sends, answers>>

AskSend(r) ==
    /\ Ask(r, "smtp")
    /\ sends < MaxSends
    /\ sends' = sends + 1
    /\ UNCHANGED <<window, text, maildir, delivery, answers>>

-----------------------------------------------------------------------------
(* POST /api/v1/drafts: SaveDraftMessage.                                  *)

\* DeleteMessage in the sender's mailbox; a draft that is not there, or no
\* longer there, is ignored.
DropDraft(r) ==
    LET x == request[r] IN
    draft' = [n \in Names |->
                 IF n = x.draft /\ draft[n] # None /\ draft[n].mailbox = x.from
                 THEN None ELSE draft[n]]

\* The draft the request replaces is removed first,
Replace(r) ==
    /\ At(r, "replace")
    /\ DropDraft(r)
    /\ Goto(r, "write")
    /\ UNCHANGED <<window, text, names, delivery, sends, answers>>

File(x, version) == [message |-> x.message, version |-> version, mailbox |-> x.from]

\* then the new one is written,
Write(r) ==
    LET x == request[r] IN
    /\ At(r, "write")
    /\ names < MaxDrafts
    /\ names' = names + 1
    /\ draft' = [draft EXCEPT ![names'] = File(x, x.version)]
    /\ Become(r, [x EXCEPT !.pc = "saved", !.draft = names'])
    /\ UNCHANGED <<window, text, delivery, sends, answers>>

\* or not, or cut short: the answer is an error, what was removed stays so.
WriteFails(r) ==
    /\ At(r, "write")
    /\ \/ UNCHANGED maildir
       \/ /\ names < MaxDrafts
          /\ names' = names + 1
          /\ draft' = [draft EXCEPT ![names'] = File(request[r], 0)]
    /\ torn' = TRUE
    /\ Over(r)
    /\ UNCHANGED <<window, text, delivery, sends, saved, turned, carried>>

\* The browser puts the draft's name in the window, whatever it shows by now.
AnswerSaved(r) ==
    LET x == request[r] IN
    /\ At(r, "saved")
    /\ window' = [window EXCEPT !.draft = x.draft]
    /\ saved' = Raise(saved, x)
    /\ Over(r)
    /\ UNCHANGED <<text, maildir, delivery, sends, turned, carried, torn>>

-----------------------------------------------------------------------------
(* POST /api/v1/send: SMTPSender.Send, SaveSentMessage, DeleteMessage.     *)

\* The mail server accepts the message.  An error that comes after it, of QUIT,
\* is answered as a failure.
Deliver(r) ==
    /\ At(r, "smtp")
    /\ accepted' = OneMore(accepted, request[r].message)
    /\ Goto(r, "file") \/ Over(r)
    /\ UNCHANGED <<window, text, maildir, filed, newest, loose, sends, answers>>

\* The client is gone: the request ends, the delivery goes on,
Abandon(r) ==
    /\ At(r, "smtp")
    /\ loose' = OneMore(loose, request[r].message)
    /\ Over(r)
    /\ UNCHANGED <<window, text, maildir, accepted, filed, newest, sends, answers>>

\* and ends in an acceptance or an error that nobody reads.
DeliverLoose(m) ==
    /\ loose[m] > 0
    /\ loose' = [loose EXCEPT ![m] = @ - 1]
    /\ accepted' = OneMore(accepted, m) \/ UNCHANGED accepted
    /\ UNCHANGED <<window, text, maildir, filed, newest, request, sends, answers>>

AddSent(x) == filed' = OneMore(filed, x.message) /\ newest' = Raise(newest, x)

\* Variant: the copy is filed and the message delivered at the same time.
FileSentEarly(r) ==
    /\ At(r, "smtp")
    /\ AddSent(request[r])
    /\ UNCHANGED <<window, text, maildir, accepted, loose, request, sends, answers>>

\* SaveSentMessage, once the message is accepted.
FileSent(r) ==
    /\ At(r, "file")
    /\ AddSent(request[r])
    /\ Goto(r, "clean")
    /\ UNCHANGED <<window, text, maildir, accepted, loose, sends, answers>>

\* Variant: the draft is removed before the message is handed over.
CleanEarly(r) ==
    /\ At(r, "smtp")
    /\ DropDraft(r)
    /\ UNCHANGED <<window, text, names, delivery, request, sends, answers>>

\* The draft is removed; an error is logged only.
Clean(r) ==
    /\ At(r, "clean")
    /\ DropDraft(r)
    /\ Goto(r, "sent")
    /\ UNCHANGED <<window, text, names, delivery, sends, answers>>

\* The browser clears the window, whatever it shows by now.
AnswerSent(r) ==
    /\ At(r, "sent")
    /\ window' = Closed(window.from)
    /\ Over(r)
    /\ UNCHANGED <<text, maildir, delivery, sends, answers>>

-----------------------------------------------------------------------------
(* What fails.                                                             *)

\* The delivery or the sent copy: what was done stays, and "send message failed"
\* leaves the window as it is, for another try.
SendFails(r) ==
    /\ request[r].pc \in {"smtp", "file"}
    /\ Over(r)
    /\ UNCHANGED <<window, text, maildir, delivery, sends, answers>>

\* webmail restarts, or the answer is lost: the browser sees an error.
Lose(r) ==
    /\ ~At(r, "idle")
    /\ torn' = (torn \/ At(r, "write"))
    /\ Over(r)
    /\ UNCHANGED <<window, text, maildir, delivery, sends, saved, turned, carried>>

-----------------------------------------------------------------------------

User == \/ \E m \in Messages : StartCompose(m) \/ OpenResponse(m)
        \/ Discard
        \/ \E r \in Requests, n \in Names : OpenDraft(r, n)
        \/ Edit
        \/ \E r \in Requests : AskSave(r) \/ AskSend(r)

Serve(r) == \/ ShowDraft(r) \/ Replace(r) \/ Write(r) \/ AnswerSaved(r)
            \/ Deliver(r) \/ FileSent(r) \/ Clean(r) \/ AnswerSent(r)

Failure(r) == \/ WriteFails(r) \/ Abandon(r) \/ SendFails(r) \/ Lose(r)

Next == \/ User
        \/ \E r \in Requests : Serve(r) \/ Failure(r)
        \/ \E m \in Messages : DeliverLoose(m)

Spec == Init /\ [][Next]_vars

-----------------------------------------------------------------------------
(* Properties                                                              *)

PCs == {"idle", "opened", "replace", "write", "saved",
        "smtp", "file", "clean", "sent"}
Optional(S) == S \cup {None}

\* Drafts, the window and each request are well formed; a request is for a
\* message.
TypeOK ==
    /\ window \in [message : Optional(Messages), version : Versions,
                   from : Mailboxes, draft : Optional(Names)]
    /\ text \in [Messages -> Versions]
    /\ draft \in [Names -> Optional([message : Messages, version : Versions,
                                     mailbox : Mailboxes])]
    /\ names \in 0..MaxDrafts /\ sends \in 0..MaxSends
    /\ \A n \in Names : draft[n] # None => n <= names
    /\ accepted \in [Messages -> Nat] /\ loose \in [Messages -> Nat]
    /\ filed \in [Messages -> Nat] /\ newest \in [Messages -> Versions]
    /\ request \in [Requests -> [pc : PCs, message : Optional(Messages),
                                 version : Versions, from : Optional(Mailboxes),
                                 draft : Optional(Names)]]
    /\ \A r \in Requests : ~At(r, "idle") => request[r].message # None
    /\ saved \in [Messages -> Versions]
    /\ turned \in BOOLEAN /\ carried \subseteq Messages /\ torn \in BOOLEAN

\* The sent folder never shows a message more often than the mail server has
\* accepted it, whatever is retried, abandoned or interrupted.
FiledWasAccepted == \A m \in Messages : filed[m] <= accepted[m]

\* This version of m, or a newer one, is in a draft, is about to be written to
\* one, or has been sent.
Stored(m, v) ==
    \/ \E n \in Names : /\ draft[n] # None /\ draft[n].message = m
                        /\ draft[n].version >= v
    \/ \E r \in Requests : /\ At(r, "write") /\ request[r].message = m
                           /\ request[r].version >= v
    \/ newest[m] >= v

\* The user is told of a save: this text stays stored, although saves and sends
\* of one window overlap and name the same draft.  Three cases are left out: a
\* save that failed after its removal, an answer that arrived when the window
\* showed another text, and the messages whose draft a reply or forward took
\* along, which its next save or send removes.
SavedTextKept ==
    ~turned /\ ~torn =>
        \A m \in Messages \ carried : saved[m] # 0 => Stored(m, saved[m])

\* A request takes away drafts of the message it is about only, unless an answer
\* came when the window showed another text, or a reply or forward took the
\* draft along: a message begun with the compose button, an opened draft and a
\* sent message each leave the window without the name of a stranger's draft.
TakesOwnDraft ==
    ~turned =>
        \A r \in Requests :
            LET n == request[r].draft IN
            n # None /\ draft[n] # None =>
                draft[n].message \in carried \cup {request[r].message}

=============================================================================
