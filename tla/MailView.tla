------------------------------ MODULE MailView ------------------------------
(***************************************************************************)
(* The mail pages of webmail in the browser: the list, the reader and the  *)
(* selection, written by clicks, by keys and by answers that come later.   *)
(*                                                                         *)
(*   internal/webmail/static.go   the script of the page                   *)
(*                                                                         *)
(* The script runs to its next await without interruption.  Requests carry *)
(* no number: an answer is applied to whatever the page shows by then.     *)
(* One mailbox is modelled, its mail pages only, and no other program has  *)
(* it open; the server does what it is asked to do, or refuses.  Messages  *)
(* are numbered in the order of the list.                                  *)
(***************************************************************************)
EXTENDS Naturals, SequencesExt

CONSTANTS
    Mails,      \* numbers of messages
    Automatic,  \* those the inbox shows under the other tab
    Pages,      \* folders, the inbox and the trash among them
    Nobody,     \* no message
    MaxActs,    \* bound: acts of the user
    MaxUnderWay \* bound: requests under way when the user acts

ASSUME MailViewAssumptions ==
    /\ Mails \subseteq Nat /\ Automatic \subseteq Mails
    /\ {"inbox", "trash", "spam"} \subseteq Pages
    /\ Nobody \notin [mail : Mails, read : BOOLEAN]
    /\ {MaxActs, MaxUnderWay} \subseteq Nat

VARIABLES
    lies,      \* message -> its folder on the server, or "gone"
    opened,    \* message -> its file is marked as read, which is in its id
    openFolder,    \* state.folder, which the header names
    listed,    \* the folder state.messages was asked of
    messages,      \* state.messages: ids
    tab,       \* state.messageTab
    selected, marked, anchor,  \* state.selected, selectedIds, selectionAnchor
    dragging,  \* state.dragging: ids and the folder they are dragged from
    dialog,    \* the question before a deletion
    reader,    \* the message that is shown, by number
    calls,     \* requests under way, in the order they were sent
    outrun,    \* an answer was lost or came before that of an earlier request
    pointed,   \* a row was marked by its menu since the page was last drawn
    acts

onServer == <<lies, opened>>
listing == <<openFolder, listed, messages, tab>>
choice == <<selected, marked, anchor>>
mailViewVars == <<onServer, listing, choice, dragging, dialog, reader, calls, outrun,
                  pointed, acts>>

RowId == [mail : Mails, read : BOOLEAN]
IdOf(m) == [mail |-> m, read |-> opened[m]]
NumbersOf(ids) == {i.mail : i \in ids}

\* mode: what confirming does; named: the messages it named; disturbed: a
\* click, a key or an answer changed the selection since.
NoDialog == [mode |-> "hidden", named |-> {}, disturbed |-> FALSE]

NotDragging == [ids |-> {}, from |-> "none"]
SystemPages == {"inbox", "drafts", "sent", "spam", "trash", "archive"}

-----------------------------------------------------------------------------
(* Requests.                                                               *)

\* kind: what is asked; ids: of what; to: which folder, if any; answer: what
\* came back; closes: the dialog ends with it; aim: the dialog.
NewCall(kind, ids, to) ==
    [kind |-> kind, ids |-> ids, to |-> to, back |-> FALSE, answer |-> {},
     closes |-> FALSE, aim |-> NoDialog]

Read(id) == NewCall("read", {id}, "none")
Load == NewCall("lists", {}, "none")

Without(i) == RemoveAt(calls, i)
IsLoad(c) == c.kind \in {"lists", "messages"}

Earliest(ids) == CHOOSE i \in ids : \A j \in ids : i.mail <= j.mail

-----------------------------------------------------------------------------
(* The selection.                                                          *)

\* filteredMessages: the tabs divide the inbox; elsewhere the first shows all.
Filtered(list, name) ==
    {i \in list : IF name = "other" THEN i.mail \in Automatic
                  ELSE openFolder = "inbox" => i.mail \notin Automatic}

Visible == Filtered(messages, tab)

ActiveSelectionIDs ==
    IF marked \intersect Visible # {} THEN marked \intersect Visible
    ELSE {selected} \ {Nobody}

\* render, and renderReader at its end.
Render(queue, sel) ==
    /\ selected' = sel
    /\ pointed' = FALSE
    /\ IF sel = Nobody
       THEN calls' = queue /\ reader' = Nobody
       ELSE calls' = Append(queue, Read(sel)) /\ reader' = reader

Choose(queue, sel, ids, from) ==
    Render(queue, sel) /\ marked' = ids /\ anchor' = from

\* The first of the list and nothing else.
ChooseFirst(queue, list) ==
    LET first == IF list = {} THEN Nobody
                 ELSE IF Filtered(list, tab) # {} THEN Earliest(Filtered(list, tab))
                 ELSE Earliest(list)
    IN  Choose(queue, first, {first} \ {Nobody}, first)

\* To confirm is not counted.
Act == /\ acts < MaxActs /\ acts' = acts + 1
       /\ Len(calls) <= MaxUnderWay

\* The dialog covers neither the keyboard nor the page around it.
Disturb == dialog' = [dialog EXCEPT !.disturbed = dialog.mode # "hidden"]

Click(id) ==
    /\ Act
    /\ Choose(calls, id, {id}, id)
    /\ Disturb
    /\ UNCHANGED <<onServer, listing, dragging, outrun>>

CtrlClick(id) ==
    /\ Act
    /\ Choose(calls, id, IF id \in marked THEN marked \ {id} ELSE marked \cup {id}, id)
    /\ Disturb
    /\ UNCHANGED <<onServer, listing, dragging, outrun>>

\* selectMessageRange
RangeTo(id) ==
    LET from == IF anchor \in Visible THEN anchor
                ELSE IF anchor = Nobody /\ selected \in Visible THEN selected
                ELSE Earliest(Visible)
    IN  {i \in Visible : \/ from.mail <= i.mail /\ i.mail <= id.mail
                         \/ id.mail <= i.mail /\ i.mail <= from.mail}

ShiftClick(id) ==
    /\ Act
    /\ Choose(calls, id, RangeTo(id), anchor)
    /\ Disturb
    /\ UNCHANGED <<onServer, listing, dragging, outrun>>

\* The row after or before the selected one, or the first if it is not shown.
Neighbour(down) ==
    LET at == IF selected \in Visible THEN selected ELSE Earliest(Visible)
        beyond == {i \in Visible : IF down THEN i.mail > at.mail ELSE i.mail < at.mail}
    IN  IF beyond = {} THEN at
        ELSE CHOOSE i \in beyond : \A j \in beyond :
               IF down THEN i.mail <= j.mail ELSE i.mail >= j.mail

\* Keys work while the dialog is open, too.
ArrowKey(down, extend) ==
    /\ Act
    /\ Visible # {}
    /\ LET next == Neighbour(down)
       IN  IF extend
           THEN Choose(calls, next, RangeTo(next),
                       IF anchor = Nobody
                       THEN IF selected = Nobody THEN Earliest(Visible) ELSE selected
                       ELSE anchor)
           ELSE Choose(calls, next, {next}, next)
    /\ Disturb
    /\ UNCHANGED <<onServer, listing, dragging, outrun>>

\* The row is marked where it stands; the page is not drawn again.
OpenMessageContextMenu(id) ==
    /\ Act
    /\ id \notin marked
    /\ selected' = id /\ marked' = {id} /\ anchor' = id
    /\ pointed' = TRUE
    /\ Disturb
    /\ UNCHANGED <<onServer, listing, dragging, reader, calls, outrun>>

ChooseTab(name) ==
    /\ Act
    /\ tab' = name
    /\ LET shown == Filtered(messages, name)
           first == IF shown = {} THEN Nobody ELSE Earliest(shown)
       IN  Choose(calls, first, {first} \ {Nobody}, first)
    /\ Disturb
    /\ UNCHANGED <<onServer, openFolder, listed, messages, dragging, outrun>>

-----------------------------------------------------------------------------
(* The list.                                                               *)

OpenFolder(f) ==
    /\ Act
    /\ openFolder' = f
    /\ selected' = Nobody /\ marked' = {} /\ anchor' = Nobody
    /\ calls' = Append(calls, Load)
    /\ Disturb
    /\ UNCHANGED <<onServer, listed, messages, tab, dragging, reader, outrun, pointed>>

Refresh ==
    /\ Act
    /\ calls' = Append(calls, Load)
    /\ UNCHANGED <<onServer, listing, choice, dragging, dialog, reader, outrun,
                   pointed>>

\* The mailboxes and the folders have come, if only by default; the messages
\* are asked of the folder that is open by now.
LoadFolders(i) ==
    /\ calls[i].kind = "lists"
    /\ calls' = Append(Without(i), [calls[i] EXCEPT !.kind = "messages", !.to = openFolder])
    /\ UNCHANGED <<onServer, listing, choice, dragging, dialog, reader, outrun,
                   pointed, acts>>

ServeMessages(i) ==
    /\ calls[i].kind = "messages" /\ ~calls[i].back
    /\ calls' = [calls EXCEPT ![i].back = TRUE,
                   ![i].answer = {IdOf(m) : m \in {n \in Mails : lies[n] = calls[i].to}}]
    /\ UNCHANGED <<onServer, listing, choice, dragging, dialog, reader, outrun,
                   pointed, acts>>

LoadMessages(i) ==
    /\ calls[i].kind = "messages" /\ calls[i].back
    /\ messages' = calls[i].answer
    /\ listed' = calls[i].to
    /\ ChooseFirst(Without(i), calls[i].answer)
    /\ IF calls[i].closes THEN dialog' = NoDialog ELSE Disturb
    /\ outrun' = (outrun \/ \E j \in 1..(i - 1) : calls[j].kind = "messages")
    /\ UNCHANGED <<onServer, openFolder, tab, dragging, acts>>

-----------------------------------------------------------------------------
(* The reader.                                                             *)

\* Opening a message marks it as read, which renames its file.
ServeMessage(i) ==
    /\ calls[i].kind = "read" /\ ~calls[i].back
    /\ \E id \in calls[i].ids :
         /\ opened' = [opened EXCEPT ![id.mail] = @ \/ lies[id.mail] # "gone"]
         /\ calls' = [calls EXCEPT ![i].back = TRUE,
                        ![i].answer = {IF lies[id.mail] = "gone" THEN id
                                       ELSE [id EXCEPT !.read = TRUE]}]
    /\ UNCHANGED <<lies, listing, choice, dragging, dialog, reader, outrun, pointed,
                   acts>>

\* Variant: every answer is shown.
AnyAnswer(id) == selected # Nobody

AnswerIsWanted(id) == selected = id

Renamed(ids, old, new) == IF old \in ids THEN (ids \ {old}) \cup {new} ELSE ids

RenderReader(i) ==
    /\ calls[i].kind = "read" /\ calls[i].back
    /\ calls' = Without(i)
    /\ \E old \in calls[i].ids, new \in calls[i].answer :
         IF AnswerIsWanted(old)
         THEN /\ messages' = Renamed(messages, old, new)
              /\ marked' = Renamed(marked, old, new)
              /\ anchor' = IF anchor = old THEN new ELSE anchor
              /\ selected' = new
              /\ reader' = new.mail
         ELSE UNCHANGED <<messages, choice, reader>>
    /\ UNCHANGED <<onServer, openFolder, listed, tab, dragging, dialog, outrun,
                   pointed, acts>>

-----------------------------------------------------------------------------
(* Moving and removing.                                                    *)

\* Nothing selected is a notice.
AskServer(kind, ids, to) ==
    /\ Act
    /\ ids # {}
    /\ calls' = Append(calls, NewCall(kind, ids, to))
    /\ UNCHANGED <<onServer, listing, choice, dragging, dialog, reader, outrun,
                   pointed>>

MoveSelected(to) == AskServer("move", ActiveSelectionIDs, to)
RestoreSelectedFromTrash ==
    openFolder = "trash" /\ AskServer("restore", ActiveSelectionIDs, "none")
ReportSelected ==
    AskServer("report", ActiveSelectionIDs, IF openFolder = "spam" THEN "inbox" ELSE "spam")
SaveFolder(to) == AskServer("folder", {Nobody}, to)
RemoveFolder == AskServer("folder", {Nobody}, "inbox")

DragStart(id) ==
    /\ Act
    /\ dragging' = [ids |-> IF id \in marked THEN ActiveSelectionIDs ELSE {id},
                     from |-> openFolder]
    /\ UNCHANGED <<onServer, listing, choice, dialog, reader, calls, outrun, pointed>>

MayDrop(from, to) ==
    \/ from \in {"inbox", "spam", "sent"} /\ to = "trash"
    \/ from \in {"inbox", "trash"} /\ to \notin SystemPages
    \/ from = "trash" /\ to \in {"inbox", "sent"}

\* A drop that is not allowed, or elsewhere, is nothing but the end.
MoveDraggedMessage(to) ==
    /\ dragging # NotDragging
    /\ calls' = IF MayDrop(dragging.from, to)
                THEN Append(calls, NewCall("move", dragging.ids, to)) ELSE calls
    /\ dragging' = NotDragging
    /\ UNCHANGED <<onServer, listing, choice, dialog, reader, outrun, pointed, acts>>

ShowDeleteConfirmation ==
    /\ Act
    /\ ActiveSelectionIDs # {}
    /\ dialog' = [mode |-> IF openFolder = "trash" THEN "permanent" ELSE "trash",
                  named |-> NumbersOf(ActiveSelectionIDs), disturbed |-> FALSE]
    /\ UNCHANGED <<onServer, listing, choice, dragging, reader, calls, outrun,
                   pointed>>

HideDeleteConfirmation ==
    /\ dialog.mode # "hidden"
    /\ dialog' = NoDialog
    /\ UNCHANGED <<onServer, listing, choice, dragging, reader, calls, outrun, pointed,
                   acts>>

\* What is selected now is deleted.  The dialog stays until the list has come
\* back, and may be confirmed again until then.
ConfirmDeleteSelection ==
    /\ Len(calls) <= MaxUnderWay
    /\ dialog.mode # "hidden"
    /\ IF ActiveSelectionIDs = {}
       THEN dialog' = NoDialog /\ UNCHANGED calls
       ELSE /\ calls' = Append(calls, [NewCall(IF dialog.mode = "permanent" THEN "delete"
                                               ELSE "move", ActiveSelectionIDs, "trash")
                                         EXCEPT !.closes = TRUE, !.aim = dialog])
            /\ UNCHANGED dialog
    /\ UNCHANGED <<onServer, listing, choice, dragging, reader, outrun, pointed, acts>>

Put(ids, place) ==
    /\ \A m \in NumbersOf(ids) : lies[m] # "gone"
    /\ lies' = [m \in Mails |-> IF m \in NumbersOf(ids) THEN place ELSE lies[m]]

IsChange(c) == c.kind \in {"move", "delete", "report", "restore", "folder"}

\* One request for all messages, or one after the other for each.  A message
\* is restored to the folder it came from, as far as the page knows it.
ServeChange(i) ==
    /\ IsChange(calls[i]) /\ ~calls[i].back
    /\ LET c == calls[i]
           next == Earliest(c.ids)
       IN  \/ /\ c.kind = "move" /\ Put(c.ids, c.to)
              /\ calls' = [calls EXCEPT ![i].back = TRUE]
           \/ /\ c.kind = "delete" /\ \A m \in NumbersOf(c.ids) : lies[m] = "trash"
              /\ Put(c.ids, "gone")
              /\ calls' = [calls EXCEPT ![i].back = TRUE]
           \/ /\ c.kind \in {"report", "restore"}
              /\ \E to \in IF c.kind = "report" THEN {c.to} ELSE Pages \ {"trash"} :
                   Put({next}, to)
              /\ calls' = [calls EXCEPT ![i].ids = @ \ {next}, ![i].back = (c.ids = {next})]
           \/ /\ c.kind = "folder"
              /\ calls' = [calls EXCEPT ![i].back = TRUE]
              /\ UNCHANGED lies
    /\ UNCHANGED <<opened, listing, choice, dragging, dialog, reader, outrun, pointed, acts>>

\* A deletion clears the selection, a change of the folders opens another, by
\* which other rows are shown, and each loads the list.
ChangeAnswered(i) ==
    /\ IsChange(calls[i]) /\ calls[i].back
    /\ openFolder' = IF calls[i].kind = "folder" THEN calls[i].to ELSE openFolder
    /\ IF calls[i].kind = "delete"
       THEN selected' = Nobody /\ marked' = {} /\ anchor' = Nobody
       ELSE UNCHANGED choice
    /\ IF calls[i].kind = "folder" THEN Disturb ELSE UNCHANGED dialog
    /\ calls' = Append(Without(i), [Load EXCEPT !.closes = calls[i].closes])
    /\ UNCHANGED <<onServer, listed, messages, tab, dragging, reader, outrun, pointed,
                   acts>>

\* Refused, or lost: a notice, or nothing.
FailCall(i) ==
    /\ calls' = Without(i)
    /\ outrun' = TRUE
    /\ UNCHANGED <<onServer, listing, choice, dragging, dialog, reader, pointed, acts>>

-----------------------------------------------------------------------------

\* A folder was just opened.
MailViewInit ==
    /\ openFolder \in {"inbox", "trash"}
    /\ listed = "inbox" /\ messages = {} /\ tab = "focused"
    /\ lies = [m \in Mails |-> openFolder] /\ opened = [m \in Mails |-> FALSE]
    /\ selected = Nobody /\ marked = {} /\ anchor = Nobody
    /\ dragging = NotDragging /\ dialog = NoDialog /\ reader = Nobody
    /\ calls = <<Load>>
    /\ outrun = FALSE /\ pointed = FALSE
    /\ acts = 0

MailViewNext ==
    \/ \E id \in Visible : \/ Click(id) \/ CtrlClick(id) \/ ShiftClick(id)
                           \/ OpenMessageContextMenu(id) \/ DragStart(id)
    \/ \E down, extend \in BOOLEAN : ArrowKey(down, extend)
    \/ \E name \in {"focused", "other"} : ChooseTab(name)
    \/ \E f \in Pages :
         OpenFolder(f) \/ MoveSelected(f) \/ SaveFolder(f) \/ MoveDraggedMessage(f)
    \/ Refresh \/ RestoreSelectedFromTrash \/ ReportSelected \/ RemoveFolder
    \/ ShowDeleteConfirmation \/ HideDeleteConfirmation \/ ConfirmDeleteSelection
    \/ \E i \in DOMAIN calls :
         \/ LoadFolders(i) \/ ServeMessages(i) \/ LoadMessages(i)
         \/ ServeMessage(i) \/ RenderReader(i)
         \/ ServeChange(i) \/ ChangeAnswered(i) \/ FailCall(i)

MailViewSpec == MailViewInit /\ [][MailViewNext]_mailViewVars

-----------------------------------------------------------------------------

MailViewTypeOK ==
    /\ lies \in [Mails -> Pages \cup {"gone"}] /\ opened \in [Mails -> BOOLEAN]
    /\ openFolder \in Pages /\ listed \in Pages
    /\ messages \cup marked \cup dragging.ids \subseteq RowId
    /\ {selected, anchor} \subseteq RowId \cup {Nobody}
    /\ reader \in Mails \cup {Nobody}
    /\ acts \in 0..MaxActs

\* The page comes to show what it says, however its requests overlap.  When
\* no answer is outstanding the reader shows the selected message and the
\* list is that of the folder in the header; and what a confirmed deletion
\* asks for is nothing but what the dialog named, however often it is
\* confirmed and though a message that is being opened changes its id.
\* Excepted are: answers that are lost or overtake each other, a row marked
\* through its menu, and a dialog under which an answer, a click or a key
\* changes the selection, which is taken anew when it is confirmed.
ScreenIsTrue ==
    /\ calls = << >> /\ ~outrun =>
         /\ listed = openFolder
         /\ ~pointed => reader = IF selected = Nobody THEN Nobody ELSE selected.mail
    /\ \A i \in DOMAIN calls :
         calls[i].closes /\ ~IsLoad(calls[i]) /\ ~calls[i].aim.disturbed
           => NumbersOf(calls[i].ids) \subseteq calls[i].aim.named

=============================================================================
