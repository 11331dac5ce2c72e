------------------------------- MODULE Maildir -------------------------------
(***************************************************************************)
(* The Maildir of one mailbox, as webmail's requests read and rearrange    *)
(* it: opening, moving and deleting messages, one or several at a time,    *)
(* and reporting them as spam or ham.                                      *)
(*                                                                         *)
(*   internal/webmail/handlers.go   the requests and their rules           *)
(*   internal/webmail/maildir.go    the files                              *)
(*   internal/webmail/sql_store.go  CompositeStore.ReportMessage           *)
(*                                                                         *)
(* Nothing locks a Maildir: each request is a sequence of system calls     *)
(* that interleave with those of other requests and of the mail server.    *)
(* A file is found by its name, so an open file needs an identity of its   *)
(* own, its inode.  Audit entries and the answers' content are left out.   *)
(***************************************************************************)
EXTENDS Naturals, Sequences, FiniteSets

CONSTANTS
    Messages,  \* the part of a file name that says which message it is
    Requests,  \* requests that may be served at once
    None,      \* no trash origin; no request; no file
    Sent,      \* messages that were sent from here; the others were received
    Wishes,    \* what requests may ask: operation, target folder, message ids
    MaxInodes  \* bound: files created

Folders == {"inbox", "drafts", "sent", "spam", "trash", "archive", "custom"}
Flags == {"none", "unseen", "seen"}  \* no ":2,", ":2,", ":2,S"
Names == [base : Messages, flags : Flags]
Places == [folder : Folders, dir : {"new", "cur"}, name : Names]
Inodes == 1..MaxInodes
Ops == {"read", "move", "delete", "report"}

ASSUME MaildirAssumptions ==
    /\ None \notin Folders \cup Places
    /\ Sent \subseteq Messages
    /\ IsFiniteSet(Messages)
    /\ Wishes \subseteq [op : Ops, folder : Folders \cup {"none"}, ids : Seq(Names) \ {<<>>}]
    /\ \A w \in Wishes : /\ w.folder = "none" <=> w.op \in {"read", "delete"}
                         /\ w.op = "report" => w.folder \in {"spam", "inbox"}
    /\ MaxInodes \in Nat /\ MaxInodes >= Cardinality(Messages)

\* A file is empty while it has neither a body nor an origin header.
Contents == [body : BOOLEAN, origin : Folders \cup {None}]
Empty == [body |-> FALSE, origin |-> None]

VARIABLES
    disk,    \* place -> inode of the file there
    data,    \* inode -> content
    inodes,  \* inodes in use so far
    request, \* the requests being served
    spoilt   \* history: messages a file of which may have lost its body, and how

files == <<disk, data, inodes>>
vars == <<files, request, spoilt>>

Idle == [pc |-> "idle", op |-> "none", folder |-> "none", ids |-> <<>>, n |-> 0,
         path |-> None, inode |-> 0, read |-> Empty]

Place(folder, dir, name) == [folder |-> folder, dir |-> dir, name |-> name]

\* A message was delivered, filed as spam, or saved as sent.
FirstPlace(m, folder) ==
    Place(folder, IF folder = "sent" THEN "cur" ELSE "new",
          [base |-> m, flags |-> "none"])

Init == /\ \E folder \in [Messages -> {"inbox", "sent", "spam"}],
              inode \in [Messages -> 1..Cardinality(Messages)] :
              /\ \A m \in Messages : folder[m] = "sent" <=> m \in Sent
              /\ \A m, k \in Messages : inode[m] = inode[k] => m = k
              /\ disk = [p \in {FirstPlace(m, folder[m]) : m \in Messages} |->
                            inode[p.name.base]]
        /\ data = [i \in Inodes |->
                      [body |-> i <= Cardinality(Messages), origin |-> None]]
        /\ inodes = Cardinality(Messages)
        /\ request = [r \in Requests |-> Idle]
        /\ spoilt = [stopped |-> {}, overlapped |-> {}]

Exists(p) == p \in DOMAIN disk
At(r, label) == request[r].pc = label
Become(r, x) == request' = [request EXCEPT ![r] = x]
Goto(r, label) == Become(r, [request[r] EXCEPT !.pc = label])
Done(r) == Become(r, Idle)
Id(r) == request[r].ids[request[r].n]

\* The messages of which these requests have emptied a file.
HalfWritten(group) == {request[r].path.name.base : r \in {s \in group : At(s, "fill")}}

-----------------------------------------------------------------------------
(* messagePath: the mailboxes are searched for the name in a fixed order,   *)
(* then, for a name without flags, for any file of that base name.          *)

Rank == [inbox |-> 0, drafts |-> 1, sent |-> 2, spam |-> 3, trash |-> 4,
         archive |-> 5, custom |-> 6]
Position(p) ==
    6 * Rank[p.folder] + (IF p.dir = "new" THEN 0 ELSE 3)
    + CASE p.name.flags = "none" -> 0 [] p.name.flags = "unseen" -> 1
        [] OTHER -> 2

Matches(id) ==
    LET exact == {p \in DOMAIN disk : p.name = id}
        loose == {p \in DOMAIN disk : p.name.base = id.base}
    IN  IF exact # {} \/ id.flags # "none" THEN exact ELSE loose

IsFound(p, id) ==
    p \in Matches(id) /\ \A q \in Matches(id) : Position(p) <= Position(q)

-----------------------------------------------------------------------------
(* Requests.                                                               *)

\* validateMove: what was sent is restored to sent only.
MayMove(source, origin, target) ==
    CASE source = "spam" -> target = "trash"
      [] source = "sent" -> target = "trash"
      [] source = "inbox" -> target \in {"trash", "archive", "custom"}
      [] source = "trash" -> target \in IF origin = "sent" THEN {"sent"}
                                        ELSE {"inbox", "custom"}
      [] OTHER -> FALSE

\* Variant: the trash is not looked for.
MayDeleteAnywhere(source) == source \in Folders

\* validateDelete
MayDelete(source) == source = "trash"

Ask(r, op, folder, ids) ==
    /\ At(r, "idle")
    /\ Become(r, [Idle EXCEPT !.op = op, !.folder = folder, !.ids = ids, !.n = 1,
                              !.pc = IF op \in {"move", "delete"} THEN "validate"
                                     ELSE "locate"])
    /\ UNCHANGED <<files, spoilt>>

\* A request is over, or an id of it after the last one that was validated
\* or acted on is next.
NextId(r, label, over) ==
    LET x == request[r] IN
    Become(r, IF x.n < Len(x.ids)
              THEN [x EXCEPT !.pc = label, !.n = x.n + 1, !.path = None, !.inode = 0,
                             !.read = Empty]
              ELSE over)

\* A file that vanishes before it is opened, or that is empty, is not read.
\* All ids are validated before anything is done.
Validate(r) ==
    /\ At(r, "validate")
    /\ \E p \in DOMAIN disk :
          /\ IsFound(p, Id(r))
          /\ data[disk[p]] # Empty
          /\ LET x == request[r] IN
             IF x.op = "delete" THEN MayDelete(p.folder)
             ELSE MayMove(p.folder, data[disk[p]].origin, x.folder)
    /\ NextId(r, "validate", [request[r] EXCEPT !.pc = "locate", !.n = 1])
    /\ UNCHANGED <<files, spoilt>>

\* The request is refused, a message is not found (the directories are read
\* one after the other: one that is moved meanwhile may be in none of them),
\* or a system call fails: what was done is not undone.
Stop(r) ==
    /\ ~At(r, "idle")
    /\ Done(r)
    /\ spoilt' = [spoilt EXCEPT !.stopped = @ \cup HalfWritten({r})]
    /\ UNCHANGED files

\* The request looks for the message again, to act on it.
Locate(r) ==
    LET x == request[r] IN
    /\ At(r, "locate")
    /\ \E p \in DOMAIN disk :
          /\ IsFound(p, Id(r))
          /\ Become(r, [x EXCEPT !.path = p,
               !.pc = CASE x.op = "read" -> "open"
                        [] x.op = "delete" -> "remove"
                        [] x.folder = "trash" /\ p.folder # "trash" -> "tag"
                        [] OTHER -> "rename"])
    /\ UNCHANGED <<files, spoilt>>

-----------------------------------------------------------------------------
(* Files.                                                                  *)

Rename(p, q) ==
    disk' = [x \in (DOMAIN disk \ {p}) \cup {q} |->
                IF x = q THEN disk[p] ELSE disk[x]]

Seen(name) == [name EXCEPT !.flags = "seen"]

\* markMessageSeen
Open(r) ==
    LET p == request[r].path IN
    /\ At(r, "open")
    /\ IF p.dir = "new"
       THEN Exists(p) /\ Rename(p, Place(p.folder, "cur", Seen(p.name)))
       ELSE UNCHANGED disk
    /\ Done(r)
    /\ UNCHANGED <<data, inodes, spoilt>>

\* Variant: the origin is not recorded.
TagSkipped(r) ==
    /\ At(r, "tag")
    /\ Exists(request[r].path)
    /\ Goto(r, "rename")
    /\ UNCHANGED <<files, spoilt>>

\* addTrashOriginHeader reads the file, which another request may have emptied;
\* one that has the header keeps it.
Tag(r) ==
    LET p == request[r].path IN
    /\ At(r, "tag")
    /\ Exists(p)
    /\ IF data[disk[p]].origin # None THEN Goto(r, "rename")
       ELSE Become(r, [request[r] EXCEPT !.pc = "truncate", !.read = data[disk[p]]])
    /\ spoilt' = IF data[disk[p]] = Empty
                 THEN [spoilt EXCEPT !.overlapped = @ \cup {p.name.base}] ELSE spoilt
    /\ UNCHANGED files

\* os.WriteFile opens the path, which creates or empties the file there,
Truncate(r) ==
    LET p == request[r].path
        i == IF Exists(p) THEN disk[p] ELSE inodes + 1
    IN
    /\ At(r, "truncate")
    /\ i \in Inodes
    /\ disk' = [x \in DOMAIN disk \cup {p} |-> IF x = p THEN i ELSE disk[x]]
    /\ data' = [data EXCEPT ![i] = Empty]
    /\ inodes' = IF Exists(p) THEN inodes ELSE i
    /\ Become(r, [request[r] EXCEPT !.pc = "fill", !.inode = i])
    /\ UNCHANGED spoilt

\* Variant: the header is written without what was read.
FillWithHeader(r) ==
    LET x == request[r] IN
    /\ At(r, "fill")
    /\ data' = [data EXCEPT ![x.inode] = [body |-> FALSE, origin |-> x.path.folder]]
    /\ Goto(r, "rename")
    /\ UNCHANGED <<disk, inodes, spoilt>>

\* and writes to the open file, wherever it is by now.
Fill(r) ==
    LET x == request[r] IN
    /\ At(r, "fill")
    /\ data' = [data EXCEPT ![x.inode] = [body |-> x.read.body,
                                          origin |-> x.path.folder]]
    /\ Goto(r, "rename")
    /\ UNCHANGED <<disk, inodes, spoilt>>

\* MoveMessage ends with the rename, which replaces a file of that name.
Move(r) ==
    LET x == request[r]
        q == Place(x.folder, "new", x.path.name)
    IN
    /\ At(r, "rename")
    /\ Exists(x.path)
    /\ Rename(x.path, q)
    /\ NextId(r, "locate", Idle)
    /\ UNCHANGED <<data, inodes, spoilt>>

RemoveFile(r) ==
    LET p == request[r].path IN
    /\ At(r, "remove")
    /\ Exists(p)
    /\ disk' = [x \in DOMAIN disk \ {p} |-> disk[x]]
    /\ NextId(r, "locate", Idle)
    /\ UNCHANGED <<data, inodes, spoilt>>

\* DeleteFolder removes a folder of the user's own with all that is in it.
DeleteFolder ==
    /\ disk' = [p \in {q \in DOMAIN disk : q.folder # "custom"} |-> disk[p]]
    /\ disk' # disk
    /\ UNCHANGED <<data, inodes, request, spoilt>>

\* The mail server notices a message, or marks it as seen.
MailServerRenames(p) ==
    /\ \/ p.dir = "new" /\ p.name.flags = "none"
       \/ p.dir = "cur" /\ p.name.flags = "unseen"
    /\ Rename(p, Place(p.folder, "cur",
                       [p.name EXCEPT !.flags = IF p.dir = "new" THEN "unseen"
                                                ELSE "seen"]))
    /\ UNCHANGED <<data, inodes, request, spoilt>>

\* webmail is restarted.
Restart ==
    /\ request' = [r \in Requests |-> Idle]
    /\ request' # request
    /\ spoilt' = [spoilt EXCEPT !.stopped = @ \cup HalfWritten(Requests)]
    /\ UNCHANGED files

-----------------------------------------------------------------------------

Step(r) == \/ Validate(r) \/ Stop(r) \/ Locate(r)
           \/ Open(r) \/ Tag(r) \/ Truncate(r) \/ Fill(r) \/ Move(r) \/ RemoveFile(r)

Environment == DeleteFolder \/ Restart
MailServer == \E p \in DOMAIN disk : MailServerRenames(p)

WebmailNext == \/ \E r \in Requests, w \in Wishes : Ask(r, w.op, w.folder, w.ids)
               \/ \E r \in Requests : Step(r)
               \/ Environment

Next == WebmailNext \/ MailServer

Spec == Init /\ [][Next]_vars

\* No mail client has the mailbox open.
WebmailSpec == Init /\ [][WebmailNext]_vars

-----------------------------------------------------------------------------
(* Properties                                                              *)

Acting == {"open", "tag", "truncate", "fill", "rename", "remove"}
PCs == Acting \cup {"idle", "validate", "locate"}

\* Each file is in one place, and each request at a place in its code with
\* what it needs there.
TypeOK ==
    /\ DOMAIN disk \subseteq Places
    /\ \A p \in DOMAIN disk : disk[p] \in 1..inodes
    /\ data \in [Inodes -> Contents]
    /\ inodes \in 0..MaxInodes
    /\ \A p, q \in DOMAIN disk : disk[p] = disk[q] => p = q
    /\ \A r \in Requests :
          /\ request[r] \in [pc : PCs, op : Ops \cup {"none"},
                             folder : Folders \cup {"none"},
                             ids : {<<>>} \cup {w.ids : w \in Wishes}, n : Nat,
                             path : Places \cup {None}, inode : 0..inodes,
                             read : Contents]
          /\ ~At(r, "idle") => request[r].n \in 1..Len(request[r].ids)
          /\ request[r].pc \in Acting => request[r].path # None
          /\ At(r, "fill") => request[r].inode # 0
    /\ spoilt \in [stopped : SUBSET Messages, overlapped : SUBSET Messages]

\* Without a report, a message that was sent is found in the sent folder and
\* the trash and nowhere else, however requests overlap: the trash may lose
\* sight of where a file came from only while it cannot be read.
SentStaysApart ==
    \A p \in DOMAIN disk : p.name.base \in Sent => p.folder \in {"sent", "trash"}

CopiesOf(m) == {p \in DOMAIN disk : p.name.base = m}
Deleting(r, m) == At(r, "remove") /\ request[r].path.name.base = m

\* A request has emptied the file in this place and holds what was in it.
Rewrites(r, p) == At(r, "fill") /\ request[r].inode = disk[p] /\ request[r].read.body
Readable(m) == \E p \in CopiesOf(m) : data[disk[p]].body \/ \E r \in Requests : Rewrites(r, p)
Spoilt(m) == m \in spoilt.stopped \cup spoilt.overlapped

\* The body of a message is lost only when a request to delete it removes the
\* last file, or the folder with all its files is deleted: a move never loses
\* it, also when another request moves it at the same time, to the same place or
\* to another, and while its file is being rewritten.  Not so in two cases, which
\* the code leaves open: the request that rewrites the file is stopped in between,
\* or another one reads the file in between, to rewrite it too.
MovesKeepMessages ==
    [][\A m \in Messages :
          Readable(m) /\ ~Readable(m)' =>
              \/ \E r \in Requests : Deleting(r, m) /\ ~Deleting(r, m)'
              \/ (\A p \in CopiesOf(m) : p.folder = "custom") /\ UNCHANGED request
              \/ Spoilt(m)']_vars

\* Only a file of the trash is removed.
DeletesOnlyFromTrash ==
    \A r \in Requests :
        At(r, "remove") /\ Exists(request[r].path) => request[r].path.folder = "trash"

\* One request at a time, without a mail client: a Mailbox, interrupted or not.
FolderOf(m) == (CHOOSE p \in CopiesOf(m) : TRUE).folder
ShownIn == [m \in {k \in Messages : CopiesOf(k) # {}} |-> FolderOf(m)]
Owned == INSTANCE Mailbox WITH in <- ShownIn
ImplementsMailbox == Owned!Spec

=============================================================================
