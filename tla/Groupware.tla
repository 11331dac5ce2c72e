------------------------------ MODULE Groupware ------------------------------
(***************************************************************************)
(* Address books and calendars: one table each, written by DAV clients,    *)
(* which name an object by its href, and by webmail, which names it by its *)
(* UID and rewrites it.                                                    *)
(*                                                                         *)
(*   internal/groupware/handlers.go, sql_store.go   PUT, GET, REPORT       *)
(*   internal/webmail/handlers.go, sql_store.go     contacts, events       *)
(*                                                                         *)
(* Every request is one statement on the objects of the signed-in account; *)
(* a request that is refused changes nothing and is no step.  A body is    *)
(* what the two sides read in it: its UID line, if it has one, and its     *)
(* text (FN and EMAIL, or DTSTART and DTEND).                              *)
(***************************************************************************)
EXTENDS Naturals, FiniteSets

CONSTANTS
    Accounts,
    Hrefs,        \* names that DAV clients give
    Uids,         \* UIDs that DAV clients give, or that stand in for them
    UidOfHref,    \* the href without its suffix, as a UID
    WebUids,      \* UIDs that webmail makes; the href is the UID with a suffix
    Texts,
    Nil,         \* no UID line, no columns, no answer
    MaxRequests   \* bound: requests that change something

Kinds == {"addressbooks", "calendars"}
Collections == Kinds \X Accounts

ASSUME GroupwareAssumptions ==
    /\ UidOfHref \in [Hrefs -> Uids]
    /\ Hrefs \intersect WebUids = {} /\ Uids \intersect WebUids = {}
    /\ Nil \notin Uids \cup WebUids \cup Texts
    /\ MaxRequests \in Nat

VARIABLES
    objects,   \* collection -> its rows
    answered,  \* collection -> href -> the body a client was told is stored
    made,      \* UIDs webmail has made
    requests

groupwareVars == <<objects, answered, made, requests>>

AnyHref == Hrefs \cup WebUids
AnyUid == Uids \cup WebUids
Body == [uid : AnyUid \cup {Nil}, text : Texts]

\* A row: its two keys, the body, and the columns webmail lists.
Row == [href : AnyHref, uid : AnyUid, body : Body, shown : Texts \cup {Nil}]

Write == requests < MaxRequests /\ requests' = requests + 1

AtHref(c, h) == {r \in objects[c] : r.href = h}
AtUid(c, u) == {r \in objects[c] : r.uid = u}

Swap(c, old, new) == objects' = [objects EXCEPT ![c] = (@ \ old) \cup new]

-----------------------------------------------------------------------------
(* DAV.                                                                    *)

ObjectUid(h, body) == IF body.uid # Nil THEN body.uid
                      ELSE IF h \in WebUids THEN h ELSE UidOfHref[h]

\* PutContact stores what it reads in the card; PutCalendarObject knows
\* nothing of the columns for the time and leaves them.
Shown(c, body, before) == IF c[1] = "addressbooks" THEN body.text ELSE before

\* Variant: the UID of the row is not updated.
KeepUid(r, uid) == r.uid

NewUid(r, uid) == uid

\* INSERT ... ON DUPLICATE KEY UPDATE with a key on the href and one on the
\* UID: the row of the href is updated if there is one, else the row of the
\* UID, whose href stays; an update that breaks the other key is refused.
PutObject(c, h, body) ==
    /\ Write
    /\ LET uid == ObjectUid(h, body)
           hit == IF AtHref(c, h) # {} THEN AtHref(c, h) ELSE AtUid(c, uid)
           moved == AtHref(c, h) = {} /\ AtUid(c, uid) # {}
       IN  /\ AtHref(c, h) # {} => AtUid(c, uid) \subseteq AtHref(c, h)
           /\ Swap(c, hit,
                IF hit = {}
                THEN {[href |-> h, uid |-> uid, body |-> body, shown |-> Shown(c, body, Nil)]}
                ELSE {[r EXCEPT !.uid = NewUid(r, uid), !.body = body,
                                !.shown = Shown(c, body, @)] : r \in hit})
           /\ answered' = [answered EXCEPT ![c] =
                [g \in AnyHref |-> CASE g \in {r.href : r \in hit} /\ moved -> Nil
                                     [] g = h /\ ~moved -> body
                                     [] OTHER -> @[g]]]
    /\ UNCHANGED made

\* What a GET of the href answers.
GetObject(c, h) == {r.body : r \in AtHref(c, h)}

-----------------------------------------------------------------------------
(* Webmail.                                                                *)

Forget(c, rows) ==
    answered' = [answered EXCEPT ![c] =
                   [g \in AnyHref |-> IF g \in {r.href : r \in rows} THEN Nil ELSE @[g]]]

CreateObject(c, text) ==
    /\ Write
    /\ \E u \in WebUids \ made :
         /\ made' = made \cup {u}
         /\ AtHref(c, u) = {} /\ AtUid(c, u) = {}
         /\ Swap(c, {}, {[href |-> u, uid |-> u, body |-> [uid |-> u, text |-> text],
                             shown |-> text]})
    /\ UNCHANGED answered

\* The body is written anew, with the UID the row has.
UpdateObject(c, u, text) ==
    /\ Write
    /\ AtUid(c, u) # {}
    /\ Swap(c, AtUid(c, u), {[r EXCEPT !.body = [uid |-> u, text |-> text],
                                          !.shown = text] : r \in AtUid(c, u)})
    /\ Forget(c, AtUid(c, u))
    /\ UNCHANGED made

DeleteObject(c, u) ==
    /\ Write
    /\ AtUid(c, u) # {}
    /\ Swap(c, AtUid(c, u), {})
    /\ Forget(c, AtUid(c, u))
    /\ UNCHANGED made

\* What webmail lists.
List(c) == {<<r.uid, r.shown>> : r \in objects[c]}

-----------------------------------------------------------------------------

GroupwareInit ==
    /\ objects = [c \in Collections |-> {}]
    /\ answered = [c \in Collections |-> [h \in AnyHref |-> Nil]]
    /\ made = {}
    /\ requests = 0

GroupwareNext ==
    \E c \in Collections :
      \/ \E h \in Hrefs \cup made, u \in Uids \cup made \cup {Nil}, text \in Texts :
           PutObject(c, h, [uid |-> u, text |-> text])
      \/ \E text \in Texts : CreateObject(c, text)
      \/ \E u \in AnyUid, text \in Texts : UpdateObject(c, u, text)
      \/ \E u \in AnyUid : DeleteObject(c, u)

GroupwareSpec == GroupwareInit /\ [][GroupwareNext]_groupwareVars

-----------------------------------------------------------------------------

GroupwareTypeOK ==
    /\ objects \in [Collections -> SUBSET Row]
    /\ answered \in [Collections -> [AnyHref -> Body \cup {Nil}]]
    /\ made \subseteq WebUids
    /\ requests \in 0..MaxRequests

\* The two sides never fall apart, whatever sequence of PUTs, edits and
\* deletions they make: a body that a client was told is stored is what a GET
\* of its href answers until somebody else changes it; both keys of a
\* collection name one row; the UID webmail edits by is the one in the body,
\* so that its edit is an edit of the same object to every client; and the
\* contact webmail lists is the contact in the card.  Excepted is the PUT of
\* a UID that is stored under another href: it is answered as stored, at an
\* href that does not exist.
PutIsReadable ==
    \A c \in Collections :
      /\ \A h \in AnyHref : answered[c][h] # Nil => GetObject(c, h) = {answered[c][h]}
      /\ \A r \in objects[c] : AtHref(c, r.href) = {r} /\ AtUid(c, r.uid) = {r}
      /\ \A r \in objects[c] : r.body.uid \in {Nil, r.uid}
      /\ c[1] = "addressbooks"
           => \A r \in objects[c] : <<r.uid, r.body.text>> \in List(c)

=============================================================================
