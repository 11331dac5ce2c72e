--------------------------- MODULE ServicesProofs ---------------------------
(***************************************************************************)
(* Proofs about what the server keeps and does for its users, for every    *)
(* set of requests, accounts, filters, collections and clients and         *)
(* whatever the bounds:                                                    *)
(*                                                                         *)
(*   Filters         types; the active script follows the rows             *)
(*   Groupware       types; what was put can be read, one object per name  *)
(*   ProtocolAccess  types; programs are let in as the policy has it       *)
(*   Maildir         types; moves keep messages; what was sent stays       *)
(*                   apart; one request at a time is a Mailbox             *)
(*   MailView        types; the page comes to show what it says            *)
(*                                                                         *)
(* They share no state.                                                    *)
(***************************************************************************)
EXTENDS Filters, Groupware, ProtocolAccess, Maildir, MailView, FiniteSetTheorems,
        SequenceTheorems, WellFoundedInduction, TLAPS

-----------------------------------------------------------------------------
(* Filters: the inductive invariant.                                       *)

SyncPCs == {"idle", "list", "next", "clear", "link", "rename", "done", "failed"}

SyncType == [pc : SyncPCs, startup : BOOLEAN, boxes : SUBSET Mailboxes, todo : SUBSET Mailboxes,
             box : Mailboxes \cup {NoScript}, seen : [Mailboxes -> SUBSET Filter],
             alone : BOOLEAN]

FiltersTypes ==
    /\ rows \in [Mailboxes -> SUBSET Filter]
    /\ script \in [Mailboxes -> (SUBSET Filter) \cup {NoScript}]
    /\ active \in [Mailboxes -> BOOLEAN]
    /\ tempLink \in [Mailboxes -> BOOLEAN]
    /\ sync \in [Syncers -> SyncType]
    /\ syncs \in 0..MaxSyncs

\* What is to come is part of the work, at first all of it, and the mailbox at
\* hand is one.
WorkFormed ==
    \A p \in Syncers :
      /\ sync[p].todo \subseteq sync[p].boxes
      /\ sync[p].pc \in {"clear", "link", "rename"} => sync[p].box \in Mailboxes
      /\ sync[p].pc = "list" => sync[p].todo = sync[p].boxes
      /\ sync[p].pc = "done" => sync[p].todo = {}

\* Whoever is alone has nobody beside it.
AloneIsAlone ==
    \A p, q \in Syncers : sync[p].alone /\ p # q => ~Syncing(q)

\* Past the list, whoever is alone has seen the rows as they are.
PastList == {"next", "clear", "link", "rename", "done"}
SeenIsCurrent ==
    \A p \in Syncers : sync[p].alone /\ sync[p].pc \in PastList =>
      \A m \in sync[p].boxes : sync[p].seen[m] = rows[m]

\* What it has dealt with is written, and linked unless it is at hand.
DealtWith ==
    \A p \in Syncers : sync[p].alone /\ sync[p].pc \in PastList =>
      \A m \in sync[p].boxes \ sync[p].todo :
        /\ script[m] = {f \in rows[m] : f.enabled}
        /\ active[m] \/ (sync[p].pc \in {"clear", "link", "rename"} /\ m = sync[p].box)

FiltersIInv == FiltersTypes /\ WorkFormed /\ AloneIsAlone /\ SeenIsCurrent /\ DealtWith

-----------------------------------------------------------------------------
(* Filters: initial states.                                                *)

\* A process that does nothing.
LEMMA NoSyncType == NoSync \in SyncType
BY DEF NoSync, SyncType, SyncPCs

\* Nothing has begun.
LEMMA FiltersInitIInv == FiltersInit => FiltersIInv
<1> SUFFICES ASSUME FiltersInit PROVE FiltersIInv
  OBVIOUS
<1>1. FiltersTypes
  BY NoSyncType, FiltersAssumptions DEF FiltersInit, FiltersTypes, FiltersAssumptions
<1>2. \A p \in Syncers : sync[p] = NoSync
  BY DEF FiltersInit
<1> QED
  BY <1>1, <1>2 DEF FiltersIInv, WorkFormed, AloneIsAlone, SeenIsCurrent, DealtWith, NoSync, PastList

-----------------------------------------------------------------------------
(* Filters: beginning.                                                     *)

\* A request that writes its row takes the solitude of all others.
LEMMA SetRowsKeeps ==
  ASSUME FiltersIInv, NEW p \in Syncers, NEW m \in Mailboxes, NEW F \in SUBSET Filter,
         SetRows(p, m, F)
  PROVE  FiltersIInv'
<1> DEFINE fresh == [NoSync EXCEPT !.pc = "list", !.boxes = {m}, !.todo = {m},
                                   !.alone = \A o \in Syncers \ {p} : ~Syncing(o)]
<1>1. /\ fresh \in SyncType /\ fresh.pc = "list" /\ fresh.boxes = {m} /\ fresh.todo = {m}
      /\ fresh.alone => \A o \in Syncers \ {p} : ~Syncing(o)
  BY DEF NoSync, SyncType, SyncPCs
<1>2. /\ sync'[p] = fresh
      /\ \A q \in Syncers \ {p} : sync'[q] = [sync[q] EXCEPT !.alone = FALSE]
      /\ sync' = [q \in Syncers |-> IF q = p THEN fresh ELSE [sync[q] EXCEPT !.alone = FALSE]]
  BY DEF SetRows
<1> HIDE DEF fresh
<1>3. \A q \in Syncers \ {p} : /\ sync'[q] \in SyncType /\ ~sync'[q].alone
                               /\ sync'[q].pc = sync[q].pc /\ sync'[q].todo = sync[q].todo
                               /\ sync'[q].boxes = sync[q].boxes /\ sync'[q].box = sync[q].box
  <2> SUFFICES ASSUME NEW q \in Syncers \ {p}
      PROVE  /\ sync'[q] \in SyncType /\ ~sync'[q].alone
             /\ sync'[q].pc = sync[q].pc /\ sync'[q].todo = sync[q].todo
             /\ sync'[q].boxes = sync[q].boxes /\ sync'[q].box = sync[q].box
    OBVIOUS
  <2>1. sync[q] \in SyncType
    BY DEF FiltersIInv, FiltersTypes
  <2>2. sync'[q] = [sync[q] EXCEPT !.alone = FALSE]
    BY <1>2
  <2> QED BY <2>1, <2>2 DEF SyncType
<1>4. FiltersTypes'
  <2>1. rows' \in [Mailboxes -> SUBSET Filter]
    BY DEF SetRows, FiltersIInv, FiltersTypes
  <2>2. sync' \in [Syncers -> SyncType]
    BY <1>1, <1>2, <1>3
  <2>3. syncs' \in 0..MaxSyncs
    <3>1. syncs \in 0..MaxSyncs
      BY DEF FiltersIInv, FiltersTypes
    <3>2. syncs < MaxSyncs /\ syncs' = syncs + 1
      BY DEF SetRows, NextSync
    <3> QED BY <3>1, <3>2, FiltersAssumptions DEF FiltersAssumptions
  <2> QED BY <2>1, <2>2, <2>3 DEF SetRows, FiltersIInv, FiltersTypes
<1>5. WorkFormed'
  BY ZenonT(40), <1>1, <1>2, <1>3 DEF FiltersIInv, WorkFormed
<1>6. AloneIsAlone'
  BY <1>1, <1>2, <1>3 DEF AloneIsAlone, Syncing
<1>7. SeenIsCurrent' /\ DealtWith'
  BY <1>1, <1>2, <1>3 DEF SeenIsCurrent, DealtWith, PastList
<1> QED BY <1>4, <1>5, <1>6, <1>7 DEF FiltersIInv

\* A start-up ends everything else and has seen every row.
LEMMA StartSyncKeeps ==
  ASSUME FiltersIInv, NEW p \in Syncers, SyncAllFilters(p)
  PROVE  FiltersIInv'
<1> DEFINE filtered == {m \in Mailboxes : rows[m] # {}}
           fresh == [NoSync EXCEPT !.pc = "next", !.startup = TRUE, !.boxes = filtered,
                                   !.todo = filtered, !.seen = rows, !.alone = TRUE]
<1>1. /\ fresh \in SyncType /\ fresh.pc = "next" /\ fresh.boxes = filtered
      /\ fresh.todo = filtered /\ fresh.seen = rows
  BY DEF NoSync, SyncType, SyncPCs, FiltersIInv, FiltersTypes
<1>2. /\ sync'[p] = fresh
      /\ \A q \in Syncers \ {p} : sync'[q] = NoSync
      /\ sync' \in [Syncers -> {fresh, NoSync}]
  BY DEF SyncAllFilters
<1>3. UNCHANGED <<rows, script, active, tempLink>> /\ syncs' \in 0..MaxSyncs
  BY FiltersAssumptions
     DEF SyncAllFilters, NextSync, FiltersIInv, FiltersTypes, FiltersAssumptions
<1> HIDE DEF fresh, filtered
<1>4. \A q \in Syncers \ {p} : /\ sync'[q].pc = "idle" /\ ~sync'[q].alone
                               /\ sync'[q].todo = {} /\ sync'[q].boxes = {}
  BY <1>2 DEF NoSync
<1>5. FiltersTypes'
  BY <1>1, <1>2, <1>3, NoSyncType DEF FiltersIInv, FiltersTypes
<1>6. WorkFormed'
  BY <1>1, <1>2, <1>4 DEF WorkFormed
<1>7. AloneIsAlone'
  BY <1>2, <1>4 DEF AloneIsAlone, Syncing
<1>8. SeenIsCurrent' /\ DealtWith'
  BY <1>1, <1>2, <1>3, <1>4 DEF SeenIsCurrent, DealtWith, PastList
<1> QED BY <1>5, <1>6, <1>7, <1>8 DEF FiltersIInv

-----------------------------------------------------------------------------
(* Filters: going on.                                                      *)

\* A process that is at work goes on at another place and changes nothing of
\* its record but what the label means.
GoesOn(p, label) ==
    /\ Syncing(p)
    /\ sync' \in [Syncers -> SyncType]
    /\ \A q \in Syncers \ {p} : sync'[q] = sync[q]
    /\ sync'[p].pc = label /\ label # "list"
    /\ sync'[p].boxes = sync[p].boxes
    /\ sync'[p].alone = sync[p].alone
    /\ UNCHANGED <<rows, syncs>>

\* Nobody but p is alone then.
LEMMA OthersHaveCompany ==
  ASSUME FiltersIInv, NEW p \in Syncers, NEW label, GoesOn(p, label)
  PROVE  /\ \A q \in Syncers \ {p} : ~sync'[q].alone
         /\ AloneIsAlone'
<1>1. \A q \in Syncers \ {p} : ~sync'[q].alone
  BY DEF GoesOn, FiltersIInv, AloneIsAlone
<1>2. AloneIsAlone'
  BY <1>1 DEF GoesOn, FiltersIInv, AloneIsAlone, Syncing
<1> QED BY <1>1, <1>2

\* A step of p has only p's part of the invariant to keep.
LEMMA SyncStepKeeps ==
  ASSUME FiltersIInv, NEW p \in Syncers, NEW label, GoesOn(p, label), FiltersTypes',
         sync'[p].todo \subseteq sync[p].todo,
         label \in {"clear", "link", "rename"} => sync'[p].box \in Mailboxes,
         label = "done" => sync'[p].todo = {},
         sync'[p].alone /\ label \in PastList =>
           /\ \A m \in sync'[p].boxes : sync'[p].seen[m] = rows[m]
           /\ \A m \in sync'[p].boxes \ sync'[p].todo :
                /\ script'[m] = {f \in rows[m] : f.enabled}
                /\ active'[m] \/ (label \in {"clear", "link", "rename"} /\ m = sync'[p].box)
  PROVE  FiltersIInv'
<1>1. WorkFormed'
  BY DEF GoesOn, FiltersIInv, WorkFormed
<1>2. AloneIsAlone' /\ \A q \in Syncers \ {p} : ~sync'[q].alone
  BY OthersHaveCompany
<1>3. SeenIsCurrent'
  BY <1>2 DEF GoesOn, SeenIsCurrent
<1>4. DealtWith'
  BY <1>2 DEF GoesOn, DealtWith
<1> QED BY <1>1, <1>2, <1>3, <1>4 DEF FiltersIInv

\* The rows are listed.
LEMMA ListSyncKeeps ==
  ASSUME FiltersIInv, NEW p \in Syncers, ListFilters(p)
  PROVE  FiltersIInv'
<1> DEFINE found == [m \in Mailboxes |-> IF m \in sync[p].boxes THEN rows[m] ELSE {}]
<1>1. found \in [Mailboxes -> SUBSET Filter]
  BY DEF FiltersIInv, FiltersTypes
<1>2. /\ sync' = [sync EXCEPT ![p] = [sync[p] EXCEPT !.pc = "next", !.seen = found]]
      /\ sync[p].pc = "list" /\ UNCHANGED <<rows, script, active, tempLink, syncs>>
  BY DEF ListFilters
<1>3. \A m \in sync[p].boxes : found[m] = rows[m]
  BY DEF FiltersIInv, FiltersTypes, SyncType
<1> HIDE DEF found
<1>4. /\ sync'[p] \in SyncType /\ sync'[p].pc = "next" /\ sync'[p].seen = found
      /\ sync'[p].boxes = sync[p].boxes /\ sync'[p].todo = sync[p].todo
      /\ sync'[p].alone = sync[p].alone
  BY <1>1, <1>2 DEF FiltersIInv, FiltersTypes, SyncType, SyncPCs
<1>5. GoesOn(p, "next")
  BY <1>2, <1>4 DEF GoesOn, Syncing, FiltersIInv, FiltersTypes
<1>6. FiltersTypes'
  BY <1>2, <1>5 DEF GoesOn, FiltersIInv, FiltersTypes
<1> QED
  BY <1>2, <1>3, <1>4, <1>5, <1>6, SyncStepKeeps DEF FiltersIInv, WorkFormed

\* The script of a mailbox is written.
LEMMA WriteKeeps ==
  ASSUME FiltersIInv, NEW p \in Syncers, NEW m \in Mailboxes, WriteScript(p, m)
  PROVE  FiltersIInv'
<1> DEFINE rendered == {f \in sync[p].seen[m] : f.enabled}
<1>1. /\ sync' = [sync EXCEPT ![p] = [sync[p] EXCEPT !.pc = "clear", !.box = m,
                                                    !.todo = sync[p].todo \ {m}]]
      /\ script' = [script EXCEPT ![m] = rendered]
      /\ sync[p].pc = "next" /\ m \in sync[p].todo
      /\ UNCHANGED <<rows, active, tempLink, syncs>>
  BY DEF WriteScript, RenderSieveFilters
<1>2. rendered \in SUBSET Filter
  BY DEF FiltersIInv, FiltersTypes, SyncType
<1>3. sync[p].alone => rendered = {f \in rows[m] : f.enabled}
  BY <1>1 DEF FiltersIInv, SeenIsCurrent, PastList, WorkFormed
<1> HIDE DEF rendered
<1>4. /\ sync'[p] \in SyncType /\ sync'[p].pc = "clear" /\ sync'[p].seen = sync[p].seen
      /\ sync'[p].boxes = sync[p].boxes /\ sync'[p].todo = sync[p].todo \ {m}
      /\ sync'[p].alone = sync[p].alone /\ sync'[p].box = m
  BY <1>1 DEF FiltersIInv, FiltersTypes, SyncType, SyncPCs
<1>5. GoesOn(p, "clear")
  BY <1>1, <1>4 DEF GoesOn, Syncing, FiltersIInv, FiltersTypes
<1>6. FiltersTypes'
  BY <1>1, <1>2, <1>5 DEF GoesOn, FiltersIInv, FiltersTypes
<1>7. sync[p].alone => \A n \in sync[p].boxes \ sync'[p].todo :
                         /\ script'[n] = {f \in rows[n] : f.enabled}
                         /\ active'[n] \/ n = m
  <2> SUFFICES ASSUME sync[p].alone, NEW n \in sync[p].boxes \ sync'[p].todo
      PROVE  script'[n] = {f \in rows[n] : f.enabled} /\ (active'[n] \/ n = m)
    OBVIOUS
  <2>1. CASE n = m
    BY <2>1, <1>1, <1>3 DEF FiltersIInv, FiltersTypes
  <2>2. CASE n # m
    BY SMTT(30), <2>2, <1>1, <1>4 DEF FiltersIInv, DealtWith, PastList, FiltersTypes, SyncType
  <2> QED BY <2>1, <2>2
<1>8. sync[p].alone => \A n \in sync[p].boxes : sync[p].seen[n] = rows[n]
  BY <1>1 DEF FiltersIInv, SeenIsCurrent, PastList
<1> QED
  BY <1>4, <1>5, <1>6, <1>7, <1>8, SyncStepKeeps

\* A step that only moves on and touches links.
LEMMA MoveKeeps ==
  ASSUME FiltersIInv, NEW p \in Syncers, NEW label \in SyncPCs \ {"list"},
         sync' = [sync EXCEPT ![p].pc = label], Syncing(p),
         UNCHANGED <<rows, script, syncs>>,
         active' \in [Mailboxes -> BOOLEAN], tempLink' \in [Mailboxes -> BOOLEAN],
         label \in {"clear", "link", "rename"} =>
           sync[p].pc \in {"clear", "link", "rename"} /\ active' = active,
         label = "done" => sync[p].pc = "next" /\ sync[p].todo = {} /\ active' = active,
         label = "next" => sync[p].pc = "rename" /\ active' = [active EXCEPT ![sync[p].box] = TRUE]
  PROVE  FiltersIInv'
<1>1. /\ sync'[p] \in SyncType /\ sync'[p].pc = label /\ sync'[p].seen = sync[p].seen
      /\ sync'[p].boxes = sync[p].boxes /\ sync'[p].todo = sync[p].todo
      /\ sync'[p].alone = sync[p].alone /\ sync'[p].box = sync[p].box
  <2>1. sync[p] \in SyncType
    BY DEF FiltersIInv, FiltersTypes
  <2>2. sync'[p] = [sync[p] EXCEPT !.pc = label]
    BY DEF FiltersIInv, FiltersTypes
  <2> QED BY <2>1, <2>2 DEF SyncType
<1>2. GoesOn(p, label)
  BY <1>1 DEF GoesOn, FiltersIInv, FiltersTypes
<1>3. FiltersTypes'
  BY <1>2 DEF GoesOn, FiltersIInv, FiltersTypes
<1>4. sync[p].alone /\ label \in PastList =>
        /\ sync[p].pc \in PastList
        /\ \A m \in sync[p].boxes : sync[p].seen[m] = rows[m]
  BY DEF FiltersIInv, SeenIsCurrent, PastList
<1>5. sync[p].alone /\ label \in PastList =>
        \A m \in sync[p].boxes \ sync[p].todo :
          /\ script[m] = {f \in rows[m] : f.enabled}
          /\ active'[m] \/ (label \in {"clear", "link", "rename"} /\ m = sync[p].box)
  BY <1>4 DEF FiltersIInv, DealtWith, PastList, FiltersTypes, SyncType
<1>6. label \in {"clear", "link", "rename"} => sync[p].box \in Mailboxes
  BY DEF FiltersIInv, WorkFormed
<1> QED
  BY <1>1, <1>2, <1>3, <1>4, <1>5, <1>6, SyncStepKeeps

\* The link is made anew beside the old one and renamed over it.
LEMMA LinkKeeps ==
  ASSUME FiltersIInv, NEW p \in Syncers, RemoveTempLink(p) \/ Symlink(p) \/ RenameLink(p)
  PROVE  FiltersIInv'
<1>1. CASE RemoveTempLink(p)
  BY <1>1, MoveKeeps DEF RemoveTempLink, Syncing, SyncPCs, FiltersIInv, FiltersTypes
<1>2. CASE Symlink(p)
  BY <1>2, MoveKeeps DEF Symlink, Syncing, SyncPCs, FiltersIInv, FiltersTypes
<1>3. CASE RenameLink(p)
  BY <1>3, MoveKeeps DEF RenameLink, Syncing, SyncPCs, FiltersIInv, FiltersTypes
<1> QED BY <1>1, <1>2, <1>3

\* A sync ends, well or not.
LEMMA EndSyncKeeps ==
  ASSUME FiltersIInv, NEW p \in Syncers, EndSync(p) \/ FailSync(p)
  PROVE  FiltersIInv'
<1>1. CASE EndSync(p)
  BY <1>1, MoveKeeps DEF EndSync, Syncing, SyncPCs, FiltersIInv, FiltersTypes
<1>2. CASE FailSync(p)
  BY <1>2, MoveKeeps DEF FailSync, Syncing, SyncPCs, FiltersIInv, FiltersTypes
<1> QED BY <1>1, <1>2

-----------------------------------------------------------------------------
(* Filters: the theorems.                                                  *)

\* A request begins with one row more, one changed, or one less.
LEMMA FilterRequestKeeps ==
  ASSUME FiltersIInv, NEW p \in Syncers, NEW m \in Mailboxes,
         CreateFilter(p, m) \/ UpdateFilter(p, m) \/ DeleteFilter(p, m)
  PROVE  FiltersIInv'
<1>1. rows[m] \in SUBSET Filter
  BY DEF FiltersIInv, FiltersTypes
<1>2. CASE CreateFilter(p, m)
  <2>1. PICK f \in Filter : SetRows(p, m, rows[m] \cup {f})
    BY <1>2 DEF CreateFilter
  <2> QED BY <2>1, <1>1, SetRowsKeeps
<1>3. CASE UpdateFilter(p, m)
  <2>1. PICK f \in rows[m], g \in Filter : SetRows(p, m, (rows[m] \ {f}) \cup {g})
    BY <1>3 DEF UpdateFilter
  <2> QED BY <2>1, <1>1, SetRowsKeeps
<1>4. CASE DeleteFilter(p, m)
  <2>1. PICK f \in rows[m] : SetRows(p, m, rows[m] \ {f})
    BY <1>4 DEF DeleteFilter
  <2> QED BY <2>1, <1>1, SetRowsKeeps
<1> QED BY <1>2, <1>3, <1>4

\* Every step keeps the invariant.
LEMMA FiltersNextKeeps == FiltersIInv /\ [FiltersNext]_filtersVars => FiltersIInv'
<1> SUFFICES ASSUME FiltersIInv, [FiltersNext]_filtersVars PROVE FiltersIInv'
  OBVIOUS
<1>1. CASE UNCHANGED filtersVars
  BY <1>1 DEF filtersVars, FiltersIInv, FiltersTypes, WorkFormed, AloneIsAlone, SeenIsCurrent, DealtWith,
              Syncing
<1>2. CASE FiltersNext
  BY <1>2, FilterRequestKeeps, WriteKeeps, ListSyncKeeps, StartSyncKeeps, LinkKeeps, EndSyncKeeps
     DEF FiltersNext
<1> QED BY <1>1, <1>2

\* Every variable holds what its table, directory or request can hold.
THEOREM FilterTypes == FiltersSpec => []FiltersTypeOK
<1>1. FiltersIInv => FiltersTypeOK
  BY DEF FiltersIInv, FiltersTypes, WorkFormed, FiltersTypeOK, SyncType
<1> QED BY <1>1, FiltersInitIInv, FiltersNextKeeps, PTL DEF FiltersSpec

\* A request, or a start-up, that ended well and had nobody beside it leaves
\* Dovecot running exactly the enabled filters, whatever it found.
THEOREM ScriptIsCurrent == FiltersSpec => []ScriptFollowsRows
<1>1. FiltersIInv => ScriptFollowsRows
  BY DEF FiltersIInv, WorkFormed, DealtWith, PastList, ScriptFollowsRows
<1> QED BY <1>1, FiltersInitIInv, FiltersNextKeeps, PTL DEF FiltersSpec

-----------------------------------------------------------------------------
(* Groupware: the inductive invariant.                                     *)

\* The rows S of a collection, and what clients were told of them.
\* No two rows share a key.
KeysApart(S) == \A r, s \in S : r.href = s.href \/ r.uid = s.uid => r = s

\* The UID in a body is the one the row is found by.
UidsTrue(S) == \A r \in S : r.body.uid \in {Nil, r.uid}

\* An address book lists what is in its cards.
ListsCards(c, S) == c[1] = "addressbooks" => \A r \in S : r.shown = r.body.text

\* What was answered is in the row of its name.
AnswersStand(S, told) ==
    \A h \in AnyHref : told[h] # Nil => \E r \in S : r.href = h /\ r.body = told[h]

Sound(c, S, told) ==
    /\ S \subseteq Row
    /\ KeysApart(S) /\ UidsTrue(S) /\ ListsCards(c, S) /\ AnswersStand(S, told)

GroupwareIInv == GroupwareTypeOK /\ \A c \in Collections : Sound(c, objects[c], answered[c])

-----------------------------------------------------------------------------
(* Groupware: what happens to one collection.                              *)

\* One row takes the place of the rows it may share a key with, none or one.
LEMMA ReplaceSound ==
  ASSUME NEW c \in Collections, NEW S, NEW told, NEW old, NEW new \in Row, NEW told2,
         Sound(c, S, told), old \subseteq S,
         \A r \in S \ old : r.href # new.href /\ r.uid # new.uid,
         new.body.uid \in {Nil, new.uid},
         c[1] = "addressbooks" => new.shown = new.body.text,
         \A h \in AnyHref : told2[h] # Nil =>
           \/ h = new.href /\ told2[h] = new.body
           \/ told2[h] = told[h] /\ \A r \in old : r.href # h
  PROVE  Sound(c, (S \ old) \cup {new}, told2)
<1> DEFINE T == (S \ old) \cup {new}
<1>1. T \subseteq Row
  BY DEF Sound
<1>2. KeysApart(T)
  BY DEF Sound, KeysApart
<1>3. UidsTrue(T) /\ ListsCards(c, T)
  BY DEF Sound, UidsTrue, ListsCards
<1>4. AnswersStand(T, told2)
  BY DEF Sound, AnswersStand
<1> QED BY <1>1, <1>2, <1>3, <1>4 DEF Sound

\* Rows go, and so does what was told of them.
LEMMA RemoveSound ==
  ASSUME NEW c \in Collections, NEW S, NEW told, NEW old, NEW told2,
         Sound(c, S, told), old \subseteq S,
         \A h \in AnyHref : told2[h] # Nil =>
           told2[h] = told[h] /\ \A r \in old : r.href # h
  PROVE  Sound(c, S \ old, told2)
BY DEF Sound, KeysApart, UidsTrue, ListsCards, AnswersStand

\* Found by a key, a row is the only one.
LEMMA FoundIsOne ==
  ASSUME GroupwareIInv, NEW c \in Collections, NEW h, NEW u
  PROVE  /\ AtHref(c, h) # {} => \E r \in objects[c] : AtHref(c, h) = {r} /\ r.href = h
         /\ AtUid(c, u) # {} => \E r \in objects[c] : AtUid(c, u) = {r} /\ r.uid = u
         /\ AtHref(c, h) \subseteq objects[c] /\ AtUid(c, u) \subseteq objects[c]
BY DEF GroupwareIInv, Sound, KeysApart, AtHref, AtUid

\* A request writes one collection.
LEMMA OneCollection ==
  ASSUME GroupwareIInv, NEW c \in Collections, NEW S, NEW told,
         Write, made' \subseteq WebUids, S \subseteq Row, told \in [AnyHref -> Body \cup {Nil}],
         objects' = [objects EXCEPT ![c] = S], answered' = [answered EXCEPT ![c] = told],
         Sound(c, S, told)
  PROVE  GroupwareIInv'
<1>1. requests' \in 0..MaxRequests
  BY GroupwareAssumptions DEF Write, GroupwareIInv, GroupwareTypeOK, GroupwareAssumptions
<1>2. /\ objects' \in [Collections -> SUBSET Row] /\ objects'[c] = S
      /\ answered' \in [Collections -> [AnyHref -> Body \cup {Nil}]] /\ answered'[c] = told
      /\ \A d \in Collections \ {c} : objects'[d] = objects[d] /\ answered'[d] = answered[d]
  BY DEF GroupwareIInv, GroupwareTypeOK
<1>3. \A d \in Collections : Sound(d, objects'[d], answered'[d])
  BY <1>2 DEF GroupwareIInv
<1> QED BY <1>1, <1>2, <1>3 DEF GroupwareIInv, GroupwareTypeOK

-----------------------------------------------------------------------------
(* Groupware: initial states and steps.                                    *)

\* Nothing is stored and nothing was said.
LEMMA GroupwareInitIInv == GroupwareInit => GroupwareIInv
BY GroupwareAssumptions
   DEF GroupwareInit, GroupwareAssumptions, GroupwareIInv, GroupwareTypeOK, Sound, KeysApart, UidsTrue,
       ListsCards, AnswersStand

\* What a client sends has a UID that a row can be found by.
LEMMA UidOfBody ==
  ASSUME NEW h \in AnyHref, NEW body \in Body
  PROVE  /\ ObjectUid(h, body) \in AnyUid
         /\ body.uid \in {Nil, ObjectUid(h, body)}
BY GroupwareAssumptions DEF GroupwareAssumptions, ObjectUid, AnyHref, AnyUid, Body

\* What webmail lists after a PUT.
LEMMA ShownText ==
  ASSUME NEW c, NEW body \in Body, NEW before \in Texts \cup {Nil}
  PROVE  /\ Shown(c, body, before) \in Texts \cup {Nil}
         /\ c[1] = "addressbooks" => Shown(c, body, before) = body.text
BY DEF Shown, Body

\* A PUT finds the row of its href, or else the row of its UID, or none.
LEMMA PutKeeps ==
  ASSUME GroupwareIInv, NEW c \in Collections, NEW h \in AnyHref, NEW body \in Body,
         PutObject(c, h, body)
  PROVE  GroupwareIInv'
<1> DEFINE uid == ObjectUid(h, body)
           hit == IF AtHref(c, h) # {} THEN AtHref(c, h) ELSE AtUid(c, uid)
           moved == AtHref(c, h) = {} /\ AtUid(c, uid) # {}
           told == [g \in AnyHref |-> CASE g \in {r.href : r \in hit} /\ moved -> Nil
                                        [] g = h /\ ~moved -> body
                                        [] OTHER -> answered[c][g]]
           changed(r) == [r EXCEPT !.uid = uid, !.body = body, !.shown = Shown(c, body, r.shown)]
           added == [href |-> h, uid |-> uid, body |-> body, shown |-> Shown(c, body, Nil)]
<1>1. uid \in AnyUid /\ body.uid \in {Nil, uid}
  BY UidOfBody
<1>2. told \in [AnyHref -> Body \cup {Nil}]
  BY DEF GroupwareIInv, GroupwareTypeOK
<1>3. answered' = [answered EXCEPT ![c] = told]
  BY DEF PutObject, NewUid
<1>4. /\ Write /\ made' \subseteq WebUids
      /\ AtHref(c, h) # {} => AtUid(c, uid) \subseteq AtHref(c, h)
  BY DEF PutObject, GroupwareIInv, GroupwareTypeOK
<1>5. Sound(c, objects[c], answered[c])
  BY DEF GroupwareIInv
<1>6. CASE hit = {}
  <2>1. objects' = [objects EXCEPT ![c] = (objects[c] \ {}) \cup {added}]
    BY <1>6 DEF PutObject, Swap, NewUid
  <2>2. added \in Row
    BY <1>1, ShownText DEF Row
  <2>3. /\ added.href = h /\ added.uid = uid /\ added.body = body
        /\ c[1] = "addressbooks" => added.shown = body.text
    BY ShownText
  <2>4. \A r \in objects[c] : r.href # h /\ r.uid # uid
    BY <1>6 DEF AtHref, AtUid
  <2>5. \A g \in AnyHref : told[g] # Nil =>
          (g = h /\ told[g] = body) \/ told[g] = answered[c][g]
    OBVIOUS
  <2> HIDE DEF added, told, uid
  <2>6. Sound(c, (objects[c] \ {}) \cup {added}, told)
    <3>1. \A r \in objects[c] \ {} : r.href # added.href /\ r.uid # added.uid
      BY <2>3, <2>4
    <3>2. /\ added.body.uid \in {Nil, added.uid}
          /\ c[1] = "addressbooks" => added.shown = added.body.text
      BY <1>1, <2>3
    <3>3. \A g \in AnyHref : told[g] # Nil =>
            \/ g = added.href /\ told[g] = added.body
            \/ told[g] = answered[c][g] /\ \A r \in {} : r.href # g
      BY <2>3, <2>5
    <3> QED BY <1>5, <2>2, <3>1, <3>2, <3>3, ReplaceSound
  <2>7. (objects[c] \ {}) \cup {added} \subseteq Row
    BY <2>6 DEF Sound
  <2> QED BY <1>2, <1>3, <1>4, <2>1, <2>6, <2>7, OneCollection
<1>7. CASE hit # {}
  <2>1. PICK r \in objects[c] : /\ hit = {r} /\ (~moved => r.href = h)
                                /\ (moved => r.uid = uid /\ AtHref(c, h) = {})
    BY <1>7, FoundIsOne
  <2>2. r \in Row
    BY <1>5 DEF Sound
  <2>3. {[q EXCEPT !.uid = uid, !.body = body, !.shown = Shown(c, body, @)] : q \in hit}
          = {changed(r)}
    BY <2>1
  <2>4. objects' = [objects EXCEPT ![c] = (objects[c] \ {r}) \cup {changed(r)}]
    BY <1>7, <2>1, <2>3 DEF PutObject, Swap, NewUid
  <2>5. /\ changed(r).href = r.href /\ changed(r).uid = uid /\ changed(r).body = body
        /\ c[1] = "addressbooks" => changed(r).shown = body.text
        /\ changed(r) \in Row
    BY <1>1, <2>2, ShownText DEF Row
  <2>6. \A q \in objects[c] \ {r} : q.href # r.href /\ q.uid # uid
    <3>1. \A q \in objects[c] \ {r} : q.href # r.href
      BY <1>5 DEF Sound, KeysApart
    <3>2. \A q \in objects[c] : q.uid = uid => q = r
      BY <1>4, <2>1 DEF AtUid
    <3> QED BY <3>1, <3>2
  <2>7. \A g \in AnyHref : told[g] # Nil =>
          \/ g = r.href /\ told[g] = body
          \/ told[g] = answered[c][g] /\ r.href # g
    BY <2>1
  <2> HIDE DEF changed, told, uid
  <2>8. Sound(c, (objects[c] \ {r}) \cup {changed(r)}, told)
    <3>1. \A q \in objects[c] \ {r} : q.href # changed(r).href /\ q.uid # changed(r).uid
      BY <2>5, <2>6
    <3>2. /\ changed(r).body.uid \in {Nil, changed(r).uid}
          /\ c[1] = "addressbooks" => changed(r).shown = changed(r).body.text
      BY <1>1, <2>5
    <3>3. \A g \in AnyHref : told[g] # Nil =>
            \/ g = changed(r).href /\ told[g] = changed(r).body
            \/ told[g] = answered[c][g] /\ \A q \in {r} : q.href # g
      BY <2>5, <2>7
    <3>4. {r} \subseteq objects[c] /\ changed(r) \in Row
      BY <2>5
    <3> QED BY <1>5, <3>1, <3>2, <3>3, <3>4, ReplaceSound
  <2>9. (objects[c] \ {r}) \cup {changed(r)} \subseteq Row
    BY <2>8 DEF Sound
  <2> QED BY <1>2, <1>3, <1>4, <2>4, <2>8, <2>9, OneCollection
<1> QED BY <1>6, <1>7

\* Webmail makes an object under a name and a UID of its own.
LEMMA CreateObjectKeeps ==
  ASSUME GroupwareIInv, NEW c \in Collections, NEW text \in Texts, CreateObject(c, text)
  PROVE  GroupwareIInv'
<1>1. PICK u \in WebUids \ made :
        /\ made' = made \cup {u} /\ AtHref(c, u) = {} /\ AtUid(c, u) = {}
        /\ Swap(c, {}, {[href |-> u, uid |-> u, body |-> [uid |-> u, text |-> text],
                         shown |-> text]})
  BY DEF CreateObject
<1> DEFINE new == [href |-> u, uid |-> u, body |-> [uid |-> u, text |-> text], shown |-> text]
<1>2. /\ new \in Row /\ new.href = u /\ new.uid = u
      /\ new.body.uid \in {Nil, new.uid} /\ new.shown = new.body.text
  BY DEF Row, Body, AnyHref, AnyUid
<1>3. objects' = [objects EXCEPT ![c] = (objects[c] \ {}) \cup {new}]
  BY <1>1 DEF Swap
<1>4. answered' = [answered EXCEPT ![c] = answered[c]] /\ Write /\ made' \subseteq WebUids
  BY <1>1 DEF CreateObject, GroupwareIInv, GroupwareTypeOK
<1>5. answered[c] \in [AnyHref -> Body \cup {Nil}] /\ Sound(c, objects[c], answered[c])
  BY DEF GroupwareIInv, GroupwareTypeOK
<1>6. \A r \in objects[c] : r.href # u /\ r.uid # u
  BY <1>1 DEF AtHref, AtUid
<1> HIDE DEF new
<1>7. Sound(c, (objects[c] \ {}) \cup {new}, answered[c])
  BY <1>2, <1>5, <1>6, ReplaceSound
<1>8. (objects[c] \ {}) \cup {new} \subseteq Row
  BY <1>7 DEF Sound
<1> QED BY <1>3, <1>4, <1>5, <1>7, <1>8, OneCollection

\* What is told of the names of some rows is forgotten.
LEMMA Forgotten ==
  ASSUME GroupwareIInv, NEW c \in Collections, NEW old, Forget(c, old)
  PROVE  \E told \in [AnyHref -> Body \cup {Nil}] :
           /\ answered' = [answered EXCEPT ![c] = told]
           /\ \A h \in AnyHref : told[h] # Nil =>
                told[h] = answered[c][h] /\ \A r \in old : r.href # h
<1> DEFINE told == [g \in AnyHref |-> IF g \in {r.href : r \in old} THEN Nil ELSE answered[c][g]]
<1>1. told \in [AnyHref -> Body \cup {Nil}]
  BY DEF GroupwareIInv, GroupwareTypeOK
<1>2. answered' = [answered EXCEPT ![c] = told]
  BY DEF Forget
<1>3. \A h \in AnyHref : told[h] # Nil =>
        told[h] = answered[c][h] /\ \A r \in old : r.href # h
  OBVIOUS
<1> QED BY <1>1, <1>2, <1>3

\* Webmail rewrites the object of a UID.
LEMMA UpdateObjectKeeps ==
  ASSUME GroupwareIInv, NEW c \in Collections, NEW u \in AnyUid, NEW text \in Texts,
         UpdateObject(c, u, text)
  PROVE  GroupwareIInv'
<1> DEFINE body == [uid |-> u, text |-> text]
           changed(r) == [r EXCEPT !.body = body, !.shown = text]
<1>1. PICK r \in objects[c] : AtUid(c, u) = {r} /\ r.uid = u
  BY FoundIsOne DEF UpdateObject
<1>2. Sound(c, objects[c], answered[c]) /\ r \in Row
  BY DEF GroupwareIInv, Sound
<1>3. /\ changed(r) \in Row /\ changed(r).href = r.href /\ changed(r).uid = u
      /\ changed(r).body.uid = u /\ changed(r).shown = changed(r).body.text
  BY <1>1, <1>2 DEF Row, Body
<1>4. {[q EXCEPT !.body = [uid |-> u, text |-> text], !.shown = text] : q \in AtUid(c, u)}
        = {changed(r)}
  BY <1>1
<1>5. objects' = [objects EXCEPT ![c] = (objects[c] \ {r}) \cup {changed(r)}]
  BY <1>1, <1>4 DEF UpdateObject, Swap
<1>6. Write /\ made' \subseteq WebUids /\ Forget(c, {r})
  BY <1>1 DEF UpdateObject, GroupwareIInv, GroupwareTypeOK
<1>7. PICK told \in [AnyHref -> Body \cup {Nil}] :
        /\ answered' = [answered EXCEPT ![c] = told]
        /\ \A h \in AnyHref : told[h] # Nil => told[h] = answered[c][h] /\ r.href # h
  BY <1>6, Forgotten
<1>8. \A q \in objects[c] \ {r} : q.href # r.href /\ q.uid # u
  BY <1>1, <1>2 DEF Sound, KeysApart
<1> HIDE DEF changed
<1>9. Sound(c, (objects[c] \ {r}) \cup {changed(r)}, told)
  <2>1. \A q \in objects[c] \ {r} : q.href # changed(r).href /\ q.uid # changed(r).uid
    BY <1>3, <1>8
  <2>2. changed(r).body.uid \in {Nil, changed(r).uid}
    BY <1>3
  <2>3. \A g \in AnyHref : told[g] # Nil =>
          \/ g = changed(r).href /\ told[g] = changed(r).body
          \/ told[g] = answered[c][g] /\ \A q \in {r} : q.href # g
    BY <1>7
  <2>4. {r} \subseteq objects[c] /\ changed(r) \in Row
    BY <1>3
  <2> QED BY <1>2, <1>3, <2>1, <2>2, <2>3, <2>4, ReplaceSound
<1>10. (objects[c] \ {r}) \cup {changed(r)} \subseteq Row
  BY <1>9 DEF Sound
<1> QED BY <1>5, <1>6, <1>7, <1>9, <1>10, OneCollection

\* Webmail deletes the object of a UID.
LEMMA DeleteObjectKeeps ==
  ASSUME GroupwareIInv, NEW c \in Collections, NEW u \in AnyUid, DeleteObject(c, u)
  PROVE  GroupwareIInv'
<1> DEFINE old == AtUid(c, u)
<1>1. objects' = [objects EXCEPT ![c] = objects[c] \ old] /\ old \subseteq objects[c]
  BY DEF DeleteObject, Swap, AtUid
<1>2. Write /\ made' \subseteq WebUids /\ Forget(c, old)
  BY DEF DeleteObject, GroupwareIInv, GroupwareTypeOK
<1>3. PICK told \in [AnyHref -> Body \cup {Nil}] :
        /\ answered' = [answered EXCEPT ![c] = told]
        /\ \A h \in AnyHref : told[h] # Nil =>
             told[h] = answered[c][h] /\ \A r \in old : r.href # h
  BY <1>2, Forgotten
<1> HIDE DEF old
<1>4. Sound(c, objects[c] \ old, told) /\ objects[c] \ old \subseteq Row
  <2>1. Sound(c, objects[c], answered[c])
    BY DEF GroupwareIInv
  <2>2. Sound(c, objects[c] \ old, told)
    BY <2>1, <1>1, <1>3, RemoveSound
  <2> QED BY <2>2 DEF Sound
<1> QED BY <1>1, <1>2, <1>3, <1>4, OneCollection

-----------------------------------------------------------------------------
(* Groupware: the theorems.                                                *)

\* Every step keeps the invariant.
LEMMA GroupwareNextKeeps == GroupwareIInv /\ [GroupwareNext]_groupwareVars => GroupwareIInv'
<1> SUFFICES ASSUME GroupwareIInv, [GroupwareNext]_groupwareVars PROVE GroupwareIInv'
  OBVIOUS
<1>1. CASE UNCHANGED groupwareVars
  BY <1>1 DEF groupwareVars, GroupwareIInv, GroupwareTypeOK
<1>2. ASSUME NEW c \in Collections, NEW h \in Hrefs \cup made,
             NEW u \in Uids \cup made \cup {Nil}, NEW text \in Texts,
             PutObject(c, h, [uid |-> u, text |-> text])
      PROVE  GroupwareIInv'
  <2>1. h \in AnyHref /\ [uid |-> u, text |-> text] \in Body
    BY DEF GroupwareIInv, GroupwareTypeOK, AnyHref, AnyUid, Body
  <2> QED BY <2>1, <1>2, PutKeeps
<1> QED BY <1>1, <1>2, CreateObjectKeeps, UpdateObjectKeeps, DeleteObjectKeeps DEF GroupwareNext

\* Every row, answer and counter is of its kind.
THEOREM GroupwareTypes == GroupwareSpec => []GroupwareTypeOK
<1>1. GroupwareIInv => GroupwareTypeOK
  BY DEF GroupwareIInv
<1> QED BY <1>1, GroupwareInitIInv, GroupwareNextKeeps, PTL DEF GroupwareSpec

\* Whatever PUTs, edits and deletions come, in whatever order: what a client was
\* told is stored is what it reads back, a key names one row, and both sides
\* see the same object under it.
THEOREM ObjectsAgree == GroupwareSpec => []PutIsReadable
<1>1. GroupwareIInv => PutIsReadable
  <2> SUFFICES ASSUME GroupwareIInv, NEW c \in Collections
      PROVE  /\ \A h \in AnyHref : answered[c][h] # Nil => GetObject(c, h) = {answered[c][h]}
             /\ \A r \in objects[c] : AtHref(c, r.href) = {r} /\ AtUid(c, r.uid) = {r}
             /\ \A r \in objects[c] : r.body.uid \in {Nil, r.uid}
             /\ c[1] = "addressbooks"
                  => \A r \in objects[c] : <<r.uid, r.body.text>> \in List(c)
    BY DEF PutIsReadable
  <2>1. Sound(c, objects[c], answered[c])
    BY DEF GroupwareIInv
  <2>2. \A r \in objects[c] : AtHref(c, r.href) = {r} /\ AtUid(c, r.uid) = {r}
    BY <2>1 DEF Sound, KeysApart, AtHref, AtUid
  <2>3. ASSUME NEW h \in AnyHref, answered[c][h] # Nil
        PROVE  GetObject(c, h) = {answered[c][h]}
    <3>1. PICK r \in objects[c] : r.href = h /\ r.body = answered[c][h]
      BY <2>1, <2>3 DEF Sound, AnswersStand
    <3>2. AtHref(c, h) = {r}
      BY <2>2, <3>1
    <3> QED BY <3>1, <3>2 DEF GetObject
  <2>4. \A r \in objects[c] : r.body.uid \in {Nil, r.uid}
    BY <2>1 DEF Sound, UidsTrue
  <2>5. c[1] = "addressbooks" => \A r \in objects[c] : <<r.uid, r.body.text>> \in List(c)
    BY <2>1 DEF Sound, ListsCards, List
  <2> QED BY <2>2, <2>3, <2>4, <2>5
<1> QED BY <1>1, GroupwareInitIInv, GroupwareNextKeeps, PTL DEF GroupwareSpec

-----------------------------------------------------------------------------
(* ProtocolAccess: the inductive invariant.                                *)

AttemptPCs == {"idle", "row", "app", "query", "allow", "report", "opened", "refused"}
Attempts == [pc : AttemptPCs, protocol : Protocols \cup {"none"},
             offered : Passwords \cup Secrets \cup {"none"}, proper : BOOLEAN]
SecretsOf(rowsOfApps) == {a.secret : a \in rowsOfApps}

ProtocolTypes ==
    /\ account \in AccountRow
    /\ apps \subseteq AppRow
    /\ tally \in [LimiterKeys -> 0..FailureLimit]
    /\ attempt \in [Clients -> Attempts]
    /\ attempts \in 0..MaxAttempts /\ accountChanges \in 0..MaxAccountChanges

\* An app password that opens DAV.
OpensDav(rowsOfApps, offered) ==
    \E a \in rowsOfApps : a.secret = offered /\ a.status = "active" /\ "dav" \in a.protocols

\* Attempt r has noted that it may open, if it may now or has been told so; no
\* app password will have what it offers unless one had it when it began.
Noted(r, row, rowsOfApps) ==
    /\ r.pc # "idle" => r.offered \in Passwords \cup SecretsOf(rowsOfApps)
    /\ r.pc # "idle" /\ MayOpen(row, rowsOfApps, r.offered, r.protocol) => r.proper
    /\ r.pc \in {"row", "app"} => r.protocol = "dav"
    /\ r.pc \in {"query", "allow", "report"} => r.protocol # "dav"
    /\ r.pc = "app" /\ OpensDav(rowsOfApps, r.offered) => r.proper
    /\ r.pc \in {"allow", "opened"} => r.proper

ProtocolIInv ==
    ProtocolTypes /\ \A c \in Clients : Noted(attempt[c], account, apps)

-----------------------------------------------------------------------------
(* ProtocolAccess: attempts, and the changes around them.                  *)

\* What policy allows an app password with DAV.
LEMMA DavMayOpen ==
  ASSUME NEW row, NEW rowsOfApps \in SUBSET AppRow, NEW offered,
         row.active, OpensDav(rowsOfApps, offered)
  PROVE  MayOpen(row, rowsOfApps, offered, "dav")
<1>1. PICK a \in rowsOfApps : a.secret = offered /\ a.status = "active" /\ "dav" \in a.protocols
  BY DEF OpensDav
<1> DEFINE inList == [a EXCEPT !.protocols = NormalizeProtocols(a.protocols)]
<1>2. inList \in ListAppPasswords(rowsOfApps)
  BY <1>1 DEF ListAppPasswords
<1>3. inList.secret = offered /\ inList.status = "active"
  BY <1>1 DEF AppRow
<1>4. "dav" \in NormalizeProtocols(a.protocols)
  BY <1>1 DEF NormalizeProtocols, Protocols
<1>5. inList.protocols = NormalizeProtocols(a.protocols)
  BY <1>1 DEF AppRow
<1> HIDE DEF inList
<1> QED BY <1>2, <1>3, <1>4, <1>5 DEF MayOpen

\* What Dovecot accepts, policy allows.
LEMMA DovecotMayOpen ==
  ASSUME apps \subseteq AppRow, NEW offered, NEW protocol, protocol # "dav",
         DovecotAccepts(offered)
  PROVE  MayOpen(account, apps, offered, protocol)
<1>1. CASE \E a \in AppPasswordOf(offered) : TRUE
  <2>1. PICK a \in apps : a.secret = offered /\ a.status = "active"
    BY <1>1 DEF AppPasswordOf
  <2> DEFINE inList == [a EXCEPT !.protocols = NormalizeProtocols(a.protocols)]
  <2>2. inList \in ListAppPasswords(apps)
    BY <2>1 DEF ListAppPasswords
  <2>3. inList.secret = offered /\ inList.status = "active"
    BY <2>1 DEF AppRow
  <2> HIDE DEF inList
  <2> QED BY <2>2, <2>3 DEF MayOpen, DovecotAccepts
<1>2. CASE ~account.forced /\ ~account.totp /\ offered = account.password
  BY <1>2 DEF MayOpen, DovecotAccepts
<1> QED BY <1>1, <1>2 DEF DovecotAccepts

\* A note is taken of what policy allows, and none is lost.
LEMMA ObserveNotes ==
  ASSUME attempt \in [Clients -> Attempts], Observe
  PROVE  /\ attempt' \in [Clients -> Attempts]
         /\ \A c \in Clients :
              /\ attempt'[c].pc = attempt[c].pc
              /\ attempt'[c].protocol = attempt[c].protocol
              /\ attempt'[c].offered = attempt[c].offered
              /\ attempt[c].proper => attempt'[c].proper
              /\ attempt[c].pc # "idle"
                   /\ MayOpen(account', apps', attempt[c].offered, attempt[c].protocol)
                     => attempt'[c].proper
<1> DEFINE noted(c) == attempt[c].proper
                         \/ (attempt[c].pc # "idle"
                              /\ MayOpen(account', apps', attempt[c].offered,
                                         attempt[c].protocol))
<1>1. \A c \in Clients : noted(c) \in BOOLEAN
  BY DEF Attempts
<1>2. attempt' = [c \in Clients |-> [attempt[c] EXCEPT !.proper = noted(c)]]
  BY DEF Observe
<1>3. \A c \in Clients : (attempt[c].proper => noted(c))
        /\ (attempt[c].pc # "idle"
              /\ MayOpen(account', apps', attempt[c].offered, attempt[c].protocol) => noted(c))
  OBVIOUS
<1> HIDE DEF noted
<1>4. \A c \in Clients : attempt'[c].proper = noted(c)
  BY <1>1, <1>2 DEF Attempts
<1>5. /\ attempt' \in [Clients -> Attempts]
      /\ \A c \in Clients :
              /\ attempt'[c].pc = attempt[c].pc
              /\ attempt'[c].protocol = attempt[c].protocol
              /\ attempt'[c].offered = attempt[c].offered
  BY <1>1, <1>2 DEF Attempts
<1> QED BY <1>3, <1>4, <1>5

\* A change of the account or of its app passwords that gives no attempt an app
\* password it did not have.
LEMMA ChangeKeeps ==
  ASSUME ProtocolIInv, Observe, ChangeOfAccount, UNCHANGED <<tally, attempts>>,
         account' \in AccountRow, apps' \subseteq AppRow,
         SecretsOf(apps) \subseteq SecretsOf(apps'),
         \A offered \in Passwords \cup SecretsOf(apps) :
           OpensDav(apps', offered) => OpensDav(apps, offered)
  PROVE  ProtocolIInv'
<1>1. /\ attempt' \in [Clients -> Attempts]
      /\ \A c \in Clients :
              /\ attempt'[c].pc = attempt[c].pc
              /\ attempt'[c].protocol = attempt[c].protocol
              /\ attempt'[c].offered = attempt[c].offered
              /\ attempt[c].proper => attempt'[c].proper
              /\ attempt[c].pc # "idle"
                   /\ MayOpen(account', apps', attempt[c].offered, attempt[c].protocol)
                     => attempt'[c].proper
  BY ObserveNotes DEF ProtocolIInv, ProtocolTypes
<1>2. accountChanges' \in 0..MaxAccountChanges
  BY ProtocolAccessAssumptions
     DEF ChangeOfAccount, ProtocolIInv, ProtocolTypes, ProtocolAccessAssumptions
<1>3. ProtocolTypes'
  BY <1>1, <1>2 DEF ProtocolIInv, ProtocolTypes
<1>4. ASSUME NEW c \in Clients
      PROVE  Noted(attempt'[c], account', apps')
  <2>1. Noted(attempt[c], account, apps)
    BY DEF ProtocolIInv
  <2> QED BY <1>1, <2>1 DEF Noted
<1> QED BY <1>3, <1>4 DEF ProtocolIInv

\* A new app password has a secret that nobody has offered.
LEMMA CreateAppKeeps ==
  ASSUME ProtocolIInv, NEW list \in SUBSET (Protocols \cup {Other}), CreateAppPassword(list)
  PROVE  ProtocolIInv'
<1>1. PICK s \in NewAppPasswordSecret :
        apps' = apps \cup {[secret |-> s, protocols |-> NormalizeProtocols(list),
                            status |-> "active"]}
  BY DEF CreateAppPassword, InsertAppPassword
<1> DEFINE new == [secret |-> s, protocols |-> NormalizeProtocols(list), status |-> "active"]
<1>2. s \in Secrets /\ s \notin SecretsOf(apps) /\ s \notin Passwords
  BY ProtocolAccessAssumptions DEF NewAppPasswordSecret, SecretsOf, ProtocolAccessAssumptions
<1>3. NormalizeProtocols(list) \in SUBSET Protocols
  BY DEF NormalizeProtocols
<1>4. new \in AppRow /\ new.secret = s
  BY <1>2, <1>3 DEF AppRow
<1> HIDE DEF new
<1>5. apps' = apps \cup {new}
  BY <1>1 DEF new
<1>6. apps' \subseteq AppRow
  BY <1>4, <1>5 DEF ProtocolIInv, ProtocolTypes
<1>7. SecretsOf(apps) \subseteq SecretsOf(apps')
  BY <1>5 DEF SecretsOf
<1>8. \A offered \in Passwords \cup SecretsOf(apps) :
        OpensDav(apps', offered) => OpensDav(apps, offered)
  BY <1>2, <1>4, <1>5 DEF OpensDav
<1>9. /\ Observe /\ ChangeOfAccount /\ UNCHANGED <<account, tally, attempts>>
  BY DEF CreateAppPassword
<1>10. account' \in AccountRow
  BY <1>9 DEF ProtocolIInv, ProtocolTypes
<1> QED BY <1>6, <1>7, <1>8, <1>9, <1>10, ChangeKeeps

\* One that is revoked keeps its secret and opens nothing.
LEMMA RevokeAppKeeps ==
  ASSUME ProtocolIInv, NEW a \in apps, RevokeAppPassword(a)
  PROVE  ProtocolIInv'
<1> DEFINE revoked == [a EXCEPT !.status = "revoked"]
<1>1. a \in AppRow
  BY DEF ProtocolIInv, ProtocolTypes
<1>2. revoked \in AppRow /\ revoked.secret = a.secret /\ revoked.status = "revoked"
  BY <1>1 DEF AppRow
<1>3. apps' = (apps \ {a}) \cup {revoked}
  BY DEF RevokeAppPassword, UpdateAppPassword
<1> HIDE DEF revoked
<1>4. apps' \subseteq AppRow
  BY <1>2, <1>3 DEF ProtocolIInv, ProtocolTypes
<1>5. SecretsOf(apps) \subseteq SecretsOf(apps')
  BY <1>2, <1>3 DEF SecretsOf
<1>6. \A offered : OpensDav(apps', offered) => OpensDav(apps, offered)
  BY <1>2, <1>3 DEF OpensDav
<1>7. /\ Observe /\ ChangeOfAccount /\ UNCHANGED <<account, tally, attempts>>
  BY DEF RevokeAppPassword
<1>8. account' \in AccountRow
  BY <1>7 DEF ProtocolIInv, ProtocolTypes
<1> QED BY <1>4, <1>5, <1>6, <1>7, <1>8, ChangeKeeps

\* Another row of the account.
LEMMA SetAccountKeeps ==
  ASSUME ProtocolIInv, NEW row \in AccountRow, SetAccount(row)
  PROVE  ProtocolIInv'
<1>1. /\ Observe /\ ChangeOfAccount /\ UNCHANGED <<apps, tally, attempts>>
      /\ account' \in AccountRow
  BY DEF SetAccount
<1>2. apps' \subseteq AppRow
  BY <1>1 DEF ProtocolIInv, ProtocolTypes
<1>3. /\ SecretsOf(apps) \subseteq SecretsOf(apps')
      /\ \A offered : OpensDav(apps', offered) => OpensDav(apps, offered)
  BY <1>1
<1> QED BY <1>1, <1>2, <1>3, ChangeKeeps

LEMMA AccountChangesKeep ==
  ASSUME ProtocolIInv,
         ChangeAccountPassword \/ ForceMailboxMFA \/ EnableTOTP \/ ResetMFA \/ SetAccountStatus
  PROVE  ProtocolIInv'
<1>1. account \in AccountRow
  BY DEF ProtocolIInv, ProtocolTypes
<1>2. /\ \A p \in Passwords : [account EXCEPT !.password = p] \in AccountRow
      /\ \A b \in BOOLEAN : /\ [account EXCEPT !.forced = b] \in AccountRow
                            /\ [account EXCEPT !.totp = b] \in AccountRow
                            /\ [account EXCEPT !.active = b] \in AccountRow
  BY <1>1 DEF AccountRow
<1> QED BY <1>2, SetAccountKeeps
        DEF ChangeAccountPassword, ForceMailboxMFA, EnableTOTP, ResetMFA, SetAccountStatus

-----------------------------------------------------------------------------
(* ProtocolAccess: the steps of an attempt.                                *)

\* Nothing changes, or a lock runs out.
LEMMA LockKeeps ==
  ASSUME ProtocolIInv, (\E k \in LimiterKeys : LockRunsOut(k)) \/ UNCHANGED protocolVars
  PROVE  ProtocolIInv'
<1>1. UNCHANGED <<account, apps, attempt, attempts, accountChanges>>
  BY DEF LockRunsOut, protocolVars
<1>2. tally' \in [LimiterKeys -> 0..FailureLimit]
  BY ProtocolAccessAssumptions
     DEF LockRunsOut, protocolVars, ProtocolIInv, ProtocolTypes, ProtocolAccessAssumptions
<1> QED BY <1>1, <1>2 DEF ProtocolIInv, ProtocolTypes

\* An attempt goes on to where it is as true.
LEMMA AttemptKeeps ==
  ASSUME ProtocolIInv, NEW c \in Clients, NEW pc \in AttemptPCs, Go(c, pc),
         UNCHANGED <<account, apps, attempts, accountChanges>>,
         tally' \in [LimiterKeys -> 0..FailureLimit],
         attempt[c].pc # "idle",
         pc \in {"row", "app"} => attempt[c].protocol = "dav",
         pc \in {"query", "allow", "report"} => attempt[c].protocol # "dav",
         pc = "app" /\ OpensDav(apps, attempt[c].offered) => attempt[c].proper,
         pc \in {"allow", "opened"} => attempt[c].proper
  PROVE  ProtocolIInv'
<1>1. /\ attempt' \in [Clients -> Attempts] /\ attempt'[c].pc = pc
      /\ attempt'[c].protocol = attempt[c].protocol /\ attempt'[c].offered = attempt[c].offered
      /\ attempt'[c].proper = attempt[c].proper
      /\ \A d \in Clients \ {c} : attempt'[d] = attempt[d]
  BY DEF Go, ProtocolIInv, ProtocolTypes, Attempts
<1>2. ProtocolTypes'
  BY <1>1 DEF ProtocolIInv, ProtocolTypes
<1>3. Noted(attempt[c], account, apps)
  BY DEF ProtocolIInv
<1>4. Noted(attempt'[c], account, apps)
  BY <1>1, <1>3 DEF Noted
<1>5. \A d \in Clients : Noted(attempt'[d], account', apps')
  BY <1>1, <1>4 DEF ProtocolIInv
<1> QED BY <1>2, <1>5 DEF ProtocolIInv

\* The limiter counts within its bounds.
LEMMA CountType ==
  ASSUME tally \in [LimiterKeys -> 0..FailureLimit], NEW keys, NEW outcome,
         CountOutcome(keys, outcome)
  PROVE  tally' \in [LimiterKeys -> 0..FailureLimit]
<1>1. FailureLimit \in Nat
  BY ProtocolAccessAssumptions DEF ProtocolAccessAssumptions
<1>2. \A k \in LimiterKeys : /\ tally[k] \in 0..FailureLimit /\ 0 \in 0..FailureLimit
                             /\ tally[k] < FailureLimit => tally[k] + 1 \in 0..FailureLimit
  BY <1>1
<1> QED BY <1>2 DEF CountOutcome

\* A sign-in that ends was allowed if it opens.
LEMMA EndSignInKeeps ==
  ASSUME ProtocolIInv, NEW c \in Clients, NEW admits \in BOOLEAN, NEW outcome,
         attempt[c].pc # "idle", EndSignIn(c, admits, outcome), admits => attempt[c].proper
  PROVE  ProtocolIInv'
<1>1. PICK pc : pc = IF admits THEN "opened" ELSE "refused"
  OBVIOUS
<1>2. /\ pc \in AttemptPCs /\ pc \in {"opened", "refused"} /\ (pc = "opened" => admits)
  BY <1>1 DEF AttemptPCs
<1>3. /\ Go(c, pc) /\ UNCHANGED <<account, apps, attempts, accountChanges>>
      /\ tally' \in [LimiterKeys -> 0..FailureLimit]
  BY <1>1, CountType DEF EndSignIn, ProtocolIInv, ProtocolTypes
<1> QED BY <1>2, <1>3, AttemptKeeps

\* An attempt begins with a note of what policy allows.
LEMMA BeginSignInKeeps ==
  ASSUME ProtocolIInv, NEW c \in Clients, NEW protocol \in Protocols,
         NEW offered \in Passwords \cup SecretsOf(apps), BeginSignIn(c, protocol, offered)
  PROVE  ProtocolIInv'
<1>1. PICK pc : pc = IF protocol = "dav" THEN "row" ELSE "query"
  OBVIOUS
<1>2. PICK proper \in BOOLEAN : proper = MayOpen(account, apps, offered, protocol)
  BY DEF MayOpen
<1> DEFINE r == [pc |-> pc, protocol |-> protocol, offered |-> offered, proper |-> proper]
<1>3. /\ attempts < MaxAttempts /\ attempts' = attempts + 1
      /\ attempt' = [attempt EXCEPT ![c] = r]
      /\ UNCHANGED <<account, apps, tally, accountChanges>>
  BY <1>1, <1>2 DEF BeginSignIn
<1>4. offered \in Passwords \cup Secrets
  BY DEF SecretsOf, ProtocolIInv, ProtocolTypes, AppRow
<1>5. r \in Attempts
  BY <1>1, <1>2, <1>4 DEF Attempts, AttemptPCs
<1>6. Noted(r, account, apps)
  BY <1>1, <1>2 DEF Noted
<1> HIDE DEF r
<1>7. /\ attempt' \in [Clients -> Attempts] /\ attempt'[c] = r
      /\ \A d \in Clients \ {c} : attempt'[d] = attempt[d]
  BY <1>3, <1>5 DEF ProtocolIInv, ProtocolTypes
<1>8. attempts' \in 0..MaxAttempts
  BY <1>3, ProtocolAccessAssumptions
     DEF ProtocolIInv, ProtocolTypes, ProtocolAccessAssumptions
<1>9. ProtocolTypes'
  BY <1>3, <1>7, <1>8 DEF ProtocolIInv, ProtocolTypes
<1>10. \A d \in Clients : Noted(attempt'[d], account', apps')
  BY <1>3, <1>6, <1>7 DEF ProtocolIInv
<1> QED BY <1>9, <1>10 DEF ProtocolIInv

\* Groupware reads the account: its password opens only if policy allows it,
\* and an app password that could open now has been noted.
LEMMA ReadAccountKeeps ==
  ASSUME ProtocolIInv, NEW c \in Clients, ReadAccountRow(c)
  PROVE  ProtocolIInv'
<1>1. attempt[c].pc = "row"
  BY DEF ReadAccountRow
<1>2. Noted(attempt[c], account, apps)
  BY DEF ProtocolIInv
<1>3. attempt[c].protocol = "dav"
  BY <1>1, <1>2 DEF Noted
<1>4. CASE ~account.active
  BY <1>1, <1>4, EndSignInKeeps DEF ReadAccountRow
<1>5. CASE account.active /\ ~account.forced /\ ~account.totp
             /\ attempt[c].offered = account.password
  <2>1. MayOpen(account, apps, attempt[c].offered, attempt[c].protocol)
    BY <1>5 DEF MayOpen
  <2>2. attempt[c].proper
    BY <1>1, <1>2, <2>1 DEF Noted
  <2> QED BY <1>1, <1>5, <2>2, EndSignInKeeps DEF ReadAccountRow
<1>6. CASE account.active /\ ~(~account.forced /\ ~account.totp
                                 /\ attempt[c].offered = account.password)
  <2>1. Go(c, "app") /\ UNCHANGED <<account, apps, tally, attempts, accountChanges>>
    BY <1>6 DEF ReadAccountRow
  <2>2. OpensDav(apps, attempt[c].offered) => attempt[c].proper
    <3>1. apps \in SUBSET AppRow
      BY DEF ProtocolIInv, ProtocolTypes
    <3>2. OpensDav(apps, attempt[c].offered) =>
            MayOpen(account, apps, attempt[c].offered, "dav")
      BY <1>6, <3>1, DavMayOpen
    <3> QED BY <1>1, <1>2, <1>3, <3>2 DEF Noted
  <2>3. tally' \in [LimiterKeys -> 0..FailureLimit] /\ "app" \in AttemptPCs
    BY <2>1 DEF ProtocolIInv, ProtocolTypes, AttemptPCs
  <2> QED BY <1>1, <1>3, <2>1, <2>2, <2>3, AttemptKeeps
<1> QED BY <1>4, <1>5, <1>6

\* Groupware reads the app password.
LEMMA ReadAppKeeps ==
  ASSUME ProtocolIInv, NEW c \in Clients, ReadAppPassword(c)
  PROVE  ProtocolIInv'
<1>1. PICK valid \in BOOLEAN :
        valid = (\E a \in AppPasswordOf(attempt[c].offered) : "dav" \in a.protocols)
  OBVIOUS
<1>2. attempt[c].pc = "app" /\ \E outcome : EndSignIn(c, valid, outcome)
  BY <1>1 DEF ReadAppPassword
<1>3. valid => OpensDav(apps, attempt[c].offered)
  BY <1>1 DEF AppPasswordOf, OpensDav
<1>4. valid => attempt[c].proper
  BY <1>2, <1>3 DEF ProtocolIInv, Noted
<1> QED BY <1>2, <1>4, EndSignInKeeps

\* Dovecot's query.
LEMMA QueryKeeps ==
  ASSUME ProtocolIInv, NEW c \in Clients, QueryPassdb(c)
  PROVE  ProtocolIInv'
<1>1. PICK pc : pc = IF DovecotAccepts(attempt[c].offered) THEN "allow" ELSE "report"
  OBVIOUS
<1>2. /\ attempt[c].pc = "query" /\ Go(c, pc)
      /\ UNCHANGED <<account, apps, tally, attempts, accountChanges>>
  BY <1>1 DEF QueryPassdb
<1>3. Noted(attempt[c], account, apps)
  BY DEF ProtocolIInv
<1>4. attempt[c].protocol # "dav"
  BY <1>2, <1>3 DEF Noted
<1>5. pc = "allow" => attempt[c].proper
  <2>1. apps \subseteq AppRow
    BY DEF ProtocolIInv, ProtocolTypes
  <2>2. pc = "allow" => MayOpen(account, apps, attempt[c].offered, attempt[c].protocol)
    BY <1>1, <1>4, <2>1, DovecotMayOpen
  <2> QED BY <1>2, <1>3, <2>2 DEF Noted
<1>6. /\ pc \in AttemptPCs /\ pc \in {"allow", "report"}
      /\ tally' \in [LimiterKeys -> 0..FailureLimit]
  BY <1>1, <1>2 DEF AttemptPCs, ProtocolIInv, ProtocolTypes
<1> QED BY <1>2, <1>4, <1>5, <1>6, AttemptKeeps

\* The answers of the policy.
LEMMA PolicyKeeps ==
  ASSUME ProtocolIInv, NEW c \in Clients, AllowAfterAuth(c) \/ ReportFailure(c)
  PROVE  ProtocolIInv'
<1>1. Noted(attempt[c], account, apps)
  BY DEF ProtocolIInv
<1>2. CASE AllowAfterAuth(c)
  <2>1. attempt[c].pc = "allow" /\ attempt[c].proper
    BY <1>1, <1>2 DEF AllowAfterAuth, Noted
  <2>2. EndSignIn(c, FALSE, "policy") \/ EndSignIn(c, TRUE, "success")
    BY <1>2 DEF AllowAfterAuth
  <2> QED BY <2>1, <2>2, EndSignInKeeps
<1>3. CASE ReportFailure(c)
  BY <1>3, EndSignInKeeps DEF ReportFailure
<1> QED BY <1>2, <1>3

-----------------------------------------------------------------------------
(* ProtocolAccess: the theorems.                                           *)

\* Nobody has begun.
LEMMA ProtocolInitHolds == ProtocolInit => ProtocolIInv
<1> SUFFICES ASSUME ProtocolInit
             PROVE  ProtocolIInv
  OBVIOUS
<1>1. account \in AccountRow
  <2>1. PICK p \in Passwords :
          account = [password |-> p, forced |-> FALSE, totp |-> FALSE, active |-> TRUE]
    BY DEF ProtocolInit
  <2> QED BY <2>1 DEF AccountRow
<1>2. NoAttempt \in Attempts /\ NoAttempt.pc = "idle"
  BY DEF NoAttempt, Attempts, AttemptPCs
<1>3. attempt \in [Clients -> Attempts] /\ \A c \in Clients : attempt[c].pc = "idle"
  BY <1>2 DEF ProtocolInit
<1>4. /\ tally \in [LimiterKeys -> 0..FailureLimit] /\ apps \subseteq AppRow
      /\ attempts \in 0..MaxAttempts /\ accountChanges \in 0..MaxAccountChanges
  BY ProtocolAccessAssumptions DEF ProtocolInit, ProtocolAccessAssumptions
<1>5. \A c \in Clients : Noted(attempt[c], account, apps)
  BY <1>3 DEF Noted
<1> QED BY <1>1, <1>3, <1>4, <1>5 DEF ProtocolIInv, ProtocolTypes

\* Every step keeps the invariant.
LEMMA ProtocolNextKeeps == ProtocolIInv /\ [ProtocolNext]_protocolVars => ProtocolIInv'
BY CreateAppKeeps, RevokeAppKeeps, AccountChangesKeep, LockKeeps, BeginSignInKeeps, ReadAccountKeeps,
   ReadAppKeeps, QueryKeeps, PolicyKeeps
   DEF ProtocolNext, SecretsOf

\* The account, its app passwords, the limiter and the attempts have their types.
THEOREM SignInTypes == ProtocolSpec => []ProtocolTypeOK
<1>1. ProtocolIInv => ProtocolTypeOK
  BY DEF ProtocolIInv, ProtocolTypes, ProtocolTypeOK, Attempts
<1> QED BY <1>1, ProtocolInitHolds, ProtocolNextKeeps, PTL DEF ProtocolSpec

\* Whatever is created, revoked, forced or disabled while groupware reads the
\* account and then the app password, or Dovecot queries and asks again: a
\* program that is let in was allowed to at some moment of its attempt.
THEOREM SignInsAreProper == ProtocolSpec => []OpensByPolicy
<1>1. ProtocolIInv => OpensByPolicy
  BY DEF ProtocolIInv, Noted, OpensByPolicy
<1> QED BY <1>1, ProtocolInitHolds, ProtocolNextKeeps, PTL DEF ProtocolSpec

-----------------------------------------------------------------------------
(* Maildir: the inductive invariant, types.                                *)

RequestRecord(k) ==
    [pc : PCs, op : Ops \cup {"none"}, folder : Folders \cup {"none"},
     ids : {<<>>} \cup {w.ids : w \in Wishes}, n : Nat, path : Places \cup {None},
     inode : 0..k, read : Contents]

\* A request that is served was asked for, and where it stands goes with what
\* it was asked: it acts on a file of the message at hand, and rewrites one
\* that is not in the trash on its way there.
Proper(x) ==
    x.pc # "idle" =>
      /\ \E w \in Wishes : x.op = w.op /\ x.folder = w.folder /\ x.ids = w.ids
      /\ x.n \in 1..Len(x.ids)
      /\ x.pc = "validate" => x.op \in {"move", "delete"}
      /\ x.pc = "open" => x.op = "read"
      /\ x.pc = "remove" => x.op = "delete"
      /\ x.pc \in {"tag", "truncate", "fill", "rename"} => x.op \in {"move", "report"}
      /\ x.pc \in {"tag", "truncate", "fill"} => x.folder = "trash" /\ x.path.folder # "trash"
      /\ x.pc \in Acting => x.path \in Places /\ x.path.name.base = x.ids[x.n].base
      /\ x.pc = "fill" => x.inode # 0

FilesOK ==
    /\ DOMAIN disk \subseteq Places
    /\ \A p \in DOMAIN disk : disk[p] \in 1..inodes
    /\ data \in [Inodes -> Contents]
    /\ inodes \in 0..MaxInodes
    /\ \A p, q \in DOMAIN disk : disk[p] = disk[q] => p = q

RequestsOK == /\ request \in [Requests -> RequestRecord(inodes)]
              /\ \A r \in Requests : Proper(request[r])

MaildirIInv == FilesOK /\ RequestsOK

-----------------------------------------------------------------------------
(* Records of requests.                                                    *)

\* What a wish asks for.
LEMMA WishShape ==
    ASSUME NEW w \in Wishes
    PROVE  /\ w.op \in Ops /\ w.folder \in Folders \cup {"none"}
           /\ w.ids \in Seq(Names) /\ Len(w.ids) \in Nat \ {0}
           /\ w.op \in {"move", "report"} => w.folder \in Folders
           /\ w.op = "report" => w.folder \in {"spam", "inbox"}
           /\ w.folder = "trash" => w.op = "move"
<1>1. w \in [op : Ops, folder : Folders \cup {"none"}, ids : Seq(Names) \ {<<>>}]
    BY MaildirAssumptions
<1>2. w.op \in Ops /\ w.folder \in Folders \cup {"none"} /\ w.ids \in Seq(Names) /\ w.ids # <<>>
    BY <1>1
<1>3. Len(w.ids) \in Nat \ {0}
    BY <1>2
<1>4. /\ w.folder = "none" <=> w.op \in {"read", "delete"}
      /\ w.op = "report" => w.folder \in {"spam", "inbox"}
    BY MaildirAssumptions
<1> QED BY <1>2, <1>3, <1>4 DEF Ops

\* No request.
LEMMA IdleShape ==
    ASSUME NEW k \in Nat
    PROVE  Idle \in RequestRecord(k) /\ Proper(Idle) /\ Idle.pc = "idle"
<1>1. Empty \in Contents
    BY DEF Empty, Contents
<1>2. Idle.pc = "idle"
    BY DEF Idle
<1>3. Idle \in RequestRecord(k)
    BY <1>1 DEF Idle, RequestRecord, PCs
<1> QED BY <1>2, <1>3 DEF Proper

\* The message at hand of a request that is served.
LEMMA AtHand ==
    ASSUME RequestsOK, NEW r \in Requests, ~At(r, "idle")
    PROVE  /\ request[r] \in RequestRecord(inodes)
           /\ request[r].ids \in Seq(Names) /\ request[r].n \in 1..Len(request[r].ids)
           /\ Id(r) \in Names /\ Id(r).base \in Messages
           /\ request[r].op \in Ops
           /\ request[r].op \in {"move", "report"} => request[r].folder \in Folders
           /\ request[r].op = "report" => request[r].folder \in {"spam", "inbox"}
           /\ request[r].folder = "trash" => request[r].op = "move"
<1>1. request[r] \in RequestRecord(inodes) /\ Proper(request[r])
    BY DEF RequestsOK
<1>2. PICK w \in Wishes : request[r].op = w.op /\ request[r].folder = w.folder /\ request[r].ids = w.ids
    BY <1>1 DEF Proper, At
<1>3. request[r].n \in 1..Len(request[r].ids)
    BY <1>1 DEF Proper, At
<1>4. request[r].ids \in Seq(Names)
    BY <1>2, WishShape
<1>5. Id(r) \in Names
    BY <1>3, <1>4 DEF Id
<1>6. Id(r).base \in Messages
    BY <1>5 DEF Names
<1>7. /\ request[r].op \in Ops
      /\ request[r].op \in {"move", "report"} => request[r].folder \in Folders
      /\ request[r].op = "report" => request[r].folder \in {"spam", "inbox"}
      /\ request[r].folder = "trash" => request[r].op = "move"
    BY <1>2, WishShape
<1> QED BY <1>1, <1>3, <1>4, <1>5, <1>6, <1>7

\* One request moves, to a record that is proper, with what files there are.
LEMMA RequestMoves ==
    ASSUME RequestsOK, NEW r \in Requests, NEW y, Become(r, y),
           inodes \in Nat, inodes' \in Nat, inodes <= inodes',
           y \in RequestRecord(inodes'), Proper(y)
    PROVE  RequestsOK'
<1>1. ASSUME NEW s \in Requests
      PROVE  request'[s] \in RequestRecord(inodes') /\ Proper(request'[s])
    <2>1. CASE s = r
        BY <2>1 DEF Become, RequestsOK
    <2>2. CASE s # r
        <3>1. request'[s] = request[s]
            BY <2>2 DEF Become, RequestsOK
        <3>2. request[s] \in RequestRecord(inodes) /\ Proper(request[s])
            BY DEF RequestsOK
        <3>3. 0..inodes \subseteq 0..inodes'
            OBVIOUS
        <3>4. request[s] \in RequestRecord(inodes')
            BY <3>2, <3>3 DEF RequestRecord
        <3> QED BY <3>1, <3>2, <3>4
    <2> QED BY <2>1, <2>2
<1>2. request' \in [Requests -> RequestRecord(inodes')]
    BY <1>1 DEF Become, RequestsOK
<1>3. RequestRecord(inodes)' = RequestRecord(inodes')
    BY DEF RequestRecord
<1> QED BY <1>1, <1>2, <1>3 DEF RequestsOK

\* The next id is looked at, or acted on.
LEMMA NextShape ==
    ASSUME NEW k \in Nat, NEW x \in RequestRecord(k), Proper(x), x.pc # "idle",
           x.n < Len(x.ids), NEW label \in {"validate", "locate"},
           label = "validate" => x.op \in {"move", "delete"},
           NEW y, y = [x EXCEPT !.pc = label, !.n = x.n + 1, !.path = None, !.inode = 0,
                                !.read = Empty]
    PROVE  /\ y \in RequestRecord(k) /\ Proper(y)
           /\ y.pc = label /\ y.n = x.n + 1
           /\ y.op = x.op /\ y.folder = x.folder /\ y.ids = x.ids
<1>0. Empty \in Contents
    BY DEF Empty, Contents
<1>1. /\ y.pc = label /\ y.n = x.n + 1 /\ y.path = None /\ y.inode = 0 /\ y.read = Empty
      /\ y.op = x.op /\ y.folder = x.folder /\ y.ids = x.ids
    BY DEF RequestRecord
<1>2. y \in RequestRecord(k)
    <2>1. label \in PCs /\ x.n + 1 \in Nat /\ 0 \in 0..k
        BY DEF RequestRecord, PCs
    <2> QED BY <1>0, <2>1 DEF RequestRecord
<1>3. x.n \in 1..Len(x.ids)
    BY DEF Proper
<1>4. y.n \in 1..Len(y.ids)
    <2>1. PICK w \in Wishes : x.ids = w.ids
        BY DEF Proper
    <2>2. Len(x.ids) \in Nat
        BY <2>1, WishShape
    <2> QED BY <1>1, <1>3, <2>2
<1>5. \E w \in Wishes : y.op = w.op /\ y.folder = w.folder /\ y.ids = w.ids
    BY <1>1 DEF Proper
<1>6. Proper(y)
    BY <1>1, <1>4, <1>5 DEF Proper, Acting
<1> QED BY <1>1, <1>2, <1>6

-----------------------------------------------------------------------------
(* Files.                                                                  *)

\* Every file has a content.
LEMMA FileData ==
    ASSUME FilesOK, NEW p \in DOMAIN disk
    PROVE  disk[p] \in Inodes /\ disk[p] \in 1..inodes /\ data[disk[p]] \in Contents
<1>1. disk[p] \in 1..inodes /\ inodes \in 0..MaxInodes /\ MaxInodes \in Nat
    BY MaildirAssumptions DEF FilesOK
<1>2. disk[p] \in Inodes
    BY <1>1 DEF Inodes
<1> QED BY <1>1, <1>2 DEF FilesOK

\* A file gets another name.
LEMMA RenameFiles ==
    ASSUME FilesOK, NEW p \in DOMAIN disk, NEW q \in Places, Rename(p, q),
           UNCHANGED <<data, inodes>>
    PROVE  /\ FilesOK'
           /\ DOMAIN disk' = (DOMAIN disk \ {p}) \cup {q}
           /\ disk'[q] = disk[p]
           /\ \A x \in DOMAIN disk' : x # q => x \in DOMAIN disk /\ x # p /\ disk'[x] = disk[x]
<1>1. /\ DOMAIN disk' = (DOMAIN disk \ {p}) \cup {q}
      /\ disk'[q] = disk[p]
      /\ \A x \in DOMAIN disk' : x # q => x \in DOMAIN disk /\ x # p /\ disk'[x] = disk[x]
    BY DEF Rename
<1>2. DOMAIN disk' \subseteq Places
    BY <1>1 DEF FilesOK
<1>3. \A x \in DOMAIN disk' : disk'[x] \in 1..inodes'
    BY <1>1 DEF FilesOK
<1>4. \A x, y \in DOMAIN disk' : disk'[x] = disk'[y] => x = y
    BY <1>1 DEF FilesOK
<1>5. data' \in [Inodes -> Contents] /\ inodes' \in 0..MaxInodes
    BY DEF FilesOK, Inodes
<1> QED BY <1>1, <1>2, <1>3, <1>4, <1>5 DEF FilesOK, Inodes

\* Files are removed.
LEMMA RemoveFiles ==
    ASSUME FilesOK, NEW S \in SUBSET DOMAIN disk, disk' = [x \in S |-> disk[x]],
           UNCHANGED <<data, inodes>>
    PROVE  FilesOK' /\ DOMAIN disk' = S /\ \A x \in S : disk'[x] = disk[x]
<1>1. DOMAIN disk' = S /\ \A x \in S : disk'[x] = disk[x]
    OBVIOUS
<1> QED BY <1>1 DEF FilesOK, Inodes

\* A file is emptied, or an empty one is created.
LEMMA TruncateFiles ==
    ASSUME MaildirIInv, NEW r \in Requests, Truncate(r)
    PROVE  \E i \in Inodes :
              /\ FilesOK'
              /\ request[r].path \in Places
              /\ DOMAIN disk' = DOMAIN disk \cup {request[r].path}
              /\ disk'[request[r].path] = i
              /\ \A x \in DOMAIN disk' : x # request[r].path
                    => x \in DOMAIN disk /\ disk'[x] = disk[x] /\ disk[x] # i
              /\ Exists(request[r].path) => i = disk[request[r].path] /\ inodes' = inodes
              /\ ~Exists(request[r].path) => i = inodes + 1 /\ inodes' = i
              /\ data' = [data EXCEPT ![i] = Empty]
              /\ Become(r, [request[r] EXCEPT !.pc = "fill", !.inode = i])
              /\ i \in 1..inodes' /\ inodes <= inodes'
<1> DEFINE p == request[r].path
<1>1. p \in Places
    BY DEF MaildirIInv, RequestsOK, Proper, Truncate, At, Acting
<1>2. PICK i : i = IF Exists(p) THEN disk[p] ELSE inodes + 1
    OBVIOUS
<1>3. /\ i \in Inodes
      /\ disk' = [x \in DOMAIN disk \cup {p} |-> IF x = p THEN i ELSE disk[x]]
      /\ data' = [data EXCEPT ![i] = Empty]
      /\ inodes' = IF Exists(p) THEN inodes ELSE i
      /\ Become(r, [request[r] EXCEPT !.pc = "fill", !.inode = i])
    BY <1>2 DEF Truncate
<1>4. inodes \in 0..MaxInodes /\ MaxInodes \in Nat
    BY MaildirAssumptions DEF MaildirIInv, FilesOK
<1>5. /\ DOMAIN disk' = DOMAIN disk \cup {p}
      /\ disk'[p] = i
      /\ \A x \in DOMAIN disk' : x # p => x \in DOMAIN disk /\ disk'[x] = disk[x]
    BY <1>3
<1>6. /\ Exists(p) => i = disk[p] /\ inodes' = inodes
      /\ ~Exists(p) => i = inodes + 1 /\ inodes' = i
    BY <1>2, <1>3
<1>7. \A x \in DOMAIN disk' : x # p => disk[x] # i
    <2>1. CASE Exists(p)
        BY <2>1, <1>5, <1>6 DEF MaildirIInv, FilesOK, Exists
    <2>2. CASE ~Exists(p)
        BY <2>2, <1>4, <1>5, <1>6 DEF MaildirIInv, FilesOK
    <2> QED BY <2>1, <2>2
<1>8. i \in 1..inodes' /\ inodes <= inodes' /\ inodes' \in 0..MaxInodes
    <2>1. CASE Exists(p)
        BY <2>1, <1>4, <1>6 DEF MaildirIInv, FilesOK, Exists
    <2>2. CASE ~Exists(p)
        BY <2>2, <1>3, <1>4, <1>6 DEF Inodes
    <2> QED BY <2>1, <2>2
<1>9. \A x \in DOMAIN disk' : disk'[x] \in 1..inodes'
    BY <1>4, <1>5, <1>8 DEF MaildirIInv, FilesOK
<1>10. \A x, y \in DOMAIN disk' : disk'[x] = disk'[y] => x = y
    BY <1>5, <1>7 DEF MaildirIInv, FilesOK
<1>11. data' \in [Inodes -> Contents]
    BY <1>3 DEF MaildirIInv, FilesOK, Empty, Contents
<1>12. DOMAIN disk' \subseteq Places
    BY <1>1, <1>5 DEF MaildirIInv, FilesOK
<1>13. FilesOK'
    BY <1>8, <1>9, <1>10, <1>11, <1>12 DEF FilesOK, Inodes, Contents
<1> QED BY <1>1, <1>3, <1>5, <1>6, <1>7, <1>8, <1>13

-----------------------------------------------------------------------------
(* Maildir: every step keeps the types.                                    *)

\* A request is over.
LEMMA DoneKeepsTypes ==
    ASSUME RequestsOK, inodes \in Nat, UNCHANGED inodes, NEW r \in Requests, Done(r)
    PROVE  RequestsOK'
<1>1. Idle \in RequestRecord(inodes') /\ Proper(Idle)
    BY IdleShape
<1> QED BY <1>1, RequestMoves DEF Done

\* A request goes on with its next id, or is over.
LEMMA NextIdKeepsTypes ==
    ASSUME RequestsOK, inodes \in Nat, UNCHANGED inodes, NEW r \in Requests,
           ~At(r, "idle"), NEW label \in {"validate", "locate"},
           label = "validate" => request[r].op \in {"move", "delete"},
           NEW over \in RequestRecord(inodes), Proper(over), NextId(r, label, over)
    PROVE  RequestsOK'
<1> DEFINE x == request[r]
           y == [x EXCEPT !.pc = label, !.n = x.n + 1, !.path = None, !.inode = 0,
                          !.read = Empty]
<1>1. x \in RequestRecord(inodes) /\ Proper(x) /\ x.pc # "idle"
    BY DEF RequestsOK, At
<1>2. CASE x.n < Len(x.ids)
    <2>1. y \in RequestRecord(inodes) /\ Proper(y)
        BY <1>1, <1>2, NextShape
    <2>2. Become(r, y)
        BY <1>2 DEF NextId
    <2> HIDE DEF y
    <2> QED BY <2>1, <2>2, RequestMoves
<1>3. CASE ~(x.n < Len(x.ids))
    <2>1. Become(r, over)
        BY <1>3 DEF NextId
    <2> QED BY <2>1, RequestMoves
<1> QED BY <1>2, <1>3

\* A request begins.
LEMMA AskKeepsTypes ==
    ASSUME MaildirIInv, NEW r \in Requests, NEW w \in Wishes, Ask(r, w.op, w.folder, w.ids)
    PROVE  MaildirIInv'
<1>1. inodes \in Nat /\ inodes' = inodes /\ FilesOK'
    BY DEF Ask, files, MaildirIInv, FilesOK, Inodes
<1>2. PICK label : label = IF w.op \in {"move", "delete"} THEN "validate" ELSE "locate"
    OBVIOUS
<1>3. label \in {"validate", "locate"} /\ (label = "validate" => w.op \in {"move", "delete"})
    BY <1>2
<1> DEFINE y == [Idle EXCEPT !.op = w.op, !.folder = w.folder, !.ids = w.ids, !.n = 1,
                             !.pc = label]
<1>4. /\ y.pc = label /\ y.op = w.op /\ y.folder = w.folder /\ y.ids = w.ids /\ y.n = 1
      /\ y.path = None /\ y.inode = 0 /\ y.read = Empty
    BY DEF Idle
<1>5. w.op \in Ops /\ w.folder \in Folders \cup {"none"} /\ Len(w.ids) \in Nat \ {0}
    BY WishShape
<1>6. Idle \in RequestRecord(inodes)
    BY <1>1, IdleShape
<1>7. y \in RequestRecord(inodes)
    BY <1>3, <1>5, <1>6 DEF RequestRecord, PCs
<1>8. Proper(y)
    BY <1>3, <1>4, <1>5 DEF Proper, Acting
<1>9. Become(r, y)
    BY <1>2 DEF Ask
<1>10. RequestsOK'
    <2> HIDE DEF y
    <2> QED BY <1>1, <1>7, <1>8, <1>9, RequestMoves DEF MaildirIInv
<1> QED BY <1>1, <1>10 DEF MaildirIInv

\* All ids are checked before anything is done.
LEMMA ValidateKeepsTypes ==
    ASSUME MaildirIInv, NEW r \in Requests, Validate(r)
    PROVE  MaildirIInv'
<1> DEFINE x == request[r]
           y == [x EXCEPT !.pc = "locate", !.n = 1]
<1>1. inodes \in Nat /\ inodes' = inodes /\ FilesOK'
    BY DEF Validate, files, MaildirIInv, FilesOK, Inodes
<1>2. x \in RequestRecord(inodes) /\ Proper(x) /\ x.pc = "validate"
    BY DEF MaildirIInv, RequestsOK, Validate, At
<1>3. x.op \in {"move", "delete"} /\ x.n \in 1..Len(x.ids)
    BY <1>2 DEF Proper
<1>4. Len(x.ids) \in Nat
    BY <1>2, AtHand DEF MaildirIInv, At
<1>5. /\ y.pc = "locate" /\ y.n = 1 /\ y.op = x.op /\ y.folder = x.folder /\ y.ids = x.ids
      /\ y.path = x.path /\ y.inode = x.inode
    BY <1>2 DEF RequestRecord
<1>6. y \in RequestRecord(inodes)
    BY <1>2 DEF RequestRecord, PCs
<1>7. Proper(y)
    BY <1>2, <1>3, <1>4, <1>5 DEF Proper, Acting
<1>8. RequestsOK'
    <2>1. NextId(r, "validate", y)
        BY DEF Validate
    <2>2. ~At(r, "idle")
        BY <1>2 DEF At
    <2> HIDE DEF y
    <2> QED BY <1>1, <1>3, <1>6, <1>7, <2>1, <2>2, NextIdKeepsTypes DEF MaildirIInv
<1> QED BY <1>1, <1>8 DEF MaildirIInv

\* Where a request that has found its message goes.
LEMMA LocateShape ==
    ASSUME MaildirIInv, NEW r \in Requests, Locate(r)
    PROVE  \E p \in DOMAIN disk, label \in {"open", "remove", "tag", "rename"} :
              LET x == request[r]
                  y == [x EXCEPT !.path = p, !.pc = label]
              IN  /\ IsFound(p, Id(r)) /\ p \in Places /\ p.name.base = Id(r).base
                  /\ x \in RequestRecord(inodes) /\ Proper(x) /\ x.pc = "locate"
                  /\ label = "open" => x.op = "read"
                  /\ label = "remove" => x.op = "delete"
                  /\ label \in {"tag", "rename"} => x.op \in {"move", "report"}
                  /\ label = "tag" => x.folder = "trash" /\ p.folder # "trash"
                  /\ label = "rename" => ~(x.folder = "trash" /\ p.folder # "trash")
                  /\ Become(r, y)
                  /\ y \in RequestRecord(inodes)
                  /\ y.pc = label /\ y.path = p /\ y.n = x.n
                  /\ y.op = x.op /\ y.folder = x.folder /\ y.ids = x.ids
<1> DEFINE x == request[r]
<1>1. PICK p \in DOMAIN disk :
          /\ IsFound(p, Id(r))
          /\ Become(r, [x EXCEPT !.path = p,
               !.pc = CASE x.op = "read" -> "open"
                        [] x.op = "delete" -> "remove"
                        [] x.folder = "trash" /\ p.folder # "trash" -> "tag"
                        [] OTHER -> "rename"])
    BY DEF Locate
<1>2. x \in RequestRecord(inodes) /\ Proper(x) /\ x.pc = "locate"
    BY DEF MaildirIInv, RequestsOK, Locate, At
<1>3. x.op \in Ops /\ (x.folder = "trash" => x.op = "move")
    BY <1>2, AtHand DEF MaildirIInv, At
<1>4. PICK label : label = CASE x.op = "read" -> "open"
                             [] x.op = "delete" -> "remove"
                             [] x.folder = "trash" /\ p.folder # "trash" -> "tag"
                             [] OTHER -> "rename"
    OBVIOUS
<1>5. /\ label \in {"open", "remove", "tag", "rename"}
      /\ label = "open" => x.op = "read"
      /\ label = "remove" => x.op = "delete"
      /\ label \in {"tag", "rename"} => x.op \in {"move", "report"}
      /\ label = "tag" => x.folder = "trash" /\ p.folder # "trash"
      /\ label = "rename" => ~(x.folder = "trash" /\ p.folder # "trash")
    <2>1. CASE x.op = "read"
        BY <2>1, <1>3, <1>4
    <2>2. CASE x.op = "delete"
        BY <2>2, <1>3, <1>4
    <2>3. CASE x.op \in {"move", "report"} /\ x.folder = "trash" /\ p.folder # "trash"
        BY <2>3, <1>4
    <2>4. CASE x.op \in {"move", "report"} /\ ~(x.folder = "trash" /\ p.folder # "trash")
        BY <2>4, <1>4
    <2> QED BY <1>3, <2>1, <2>2, <2>3, <2>4 DEF Ops
<1> DEFINE y == [x EXCEPT !.path = p, !.pc = label]
<1>6. Become(r, y)
    BY <1>1, <1>4
<1>7. p \in Places /\ p.name.base = Id(r).base
    <2>1. p \in Places
        BY DEF MaildirIInv, FilesOK
    <2>2. p.name = Id(r) \/ p.name.base = Id(r).base
        BY <1>1 DEF IsFound, Matches
    <2> QED BY <2>1, <2>2
<1>8. /\ y.pc = label /\ y.path = p /\ y.n = x.n
      /\ y.op = x.op /\ y.folder = x.folder /\ y.ids = x.ids
    BY <1>2 DEF RequestRecord
<1>9. y \in RequestRecord(inodes)
    BY <1>2, <1>5, <1>7 DEF RequestRecord, PCs, Acting
<1> QED BY <1>1, <1>2, <1>5, <1>6, <1>7, <1>8, <1>9

\* A request finds its message.
LEMMA LocateKeepsTypes ==
    ASSUME MaildirIInv, NEW r \in Requests, Locate(r)
    PROVE  MaildirIInv'
<1> DEFINE x == request[r]
<1>1. inodes \in Nat /\ inodes' = inodes /\ FilesOK'
    BY DEF Locate, files, MaildirIInv, FilesOK, Inodes
<1>2. PICK p \in DOMAIN disk, label \in {"open", "remove", "tag", "rename"} :
          LET y == [x EXCEPT !.path = p, !.pc = label]
          IN  /\ IsFound(p, Id(r)) /\ p \in Places /\ p.name.base = Id(r).base
              /\ x \in RequestRecord(inodes) /\ Proper(x) /\ x.pc = "locate"
              /\ label = "open" => x.op = "read"
              /\ label = "remove" => x.op = "delete"
              /\ label \in {"tag", "rename"} => x.op \in {"move", "report"}
              /\ label = "tag" => x.folder = "trash" /\ p.folder # "trash"
              /\ label = "rename" => ~(x.folder = "trash" /\ p.folder # "trash")
              /\ Become(r, y)
              /\ y \in RequestRecord(inodes)
              /\ y.pc = label /\ y.path = p /\ y.n = x.n
              /\ y.op = x.op /\ y.folder = x.folder /\ y.ids = x.ids
    BY LocateShape
<1> DEFINE y == [x EXCEPT !.path = p, !.pc = label]
<1>3. y.path.name.base = y.ids[y.n].base
    BY <1>2 DEF Id
<1>4. Proper(y)
    BY <1>2, <1>3 DEF Proper, Acting
<1>5. Become(r, y) /\ y \in RequestRecord(inodes)
    BY <1>2
<1>6. RequestsOK'
    <2> HIDE DEF y
    <2> QED BY <1>1, <1>4, <1>5, RequestMoves DEF MaildirIInv
<1> QED BY <1>1, <1>6 DEF MaildirIInv

\* A message is opened, which marks it as seen.
LEMMA OpenKeepsTypes ==
    ASSUME MaildirIInv, NEW r \in Requests, Open(r)
    PROVE  MaildirIInv'
<1> DEFINE p == request[r].path
           q == Place(p.folder, "cur", Seen(p.name))
<1>1. inodes \in Nat /\ inodes' = inodes
    BY DEF Open, MaildirIInv, FilesOK
<1>2. p \in Places
    BY DEF MaildirIInv, RequestsOK, Proper, Open, At, Acting
<1>3. q \in Places
    BY <1>2 DEF Place, Places, Seen, Names, Flags
<1>4. FilesOK'
    <2>1. CASE p.dir = "new"
        <3>1. p \in DOMAIN disk /\ Rename(p, q)
            BY <2>1 DEF Open, Exists
        <3> QED BY <1>3, <3>1, RenameFiles DEF MaildirIInv, Open
    <2>2. CASE p.dir # "new"
        BY <2>2 DEF Open, MaildirIInv, FilesOK, Inodes
    <2> QED BY <2>1, <2>2
<1>5. RequestsOK'
    BY <1>1, DoneKeepsTypes DEF Open, MaildirIInv
<1> QED BY <1>4, <1>5 DEF MaildirIInv

\* A file is read to be rewritten, or has an origin.
LEMMA TagKeepsTypes ==
    ASSUME MaildirIInv, NEW r \in Requests, Tag(r)
    PROVE  MaildirIInv'
<1> DEFINE x == request[r]
           p == x.path
<1>1. inodes \in Nat /\ inodes' = inodes /\ FilesOK'
    BY DEF Tag, files, MaildirIInv, FilesOK, Inodes
<1>2. x \in RequestRecord(inodes) /\ Proper(x) /\ x.pc = "tag"
    BY DEF MaildirIInv, RequestsOK, Tag, At
<1>3. data[disk[p]] \in Contents
    <2>1. p \in DOMAIN disk
        BY DEF Tag, Exists
    <2> HIDE DEF p
    <2> QED BY <2>1, FileData DEF MaildirIInv
<1>4. CASE data[disk[p]].origin # None
    <2> DEFINE y == [x EXCEPT !.pc = "rename"]
    <2>1. Become(r, y)
        BY <1>4 DEF Tag, Goto
    <2>2. /\ y.pc = "rename" /\ y.n = x.n /\ y.op = x.op /\ y.folder = x.folder
          /\ y.ids = x.ids /\ y.path = x.path /\ y.inode = x.inode
        BY <1>2 DEF RequestRecord
    <2>3. y \in RequestRecord(inodes)
        BY <1>2 DEF RequestRecord, PCs, Acting
    <2>4. Proper(y)
        BY <1>2, <2>2 DEF Proper, Acting
    <2>5. RequestsOK'
        <3> HIDE DEF y
        <3> QED BY <1>1, <2>1, <2>3, <2>4, RequestMoves DEF MaildirIInv
    <2> QED BY <1>1, <2>5 DEF MaildirIInv
<1>5. CASE data[disk[p]].origin = None
    <2> DEFINE y == [x EXCEPT !.pc = "truncate", !.read = data[disk[p]]]
    <2>1. Become(r, y)
        BY <1>5 DEF Tag
    <2>2. /\ y.pc = "truncate" /\ y.n = x.n /\ y.op = x.op /\ y.folder = x.folder
          /\ y.ids = x.ids /\ y.path = x.path /\ y.inode = x.inode
        BY <1>2 DEF RequestRecord
    <2>3. y \in RequestRecord(inodes)
        BY <1>2, <1>3 DEF RequestRecord, PCs, Acting
    <2>4. Proper(y)
        BY <1>2, <2>2 DEF Proper, Acting
    <2>5. RequestsOK'
        <3> HIDE DEF y
        <3> QED BY <1>1, <2>1, <2>3, <2>4, RequestMoves DEF MaildirIInv
    <2> QED BY <1>1, <2>5 DEF MaildirIInv
<1> QED BY <1>4, <1>5

\* A file is emptied, or created.
LEMMA TruncateKeepsTypes ==
    ASSUME MaildirIInv, NEW r \in Requests, Truncate(r)
    PROVE  MaildirIInv'
<1> DEFINE x == request[r]
<1>1. PICK i \in Inodes :
          /\ FilesOK'
          /\ Become(r, [x EXCEPT !.pc = "fill", !.inode = i])
          /\ i \in 1..inodes' /\ inodes <= inodes'
    BY TruncateFiles
<1> DEFINE y == [x EXCEPT !.pc = "fill", !.inode = i]
<1>2. x \in RequestRecord(inodes) /\ Proper(x) /\ x.pc = "truncate"
    BY DEF MaildirIInv, RequestsOK, Truncate, At
<1>3. inodes \in Nat /\ inodes' \in Nat
    BY <1>1 DEF MaildirIInv, FilesOK
<1>4. /\ y.pc = "fill" /\ y.n = x.n /\ y.op = x.op /\ y.folder = x.folder
      /\ y.ids = x.ids /\ y.path = x.path /\ y.inode = i
    BY <1>2 DEF RequestRecord
<1>5. y \in RequestRecord(inodes')
    <2>1. x \in RequestRecord(inodes')
        <3>1. 0..inodes \subseteq 0..inodes'
            BY <1>1, <1>3
        <3> QED BY <1>2, <3>1 DEF RequestRecord
    <2>2. i \in 0..inodes' /\ "fill" \in PCs
        BY <1>1, <1>3 DEF PCs, Acting
    <2> QED BY <2>1, <2>2 DEF RequestRecord
<1>6. Proper(y)
    BY <1>1, <1>2, <1>3, <1>4 DEF Proper, Acting
<1>7. RequestsOK'
    <2>1. Become(r, y)
        BY <1>1
    <2> HIDE DEF y
    <2> QED BY <1>1, <1>3, <1>5, <1>6, <2>1, RequestMoves DEF MaildirIInv
<1> QED BY <1>1, <1>7 DEF MaildirIInv

\* The open file is written.
LEMMA FillKeepsTypes ==
    ASSUME MaildirIInv, NEW r \in Requests, Fill(r)
    PROVE  MaildirIInv'
<1> DEFINE x == request[r]
           y == [x EXCEPT !.pc = "rename"]
<1>1. inodes \in Nat /\ inodes' = inodes /\ disk' = disk
    BY DEF Fill, MaildirIInv, FilesOK
<1>2. x \in RequestRecord(inodes) /\ Proper(x) /\ x.pc = "fill"
    BY DEF MaildirIInv, RequestsOK, Fill, At
<1>3. x.path \in Places /\ x.read \in Contents
    BY <1>2 DEF Proper, Acting, RequestRecord
<1>4. [body |-> x.read.body, origin |-> x.path.folder] \in Contents
    BY <1>3 DEF Contents, Places
<1>5. data' \in [Inodes -> Contents]
    BY <1>4 DEF Fill, MaildirIInv, FilesOK
<1>6. FilesOK'
    BY <1>1, <1>5 DEF MaildirIInv, FilesOK, Inodes, Contents
<1>7. Become(r, y)
    BY DEF Fill, Goto
<1>8. /\ y.pc = "rename" /\ y.n = x.n /\ y.op = x.op /\ y.folder = x.folder
      /\ y.ids = x.ids /\ y.path = x.path
    BY <1>2 DEF RequestRecord
<1>9. y \in RequestRecord(inodes)
    BY <1>2 DEF RequestRecord, PCs, Acting
<1>10. Proper(y)
    BY <1>2, <1>8 DEF Proper, Acting
<1>11. RequestsOK'
    <2> HIDE DEF y
    <2> QED BY <1>1, <1>7, <1>9, <1>10, RequestMoves DEF MaildirIInv
<1> QED BY <1>6, <1>11 DEF MaildirIInv

\* The file is renamed, or removed.
LEMMA MoveKeepsTypes ==
    ASSUME MaildirIInv, NEW r \in Requests, Move(r)
    PROVE  /\ MaildirIInv'
           /\ request[r].path \in Places
           /\ Place(request[r].folder, "new", request[r].path.name) \in Places
<1> DEFINE x == request[r]
           q == Place(x.folder, "new", x.path.name)
<1>1. inodes \in Nat /\ inodes' = inodes
    BY DEF Move, MaildirIInv, FilesOK
<1>2. x.path \in Places /\ x.op \in {"move", "report"} /\ x.pc = "rename"
    BY DEF MaildirIInv, RequestsOK, Proper, Move, At, Acting
<1>3. ~At(r, "idle")
    BY <1>2 DEF At
<1>4. x.folder \in Folders
    BY <1>2, <1>3, AtHand DEF MaildirIInv
<1>5. q \in Places
    BY <1>2, <1>4 DEF Place, Places
<1>6. x.path \in DOMAIN disk /\ Rename(x.path, q)
    BY DEF Move, Exists
<1>7. FilesOK'
    BY <1>5, <1>6, RenameFiles DEF MaildirIInv, Move
<1>8. Idle \in RequestRecord(inodes) /\ Proper(Idle)
    BY <1>1, IdleShape
<1>9. NextId(r, "locate", Idle)
    BY DEF Move
<1>10. RequestsOK'
    BY <1>1, <1>3, <1>8, <1>9, NextIdKeepsTypes DEF MaildirIInv
<1> QED BY <1>2, <1>5, <1>7, <1>10 DEF MaildirIInv

LEMMA RemoveKeepsTypes ==
    ASSUME MaildirIInv, NEW r \in Requests, RemoveFile(r)
    PROVE  MaildirIInv'
<1>1. inodes \in Nat /\ inodes' = inodes
    BY DEF RemoveFile, MaildirIInv, FilesOK
<1>2. FilesOK'
    BY RemoveFiles DEF MaildirIInv, RemoveFile
<1>3. ~At(r, "idle") /\ NextId(r, "locate", Idle)
    BY DEF RemoveFile, At
<1>4. Idle \in RequestRecord(inodes) /\ Proper(Idle)
    BY <1>1, IdleShape
<1>5. RequestsOK'
    BY <1>1, <1>3, <1>4, NextIdKeepsTypes DEF MaildirIInv
<1> QED BY <1>2, <1>5 DEF MaildirIInv

\* Folders are deleted, the mail server renames, and webmail is restarted.
LEMMA EnvironmentKeepsTypes ==
    ASSUME MaildirIInv, Environment \/ MailServer
    PROVE  MaildirIInv'
<1>1. CASE DeleteFolder
    <2>1. FilesOK'
        BY <1>1, RemoveFiles DEF DeleteFolder, MaildirIInv
    <2> QED BY <1>1, <2>1 DEF DeleteFolder, MaildirIInv, RequestsOK, RequestRecord
<1>2. CASE Restart
    <2>1. Idle \in RequestRecord(inodes) /\ Proper(Idle)
        BY IdleShape DEF MaildirIInv, FilesOK
    <2>2. FilesOK' /\ inodes' = inodes
        BY <1>2 DEF Restart, files, MaildirIInv, FilesOK, Inodes
    <2>3. RequestsOK'
        BY <1>2, <2>1, <2>2 DEF Restart, RequestsOK, RequestRecord
    <2> QED BY <2>2, <2>3 DEF MaildirIInv
<1>3. ASSUME NEW p \in DOMAIN disk, MailServerRenames(p)
      PROVE  MaildirIInv'
    <2> DEFINE q == Place(p.folder, "cur", [p.name EXCEPT !.flags = IF p.dir = "new"
                                              THEN "unseen" ELSE "seen"])
    <2>1. p \in Places
        BY DEF MaildirIInv, FilesOK
    <2>2. q \in Places
        BY <2>1 DEF Places, Place, Names, Flags
    <2>3. Rename(p, q) /\ UNCHANGED <<data, inodes, request>>
        BY <1>3 DEF MailServerRenames
    <2>4. FilesOK'
        BY <2>2, <2>3, RenameFiles DEF MaildirIInv
    <2> QED BY <2>3, <2>4 DEF MaildirIInv, RequestsOK, RequestRecord
<1> QED BY <1>1, <1>2, <1>3 DEF Environment, MailServer

LEMMA MaildirInitHolds == Init => MaildirIInv
<1> SUFFICES ASSUME Init PROVE MaildirIInv
    OBVIOUS
<1>1. PICK folder \in [Messages -> {"inbox", "sent", "spam"}],
           inode \in [Messages -> 1..Cardinality(Messages)] :
          /\ \A m, k \in Messages : inode[m] = inode[k] => m = k
          /\ disk = [p \in {FirstPlace(m, folder[m]) : m \in Messages} |->
                        inode[p.name.base]]
    BY DEF Init
<1>2. Cardinality(Messages) \in Nat /\ MaxInodes \in Nat /\ Cardinality(Messages) <= MaxInodes
    BY MaildirAssumptions, FS_CardinalityType
<1>3. inodes = Cardinality(Messages) /\ inodes \in 0..MaxInodes
    BY <1>2 DEF Init
<1>4. \A p \in DOMAIN disk : \E m \in Messages :
          p = FirstPlace(m, folder[m]) /\ p.name.base = m /\ disk[p] = inode[m]
    BY <1>1 DEF FirstPlace, Place
<1>5. \A m \in Messages : FirstPlace(m, folder[m]) \in Places
    BY <1>1 DEF FirstPlace, Place, Places, Folders, Names, Flags
<1>6. DOMAIN disk \subseteq Places
    BY <1>4, <1>5
<1>7. \A p \in DOMAIN disk : disk[p] \in 1..inodes
    BY <1>1, <1>3, <1>4
<1>8. \A p, q \in DOMAIN disk : disk[p] = disk[q] => p = q
    BY <1>1, <1>4
<1>9. data \in [Inodes -> Contents]
    BY <1>2 DEF Init, Contents, Inodes
<1>10. FilesOK
    BY <1>3, <1>6, <1>7, <1>8, <1>9 DEF FilesOK
<1>11. Idle \in RequestRecord(inodes) /\ Proper(Idle)
    BY <1>3, IdleShape
<1>12. RequestsOK
    BY <1>11 DEF Init, RequestsOK
<1> QED BY <1>10, <1>12 DEF MaildirIInv

\* What is remembered of the messages is about messages.
SpoiltOK == spoilt \in [stopped : SUBSET Messages, overlapped : SUBSET Messages]

LEMMA SpoiltStepKeeps ==
    ASSUME MaildirIInv, SpoiltOK, [Next]_vars
    PROVE  SpoiltOK' /\ \A m : Spoilt(m) => Spoilt(m)'
<1>1. ASSUME NEW group \in SUBSET Requests
      PROVE  HalfWritten(group) \subseteq Messages
    <2>1. \A r \in group : At(r, "fill") => request[r].path.name.base \in Messages
        BY DEF MaildirIInv, RequestsOK, Proper, At, Acting, Places, Names
    <2> QED BY <2>1 DEF HalfWritten
<1>2. ASSUME NEW group \in SUBSET Requests,
             spoilt' = [spoilt EXCEPT !.stopped = @ \cup HalfWritten(group)]
      PROVE  SpoiltOK' /\ \A m : Spoilt(m) => Spoilt(m)'
    <2>1. HalfWritten(group) \subseteq Messages
        BY <1>1
    <2> QED BY <1>2, <2>1 DEF SpoiltOK, Spoilt
<1>3. CASE Restart
    BY <1>2, <1>3 DEF Restart
<1>4. ASSUME NEW r \in Requests, Tag(r)
      PROVE  SpoiltOK' /\ \A m : Spoilt(m) => Spoilt(m)'
    <2>1. request[r].path \in Places
        BY <1>4 DEF Tag, Exists, MaildirIInv, FilesOK
    <2>2. request[r].path.name.base \in Messages
        BY <2>1 DEF Places, Names
    <2>3. \/ spoilt' = spoilt
          \/ spoilt' = [spoilt EXCEPT !.overlapped = @ \cup {request[r].path.name.base}]
        BY <1>4 DEF Tag
    <2> QED BY <2>2, <2>3 DEF SpoiltOK, Spoilt
<1>5. ASSUME NEW r \in Requests, Stop(r)
      PROVE  SpoiltOK' /\ \A m : Spoilt(m) => Spoilt(m)'
    <2>1. spoilt' = [spoilt EXCEPT !.stopped = @ \cup HalfWritten({r})]
        BY <1>5 DEF Stop
    <2> QED BY <1>2, <2>1
<1>6. \/ spoilt' = spoilt \/ Restart
      \/ \E r \in Requests : Stop(r) \/ Tag(r)
    BY DEF Next, WebmailNext, MailServer, Step, Environment, vars, files, Ask, Validate,
           Locate, Open, Truncate, Fill, Move, RemoveFile, DeleteFolder, MailServerRenames
<1> QED BY <1>3, <1>4, <1>5, <1>6 DEF SpoiltOK, Spoilt

\* Every step keeps the types.
LEMMA MaildirStepKeeps == MaildirIInv /\ [Next]_vars => MaildirIInv'
<1> SUFFICES ASSUME MaildirIInv, [Next]_vars PROVE MaildirIInv'
    OBVIOUS
<1>1. ASSUME NEW r \in Requests, NEW w \in Wishes, Ask(r, w.op, w.folder, w.ids)
      PROVE  MaildirIInv'
    BY <1>1, AskKeepsTypes
<1>2. ASSUME NEW r \in Requests, Step(r)
      PROVE  MaildirIInv'
    <2>1. CASE Stop(r)
        <3>1. FilesOK' /\ inodes' = inodes /\ inodes \in Nat
            BY <2>1 DEF Stop, files, MaildirIInv, FilesOK, Inodes
        <3>2. RequestsOK'
            BY <2>1, <3>1, DoneKeepsTypes DEF Stop, MaildirIInv
        <3> QED BY <3>1, <3>2 DEF MaildirIInv
    <2> QED BY <1>2, <2>1, ValidateKeepsTypes, LocateKeepsTypes, OpenKeepsTypes,
               TagKeepsTypes, TruncateKeepsTypes, FillKeepsTypes, MoveKeepsTypes,
               RemoveKeepsTypes DEF Step
<1>3. CASE UNCHANGED vars
    BY <1>3 DEF vars, files, MaildirIInv, FilesOK, RequestsOK, RequestRecord, Inodes
<1> QED BY <1>1, <1>2, <1>3, EnvironmentKeepsTypes DEF Next, WebmailNext

-----------------------------------------------------------------------------
(* Maildir: results.                                                       *)

\* Each file is in one place, and each request at a place in its code with
\* what it needs there, whatever the requests, the mail server and a restart
\* do to each other.
THEOREM MaildirTypes == Spec => []TypeOK
<1>1. MaildirIInv /\ SpoiltOK => TypeOK
    <2> SUFFICES ASSUME MaildirIInv, SpoiltOK PROVE TypeOK
        OBVIOUS
    <2>1. ASSUME NEW r \in Requests
          PROVE  /\ request[r] \in RequestRecord(inodes)
                 /\ ~At(r, "idle") => request[r].n \in 1..Len(request[r].ids)
                 /\ request[r].pc \in Acting => request[r].path # None
                 /\ At(r, "fill") => request[r].inode # 0
        <3>1. request[r] \in RequestRecord(inodes) /\ Proper(request[r])
            BY DEF MaildirIInv, RequestsOK
        <3>2. None \notin Places
            BY MaildirAssumptions
        <3> QED BY <3>1, <3>2 DEF Proper, At, Acting
    <2> QED BY <2>1 DEF MaildirIInv, FilesOK, TypeOK, RequestRecord, SpoiltOK
<1>2. Init => SpoiltOK
    BY DEF Init, SpoiltOK
<1> QED BY <1>1, <1>2, MaildirInitHolds, MaildirStepKeeps, SpoiltStepKeeps, PTL DEF Spec

-----------------------------------------------------------------------------
(* Maildir: what becomes of files.                                         *)

\* A file that gets another name of the same message is still one of it.
LEMMA RenameKeepsCopies ==
    ASSUME NEW p \in DOMAIN disk, NEW q, q.name.base = p.name.base, Rename(p, q),
           NEW m \in Messages, CopiesOf(m) # {}
    PROVE  CopiesOf(m)' # {}
<1>1. /\ DOMAIN disk' = (DOMAIN disk \ {p}) \cup {q}
    BY DEF Rename
<1>2. PICK x \in DOMAIN disk : x.name.base = m
    BY DEF CopiesOf
<1>3. CASE x = p
    BY <1>1, <1>2, <1>3 DEF CopiesOf
<1>4. CASE x # p
    BY <1>1, <1>2, <1>4 DEF CopiesOf
<1> QED BY <1>3, <1>4

\* The last file of a message goes only when a request to delete it removes it,
\* or its folder is deleted.
LEMMA FilesAreKept ==
    ASSUME MaildirIInv, [Next]_vars, NEW m \in Messages, CopiesOf(m) # {}, CopiesOf(m)' = {}
    PROVE  \/ \E r \in Requests : Deleting(r, m) /\ ~Deleting(r, m)'
           \/ (\A p \in CopiesOf(m) : p.folder = "custom") /\ UNCHANGED request
<1> DEFINE Lost == \/ \E r \in Requests : Deleting(r, m) /\ ~Deleting(r, m)'
                   \/ (\A p \in CopiesOf(m) : p.folder = "custom") /\ UNCHANGED request
<1>1. CASE disk' = disk
    BY <1>1 DEF CopiesOf
<1>2. ASSUME NEW r \in Requests, Open(r), request[r].path.dir = "new"
      PROVE  Lost
    <2> DEFINE p == request[r].path
               q == Place(p.folder, "cur", Seen(p.name))
    <2>1. p \in Places /\ p \in DOMAIN disk /\ Rename(p, q)
        BY <1>2 DEF MaildirIInv, RequestsOK, Proper, Open, At, Acting, Exists
    <2>2. q.name.base = p.name.base
        BY <2>1 DEF Places, Names, Place, Seen
    <2> HIDE DEF p, q
    <2> QED BY <2>1, <2>2, RenameKeepsCopies
<1>3. ASSUME NEW r \in Requests, Truncate(r)
      PROVE  Lost
    BY <1>3 DEF Truncate, CopiesOf
<1>4. ASSUME NEW r \in Requests, Move(r)
      PROVE  Lost
    <2> DEFINE p == request[r].path
               q == Place(request[r].folder, "new", p.name)
    <2>1. p \in DOMAIN disk /\ Rename(p, q)
        BY <1>4 DEF Move, Exists
    <2>2. q.name.base = p.name.base
        BY DEF Place
    <2> HIDE DEF p, q
    <2> QED BY <2>1, <2>2, RenameKeepsCopies
<1>5. ASSUME NEW r \in Requests, RemoveFile(r)
      PROVE  Lost
    <2>1. DOMAIN disk' = DOMAIN disk \ {request[r].path} /\ At(r, "remove")
        BY <1>5 DEF RemoveFile
    <2>2. PICK x \in DOMAIN disk : x.name.base = m
        BY DEF CopiesOf
    <2>3. x = request[r].path
        BY <2>1, <2>2 DEF CopiesOf
    <2>4. Deleting(r, m)
        BY <2>1, <2>2, <2>3 DEF Deleting
    <2>5. request'[r].pc # "remove"
        BY <1>5 DEF RemoveFile, NextId, Become, Idle, MaildirIInv, RequestsOK, RequestRecord
    <2> QED BY <2>4, <2>5 DEF Deleting, At
<1>6. CASE DeleteFolder
    <2>1. DOMAIN disk' = {q \in DOMAIN disk : q.folder # "custom"} /\ UNCHANGED request
        BY <1>6 DEF DeleteFolder
    <2> QED BY <2>1 DEF CopiesOf
<1>7. ASSUME NEW p \in DOMAIN disk, MailServerRenames(p)
      PROVE  Lost
    <2> DEFINE q == Place(p.folder, "cur", [p.name EXCEPT !.flags = IF p.dir = "new"
                                              THEN "unseen" ELSE "seen"])
    <2>1. p \in Places
        BY DEF MaildirIInv, FilesOK
    <2>2. q.name.base = p.name.base
        BY <2>1 DEF Places, Names, Place
    <2>3. Rename(p, q)
        BY <1>7 DEF MailServerRenames
    <2> HIDE DEF q
    <2> QED BY <2>2, <2>3, RenameKeepsCopies
<1>8. \/ disk' = disk
      \/ \E r \in Requests : \/ Open(r) /\ request[r].path.dir = "new"
                             \/ Truncate(r) \/ Move(r) \/ RemoveFile(r)
      \/ DeleteFolder
      \/ \E p \in DOMAIN disk : MailServerRenames(p)
    BY DEF Next, WebmailNext, MailServer, Step, Environment, vars, files, Ask, Validate,
           Stop, Locate, Open, Tag, Fill, Restart
<1> QED BY <1>1, <1>2, <1>3, <1>4, <1>5, <1>6, <1>7, <1>8

-----------------------------------------------------------------------------
(* Maildir: a move never loses the body of a message.  Every file of a      *)
(* message that is not spoilt has its body, or some request that emptied    *)
(* it holds the body and is about to write it back.                         *)

\* The open file is, under whatever name, one of the message at hand.
HeldBy(j, b) == \A p \in DOMAIN disk : disk[p] = j => p.name.base = b
OwnFile == \A r \in Requests :
              At(r, "fill") => HeldBy(request[r].inode, request[r].path.name.base)

\* What a request is about to write back.
HasRead(x) ==
    x.pc \in {"truncate", "fill"} => x.read.body \/ Spoilt(x.path.name.base)

Kept(p) == data[disk[p]].body \/ \E r \in Requests : Rewrites(r, p)

BodyIInv == /\ MaildirIInv /\ SpoiltOK /\ OwnFile
            /\ \A r \in Requests : HasRead(request[r])
            /\ \A p \in DOMAIN disk : Kept(p) \/ Spoilt(p.name.base)

\* The file at p was there before, as one of the same message.
WasThere(p) == \E q \in DOMAIN disk : q.name.base = p.name.base /\ disk[q] = disk'[p]

LEMMA RenamedWasThere ==
    ASSUME NEW p \in DOMAIN disk, NEW q, q.name.base = p.name.base, Rename(p, q)
    PROVE  \A x \in DOMAIN disk' : WasThere(x)
<1>1. /\ DOMAIN disk' = (DOMAIN disk \ {p}) \cup {q}
      /\ \A x \in DOMAIN disk' : disk'[x] = IF x = q THEN disk[p] ELSE disk[x]
    BY DEF Rename
<1> SUFFICES ASSUME NEW x \in DOMAIN disk' PROVE WasThere(x)
    OBVIOUS
<1>2. CASE x = q
    BY <1>1, <1>2 DEF WasThere
<1>3. CASE x # q
    BY <1>1, <1>3 DEF WasThere
<1> QED BY <1>2, <1>3

\* Only a rewriting creates files.
LEMMA FilesWereThere ==
    ASSUME MaildirIInv, [Next]_vars, \A r \in Requests : ~Truncate(r)
    PROVE  \A x \in DOMAIN disk' : WasThere(x)
<1>1. CASE disk' = disk
    BY <1>1 DEF WasThere
<1>2. ASSUME NEW r \in Requests, Open(r), request[r].path.dir = "new"
      PROVE  \A x \in DOMAIN disk' : WasThere(x)
    <2> DEFINE p == request[r].path
               q == Place(p.folder, "cur", Seen(p.name))
    <2>1. p \in Places /\ p \in DOMAIN disk /\ Rename(p, q)
        BY <1>2 DEF MaildirIInv, RequestsOK, Proper, Open, At, Acting, Exists
    <2>2. q.name.base = p.name.base
        BY <2>1 DEF Places, Names, Place, Seen
    <2> HIDE DEF p, q
    <2> QED BY <2>1, <2>2, RenamedWasThere
<1>3. ASSUME NEW r \in Requests, Move(r)
      PROVE  \A x \in DOMAIN disk' : WasThere(x)
    <2> DEFINE p == request[r].path
               q == Place(request[r].folder, "new", p.name)
    <2>1. p \in DOMAIN disk /\ Rename(p, q)
        BY <1>3 DEF Move, Exists
    <2>2. q.name.base = p.name.base
        BY DEF Place
    <2> HIDE DEF p, q
    <2> QED BY <2>1, <2>2, RenamedWasThere
<1>4. ASSUME NEW r \in Requests, RemoveFile(r)
      PROVE  \A x \in DOMAIN disk' : WasThere(x)
    BY <1>4 DEF RemoveFile, WasThere
<1>5. CASE DeleteFolder
    BY <1>5 DEF DeleteFolder, WasThere
<1>6. ASSUME NEW p \in DOMAIN disk, MailServerRenames(p)
      PROVE  \A x \in DOMAIN disk' : WasThere(x)
    <2> DEFINE q == Place(p.folder, "cur", [p.name EXCEPT !.flags = IF p.dir = "new"
                                              THEN "unseen" ELSE "seen"])
    <2>1. p \in Places
        BY DEF MaildirIInv, FilesOK
    <2>2. q.name.base = p.name.base
        BY <2>1 DEF Places, Names, Place
    <2>3. Rename(p, q)
        BY <1>6 DEF MailServerRenames
    <2> HIDE DEF q
    <2> QED BY <2>2, <2>3, RenamedWasThere
<1>7. \/ disk' = disk
      \/ \E r \in Requests : \/ Open(r) /\ request[r].path.dir = "new"
                             \/ Truncate(r) \/ Move(r) \/ RemoveFile(r)
      \/ DeleteFolder
      \/ \E p \in DOMAIN disk : MailServerRenames(p)
    BY DEF Next, WebmailNext, MailServer, Step, Environment, vars, files, Ask, Validate,
           Stop, Locate, Open, Tag, Fill, Restart
<1> QED BY <1>1, <1>2, <1>3, <1>4, <1>5, <1>6, <1>7

\* A step at which no file is emptied or written back, and no request that has
\* emptied one ends.
Harmless == /\ data' = data
            /\ \A r \in Requests : ~Truncate(r)
            /\ \A s \in Requests : /\ request'[s].pc = "fill" => request'[s] = request[s]
                                   /\ request[s].pc = "fill" => request'[s] = request[s]
                                   /\ HasRead(request[s])'

\* Requests that are not about to rewrite a file.
LEMMA NothingRead ==
    ASSUME BodyIInv, NEW r \in Requests, ~At(r, "fill"), NEW y, Become(r, y),
           y.pc \notin {"truncate", "fill"}, data' = data, spoilt' = spoilt,
           \A s \in Requests : ~Truncate(s)
    PROVE  Harmless
<1>1. request'[r] = y /\ \A s \in Requests : s # r => request'[s] = request[s]
    BY DEF Become, BodyIInv, MaildirIInv, RequestsOK
<1>2. ASSUME NEW s \in Requests
      PROVE  HasRead(request[s])'
    <2>1. HasRead(request[s])
        BY DEF BodyIInv
    <2>2. CASE s = r
        BY <1>1, <2>2 DEF HasRead
    <2>3. CASE s # r
        BY <1>1, <2>1, <2>3 DEF HasRead, Spoilt
    <2> QED BY <2>2, <2>3
<1> QED BY <1>1, <1>2 DEF Harmless, At

\* A file without a body and an origin is empty.
LEMMA EmptyShape ==
    ASSUME NEW c \in Contents, c.origin = None, ~c.body
    PROVE  c = Empty
<1>1. c.body \in BOOLEAN
    BY DEF Contents
<1>2. c.body = FALSE
    BY <1>1, Zenon
<1>3. c = [body |-> c.body, origin |-> c.origin]
    BY DEF Contents
<1> QED BY <1>2, <1>3 DEF Empty

LEMMA HarmlessSteps ==
    ASSUME BodyIInv, [Next]_vars, ~Restart,
           \A r \in Requests : ~Truncate(r) /\ ~Fill(r) /\ ~Stop(r)
    PROVE  Harmless
<1>1. ASSUME request' = request, data' = data, spoilt' = spoilt
      PROVE  Harmless
    BY <1>1 DEF Harmless, BodyIInv, HasRead, Spoilt
<1>2. ASSUME NEW r \in Requests, NEW w \in Wishes, Ask(r, w.op, w.folder, w.ids)
      PROVE  Harmless
    <2> DEFINE y == [Idle EXCEPT !.op = w.op, !.folder = w.folder, !.ids = w.ids, !.n = 1,
                                 !.pc = IF w.op \in {"move", "delete"} THEN "validate"
                                        ELSE "locate"]
    <2>1. Become(r, y) /\ ~At(r, "fill") /\ data' = data /\ spoilt' = spoilt
        BY <1>2 DEF Ask, At, files
    <2>2. y.pc \in {"validate", "locate"}
        BY DEF Idle
    <2> HIDE DEF y
    <2> QED BY <2>1, <2>2, NothingRead
<1>3. ASSUME NEW r \in Requests, NEW label \in {"validate", "locate"}, NEW over,
             NextId(r, label, over), over.pc \in {"idle", "locate"}, ~At(r, "fill"),
             data' = data, spoilt' = spoilt
      PROVE  Harmless
    <2> DEFINE x == request[r]
               y == [x EXCEPT !.pc = label, !.n = x.n + 1, !.path = None, !.inode = 0,
                              !.read = Empty]
    <2>1. x \in RequestRecord(inodes)
        BY DEF BodyIInv, MaildirIInv, RequestsOK
    <2>2. y.pc = label
        BY <2>1 DEF RequestRecord
    <2>3. Become(r, y) \/ Become(r, over)
        BY <1>3 DEF NextId
    <2> HIDE DEF y
    <2>4. CASE Become(r, y)
        BY <1>3, <2>2, <2>4, NothingRead
    <2>5. CASE Become(r, over)
        BY <1>3, <2>5, NothingRead
    <2> QED BY <2>3, <2>4, <2>5
<1>4. ASSUME NEW r \in Requests, Validate(r)
      PROVE  Harmless
    <2> DEFINE y == [request[r] EXCEPT !.pc = "locate", !.n = 1]
    <2>1. NextId(r, "validate", y) /\ ~At(r, "fill") /\ data' = data /\ spoilt' = spoilt
        BY <1>4 DEF Validate, At, files
    <2>2. y.pc = "locate"
        BY DEF BodyIInv, MaildirIInv, RequestsOK, RequestRecord
    <2> HIDE DEF y
    <2> QED BY <1>3, <2>1, <2>2
<1>5. ASSUME NEW r \in Requests, Move(r) \/ RemoveFile(r)
      PROVE  Harmless
    <2>1. NextId(r, "locate", Idle) /\ ~At(r, "fill") /\ data' = data /\ spoilt' = spoilt
        BY <1>5 DEF Move, RemoveFile, At
    <2>2. Idle.pc = "idle"
        BY DEF Idle
    <2> QED BY <1>3, <2>1, <2>2
<1>6. ASSUME NEW r \in Requests, Open(r)
      PROVE  Harmless
    <2>1. Become(r, Idle) /\ Idle.pc = "idle" /\ ~At(r, "fill") /\ data' = data /\ spoilt' = spoilt
        BY <1>6 DEF Open, Done, Idle, At
    <2> QED BY <2>1, NothingRead
<1>7. ASSUME NEW r \in Requests, Locate(r)
      PROVE  Harmless
    <2>1. request[r] \in RequestRecord(inodes)
        BY DEF BodyIInv, MaildirIInv, RequestsOK
    <2>2. PICK p \in DOMAIN disk, label \in {"open", "remove", "tag", "rename"} :
              Become(r, [request[r] EXCEPT !.path = p, !.pc = label])
        BY <1>7 DEF Locate
    <2> DEFINE y == [request[r] EXCEPT !.path = p, !.pc = label]
    <2>3. Become(r, y) /\ y.pc \notin {"truncate", "fill"}
        BY <2>1, <2>2 DEF RequestRecord
    <2>4. ~At(r, "fill") /\ data' = data /\ spoilt' = spoilt
        BY <1>7 DEF Locate, At, files
    <2> HIDE DEF y
    <2> QED BY <2>3, <2>4, NothingRead
<1>8. ASSUME NEW r \in Requests, Tag(r)
      PROVE  Harmless
    <2> DEFINE x == request[r]
               p == x.path
    <2>1. /\ x \in RequestRecord(inodes) /\ x.pc = "tag" /\ p \in DOMAIN disk
          /\ data' = data
        BY <1>8 DEF Tag, At, Exists, files, BodyIInv, MaildirIInv, RequestsOK
    <2>9. \A m : Spoilt(m) => Spoilt(m)'
        BY SpoiltStepKeeps DEF BodyIInv
    <2>2. data[disk[p]] \in Contents
        BY <2>1, FileData DEF BodyIInv, MaildirIInv
    <2>3. PICK y : /\ Become(r, y)
                   /\ y.pc = "rename" \/ (y.pc = "truncate" /\ y.path = p /\ y.read = data[disk[p]])
        <3>1. CASE data[disk[p]].origin # None
            <4> DEFINE z == [x EXCEPT !.pc = "rename"]
            <4>1. Become(r, z) /\ z.pc = "rename"
                BY <1>8, <2>1, <3>1 DEF Tag, Goto, RequestRecord
            <4> HIDE DEF z
            <4> QED BY <4>1
        <3>2. CASE data[disk[p]].origin = None
            <4> DEFINE z == [x EXCEPT !.pc = "truncate", !.read = data[disk[p]]]
            <4>1. Become(r, z) /\ z.pc = "truncate" /\ z.path = p /\ z.read = data[disk[p]]
                BY <1>8, <2>1, <3>2 DEF Tag, RequestRecord
            <4> HIDE DEF z
            <4> QED BY <4>1
        <3> QED BY <3>1, <3>2
    <2>4. ASSUME data[disk[p]].origin = None, ~data[disk[p]].body
          PROVE  data[disk[p]] = Empty
        BY <2>2, <2>4, EmptyShape, Zenon
    <2>10. PICK b : b = p.name.base
        OBVIOUS
    <2>5. ASSUME data[disk[p]] = Empty
          PROVE  Spoilt(b)'
        <3>1. spoilt' = [spoilt EXCEPT !.overlapped = @ \cup {b}]
            BY <1>8, <2>5, <2>10 DEF Tag
        <3>2. spoilt \in [stopped : SUBSET Messages, overlapped : SUBSET Messages]
            BY DEF BodyIInv, SpoiltOK
        <3>3. b \in spoilt'.overlapped
            BY <3>1, <3>2
        <3> QED BY <3>3 DEF Spoilt
    <2>6. y.pc = "truncate" => data[disk[p]].origin = None
        BY <1>8, <2>1, <2>3 DEF Tag, Goto, Become, RequestRecord, BodyIInv, MaildirIInv, RequestsOK
    <2>7. request'[r] = y /\ \A s \in Requests : s # r => request'[s] = request[s]
        BY <2>3 DEF Become, BodyIInv, MaildirIInv, RequestsOK
    <2>8. ASSUME NEW s \in Requests
          PROVE  HasRead(request[s])'
        <3>1. HasRead(request[s])
            BY DEF BodyIInv
        <3>2. CASE s = r
            BY <2>3, <2>4, <2>5, <2>6, <2>7, <2>10, <3>2 DEF HasRead
        <3>3. CASE s # r
            BY <2>7, <2>9, <3>1, <3>3 DEF HasRead
        <3> QED BY <3>2, <3>3
    <2> QED BY <2>1, <2>3, <2>7, <2>8 DEF Harmless
<1>9. \/ UNCHANGED <<request, data, spoilt>>
      \/ \E r \in Requests, w \in Wishes : Ask(r, w.op, w.folder, w.ids)
      \/ \E r \in Requests : \/ Validate(r) \/ Locate(r) \/ Open(r) \/ Tag(r) \/ Move(r)
                             \/ RemoveFile(r)
    BY DEF Next, WebmailNext, MailServer, Step, Environment, vars, files, DeleteFolder,
           MailServerRenames
<1> QED BY <1>1, <1>2, <1>4, <1>5, <1>6, <1>7, <1>8, <1>9

LEMMA HarmlessKeeps ==
    ASSUME BodyIInv, [Next]_vars, Harmless
    PROVE  BodyIInv'
<1>1. MaildirIInv' /\ SpoiltOK' /\ \A m : Spoilt(m) => Spoilt(m)'
    BY MaildirStepKeeps, SpoiltStepKeeps DEF BodyIInv
<1>2. \A x \in DOMAIN disk' : WasThere(x)
    BY FilesWereThere DEF BodyIInv, Harmless
<1>3. ASSUME NEW s \in Requests, request'[s].pc = "fill"
      PROVE  HeldBy(request[s].inode, request[s].path.name.base)'
    <2>1. request'[s] = request[s] /\ request[s].pc = "fill"
        BY <1>3 DEF Harmless
    <2>2. HeldBy(request[s].inode, request[s].path.name.base)
        BY <2>1 DEF BodyIInv, OwnFile, At
    <2> QED BY <1>2, <2>1, <2>2 DEF HeldBy, WasThere
<1>4. ASSUME NEW p \in DOMAIN disk'
      PROVE  Kept(p)' \/ Spoilt(p.name.base)'
    <2>1. PICK q \in DOMAIN disk : q.name.base = p.name.base /\ disk[q] = disk'[p]
        BY <1>2 DEF WasThere
    <2>2. CASE Spoilt(q.name.base)
        BY <1>1, <2>1, <2>2
    <2>3. CASE data[disk[q]].body
        BY <2>1, <2>3 DEF Kept, Harmless
    <2>4. ASSUME NEW s \in Requests, Rewrites(s, q)
          PROVE  Kept(p)'
        <3>1. request'[s] = request[s]
            BY <2>4 DEF Harmless, Rewrites, At
        <3>2. Rewrites(s, p)'
            BY <2>1, <2>4, <3>1 DEF Rewrites, At
        <3> QED BY <3>2 DEF Kept
    <2> QED BY <2>2, <2>3, <2>4 DEF BodyIInv, Kept
<1>5. OwnFile'
    BY <1>3 DEF OwnFile, At
<1> QED BY <1>1, <1>4, <1>5 DEF BodyIInv, Harmless

\* A file is emptied by a request that holds its body, or is spoilt.
LEMMA TruncateKeepsBodies ==
    ASSUME BodyIInv, NEW r \in Requests, Truncate(r)
    PROVE  BodyIInv'
<1> DEFINE x == request[r]
<1>1. PICK i \in Inodes :
          /\ x.path \in Places
          /\ DOMAIN disk' = DOMAIN disk \cup {x.path}
          /\ disk'[x.path] = i
          /\ \A p \in DOMAIN disk' : p # x.path
                => p \in DOMAIN disk /\ disk'[p] = disk[p] /\ disk[p] # i
          /\ Exists(x.path) => i = disk[x.path]
          /\ ~Exists(x.path) => i = inodes + 1
          /\ data' = [data EXCEPT ![i] = Empty]
          /\ Become(r, [x EXCEPT !.pc = "fill", !.inode = i])
    BY TruncateFiles DEF BodyIInv
<1>2. MaildirIInv' /\ spoilt' = spoilt
    BY TruncateKeepsTypes DEF BodyIInv, Truncate
<1>3. x \in RequestRecord(inodes) /\ x.pc = "truncate"
    BY DEF BodyIInv, MaildirIInv, RequestsOK, Truncate, At
<1>4. data \in [Inodes -> Contents] /\ inodes \in Nat
    BY DEF BodyIInv, MaildirIInv, FilesOK
<1>5. /\ request'[r].pc = "fill" /\ request'[r].inode = i /\ request'[r].path = x.path
      /\ request'[r].read = x.read
      /\ \A s \in Requests : s # r => request'[s] = request[s]
    BY <1>1, <1>3 DEF Become, RequestRecord, BodyIInv, MaildirIInv, RequestsOK
<1>6. x.read.body \/ Spoilt(x.path.name.base)
    BY <1>3 DEF BodyIInv, HasRead
<1>7. ASSUME NEW s \in Requests
      PROVE  HasRead(request[s])'
    <2>1. HasRead(request[s])
        BY DEF BodyIInv
    <2>2. CASE s = r
        BY <1>2, <1>5, <1>6, <2>2 DEF HasRead, Spoilt
    <2>3. CASE s # r
        BY <1>2, <1>5, <2>1, <2>3 DEF HasRead, Spoilt
    <2> QED BY <2>2, <2>3
<1>8. ASSUME NEW s \in Requests, request'[s].pc = "fill", NEW p \in DOMAIN disk',
             disk'[p] = request'[s].inode
      PROVE  p.name.base = request'[s].path.name.base
    <2>1. CASE s = r
        BY <1>1, <1>5, <1>8, <2>1
    <2>2. CASE s # r
        <3>1. request'[s] = request[s] /\ At(s, "fill")
            BY <1>5, <1>8, <2>2 DEF At
        <3>2. HeldBy(request[s].inode, request[s].path.name.base)
            BY <3>1 DEF BodyIInv, OwnFile
        <3>3. CASE p # x.path
            BY <1>1, <1>8, <3>1, <3>2, <3>3 DEF HeldBy
        <3>4. CASE p = x.path
            <4>1. request[s].inode \in 0..inodes
                BY DEF BodyIInv, MaildirIInv, RequestsOK, RequestRecord
            <4>2. Exists(x.path) /\ disk[x.path] = request[s].inode
                BY <1>1, <1>4, <1>8, <3>1, <3>4, <4>1
            <4> QED BY <3>1, <3>2, <3>4, <4>2 DEF HeldBy, Exists
        <3> QED BY <3>3, <3>4
    <2> QED BY <2>1, <2>2
<1>9. OwnFile'
    BY <1>8 DEF OwnFile, HeldBy, At
<1>10. ASSUME NEW p \in DOMAIN disk'
       PROVE  Kept(p)' \/ Spoilt(p.name.base)'
    <2>1. CASE p = x.path
        <3>1. x.read.body => Rewrites(r, p)'
            BY <1>1, <1>5, <2>1 DEF Rewrites, At
        <3> QED BY <1>2, <1>6, <2>1, <3>1 DEF Kept, Spoilt
    <2>2. CASE p # x.path
        <3>1. p \in DOMAIN disk /\ disk'[p] = disk[p] /\ disk[p] # i
            BY <1>1, <2>2
        <3>2. disk[p] \in Inodes
            BY <3>1, FileData DEF BodyIInv, MaildirIInv
        <3>3. data'[disk'[p]] = data[disk[p]]
            BY <1>1, <1>4, <3>1, <3>2
        <3>4. ASSUME NEW s \in Requests, Rewrites(s, p)
              PROVE  Rewrites(s, p)'
            <4>1. s # r
                BY <1>3, <3>4 DEF Rewrites, At
            <4> QED BY <1>5, <3>1, <3>4, <4>1 DEF Rewrites, At
        <3> QED BY <1>2, <3>1, <3>3, <3>4 DEF BodyIInv, Kept, Spoilt
    <2> QED BY <2>1, <2>2
<1> QED BY <1>2, <1>7, <1>9, <1>10 DEF BodyIInv, SpoiltOK

\* A request that emptied a file writes the body back to it.
LEMMA FillKeepsBodies ==
    ASSUME BodyIInv, NEW r \in Requests, Fill(r)
    PROVE  BodyIInv'
<1> DEFINE x == request[r]
<1>1. /\ disk' = disk /\ spoilt' = spoilt
      /\ data' = [data EXCEPT ![x.inode] = [body |-> x.read.body, origin |-> x.path.folder]]
    BY DEF Fill
<1>2. MaildirIInv'
    BY FillKeepsTypes DEF BodyIInv
<1>3. x \in RequestRecord(inodes) /\ x.pc = "fill"
    BY DEF BodyIInv, MaildirIInv, RequestsOK, Fill, At
<1>4. data \in [Inodes -> Contents]
    BY DEF BodyIInv, MaildirIInv, FilesOK
<1>5. request'[r].pc = "rename" /\ \A s \in Requests : s # r => request'[s] = request[s]
    BY <1>3 DEF Fill, Goto, Become, RequestRecord, BodyIInv, MaildirIInv, RequestsOK
<1>6. ASSUME NEW s \in Requests
      PROVE  HasRead(request[s])'
    <2>1. HasRead(request[s])
        BY DEF BodyIInv
    <2>2. CASE s = r
        BY <1>5, <2>2 DEF HasRead
    <2>3. CASE s # r
        BY <1>1, <1>5, <2>1, <2>3 DEF HasRead, Spoilt
    <2> QED BY <2>2, <2>3
<1>7. ASSUME NEW s \in Requests, request'[s].pc = "fill"
      PROVE  HeldBy(request[s].inode, request[s].path.name.base)'
    <2>1. request'[s] = request[s] /\ At(s, "fill")
        BY <1>5, <1>7 DEF At
    <2>2. HeldBy(request[s].inode, request[s].path.name.base)
        BY <2>1 DEF BodyIInv, OwnFile
    <2> QED BY <1>1, <2>1, <2>2 DEF HeldBy
<1>8. OwnFile'
    BY <1>7 DEF OwnFile, At
<1>9. ASSUME NEW p \in DOMAIN disk'
      PROVE  Kept(p)' \/ Spoilt(p.name.base)'
    <2>1. p \in DOMAIN disk /\ disk[p] \in Inodes
        BY <1>1, FileData DEF BodyIInv, MaildirIInv
    <2>2. CASE disk[p] = x.inode
        <3>1. p.name.base = x.path.name.base
            BY <1>3, <2>1, <2>2 DEF BodyIInv, OwnFile, HeldBy, At
        <3>2. data'[disk'[p]].body = x.read.body
            BY <1>1, <1>4, <2>1, <2>2
        <3>3. x.read.body \/ Spoilt(x.path.name.base)
            BY <1>3 DEF BodyIInv, HasRead
        <3> QED BY <1>1, <3>1, <3>2, <3>3 DEF Kept, Spoilt
    <2>3. CASE disk[p] # x.inode
        <3>1. data'[disk'[p]] = data[disk[p]]
            BY <1>1, <1>4, <2>1, <2>3
        <3>2. ASSUME NEW s \in Requests, Rewrites(s, p)
              PROVE  Rewrites(s, p)'
            <4>1. s # r
                BY <2>3, <3>2 DEF Rewrites
            <4> QED BY <1>1, <1>5, <3>2, <4>1 DEF Rewrites, At
        <3> QED BY <1>1, <2>1, <3>1, <3>2 DEF BodyIInv, Kept, Spoilt
    <2> QED BY <2>2, <2>3
<1> QED BY <1>1, <1>2, <1>6, <1>8, <1>9 DEF BodyIInv, SpoiltOK

\* Requests end: what they have emptied is spoilt.
LEMMA EndsKeepBodies ==
    ASSUME BodyIInv, MaildirIInv', SpoiltOK', NEW group \in SUBSET Requests,
           \A r \in group : request'[r] = Idle,
           \A r \in Requests \ group : request'[r] = request[r],
           UNCHANGED files, spoilt' = [spoilt EXCEPT !.stopped = @ \cup HalfWritten(group)]
    PROVE  BodyIInv'
<1>1. disk' = disk /\ data' = data
    BY DEF files
<1>2. Idle.pc = "idle"
    BY DEF Idle
<1>7. (\A m : Spoilt(m) => Spoilt(m)') /\ \A m \in HalfWritten(group) : Spoilt(m)'
    BY DEF Spoilt, BodyIInv, SpoiltOK
<1>3. ASSUME NEW s \in Requests
      PROVE  HasRead(request[s])'
    <2>1. HasRead(request[s])
        BY DEF BodyIInv
    <2>2. CASE s \in group
        BY <1>2, <2>2 DEF HasRead
    <2>3. CASE s \notin group
        BY <1>7, <2>1, <2>3 DEF HasRead
    <2> QED BY <2>2, <2>3
<1>4. ASSUME NEW s \in Requests, request'[s].pc = "fill"
      PROVE  HeldBy(request[s].inode, request[s].path.name.base)'
    <2>1. request'[s] = request[s] /\ At(s, "fill")
        BY <1>2, <1>4 DEF At
    <2>2. HeldBy(request[s].inode, request[s].path.name.base)
        BY <2>1 DEF BodyIInv, OwnFile
    <2> QED BY <1>1, <2>1, <2>2 DEF HeldBy
<1>5. OwnFile'
    BY <1>4 DEF OwnFile, At
<1>6. ASSUME NEW p \in DOMAIN disk'
      PROVE  Kept(p)' \/ Spoilt(p.name.base)'
    <2>1. ASSUME NEW s \in Requests, Rewrites(s, p)
          PROVE  Kept(p)' \/ Spoilt(p.name.base)'
        <3>1. CASE s \in group
            <4>1. p.name.base = request[s].path.name.base
                BY <1>1, <2>1 DEF BodyIInv, OwnFile, HeldBy, Rewrites
            <4>2. request[s].path.name.base \in HalfWritten(group)
                BY <2>1, <3>1 DEF HalfWritten, Rewrites
            <4> QED BY <1>7, <4>1, <4>2
        <3>2. CASE s \notin group
            <4>1. Rewrites(s, p)'
                BY <1>1, <2>1, <3>2 DEF Rewrites, At
            <4> QED BY <4>1 DEF Kept
        <3> QED BY <3>1, <3>2
    <2>2. CASE data[disk[p]].body
        BY <1>1, <2>2 DEF Kept
    <2>3. CASE Spoilt(p.name.base)
        BY <1>7, <2>3
    <2> QED BY <1>1, <2>1, <2>2, <2>3 DEF BodyIInv, Kept
<1> QED BY <1>3, <1>5, <1>6 DEF BodyIInv

LEMMA BodyStepKeeps == BodyIInv /\ [Next]_vars => BodyIInv'
<1> SUFFICES ASSUME BodyIInv, [Next]_vars PROVE BodyIInv'
    OBVIOUS
<1>1. MaildirIInv' /\ SpoiltOK'
    BY MaildirStepKeeps, SpoiltStepKeeps DEF BodyIInv
<1>2. ASSUME NEW r \in Requests, Stop(r)
      PROVE  BodyIInv'
    <2>1. /\ \A s \in {r} : request'[s] = Idle
          /\ \A s \in Requests \ {r} : request'[s] = request[s]
        BY <1>2 DEF Stop, Done, Become, BodyIInv, MaildirIInv, RequestsOK
    <2>2. UNCHANGED files /\ spoilt' = [spoilt EXCEPT !.stopped = @ \cup HalfWritten({r})]
        BY <1>2 DEF Stop
    <2> QED BY <1>1, <2>1, <2>2, EndsKeepBodies
<1>3. CASE Restart
    BY <1>1, <1>3, EndsKeepBodies DEF Restart
<1>4. CASE /\ ~Restart
           /\ \A r \in Requests : ~Truncate(r) /\ ~Fill(r) /\ ~Stop(r)
    BY <1>4, HarmlessSteps, HarmlessKeeps
<1> QED BY <1>2, <1>3, <1>4, TruncateKeepsBodies, FillKeepsBodies

LEMMA BodyInitHolds == Init => BodyIInv
<1> SUFFICES ASSUME Init PROVE BodyIInv
    OBVIOUS
<1>1. MaildirIInv /\ SpoiltOK
    BY MaildirInitHolds DEF Init, SpoiltOK
<1>2. \A r \in Requests : request[r].pc = "idle"
    BY DEF Init, Idle
<1>3. OwnFile /\ \A r \in Requests : HasRead(request[r])
    BY <1>2 DEF OwnFile, HasRead, At
<1>4. ASSUME NEW p \in DOMAIN disk
      PROVE  Kept(p)
    <2>1. disk[p] \in 1..inodes /\ disk[p] \in Inodes
        BY <1>1, FileData DEF MaildirIInv
    <2>2. inodes = Cardinality(Messages) /\ inodes \in Nat
        BY <1>1 DEF Init, MaildirIInv, FilesOK
    <2>3. data[disk[p]].body = (disk[p] <= Cardinality(Messages))
        BY <2>1 DEF Init
    <2>4. disk[p] <= Cardinality(Messages)
        BY <2>1, <2>2
    <2>5. data[disk[p]].body
        BY <2>3, <2>4, Zenon
    <2> QED BY <2>5 DEF Kept
<1> QED BY <1>1, <1>3, <1>4 DEF BodyIInv

\* The body of a message is lost only when a request to delete it removes the
\* last file, or its folder is deleted, or its rewriting is stopped half-way or
\* meets another: for every set of requests and mail clients, however moves,
\* openings, deletions, failures and restarts overlap.
THEOREM MovesKeep == Spec => MovesKeepMessages
<1> DEFINE Keeps ==
        \A m \in Messages :
          Readable(m) /\ ~Readable(m)' =>
              \/ \E r \in Requests : Deleting(r, m) /\ ~Deleting(r, m)'
              \/ (\A p \in CopiesOf(m) : p.folder = "custom") /\ UNCHANGED request
              \/ Spoilt(m)'
<1>1. BodyIInv /\ BodyIInv' /\ [Next]_vars => [Keeps]_vars
    <2> SUFFICES ASSUME BodyIInv, BodyIInv', [Next]_vars, NEW m \in Messages,
                        Readable(m), ~Readable(m)', ~Spoilt(m)'
                 PROVE  \/ \E r \in Requests : Deleting(r, m) /\ ~Deleting(r, m)'
                        \/ (\A p \in CopiesOf(m) : p.folder = "custom") /\ UNCHANGED request
        OBVIOUS
    <2>1. CopiesOf(m) # {}
        BY DEF Readable
    <2>2. ASSUME NEW p \in CopiesOf(m)'
          PROVE  FALSE
        <3>1. p \in DOMAIN disk' /\ p.name.base = m
            BY <2>2 DEF CopiesOf
        <3>2. Kept(p)' \/ Spoilt(p.name.base)'
            BY <3>1 DEF BodyIInv
        <3>3. Kept(p)'
            BY <3>1, <3>2 DEF Spoilt
        <3> QED BY <2>2, <3>3 DEF Kept, Readable
    <2>3. CopiesOf(m)' = {}
        BY <2>2
    <2> QED BY <2>1, <2>3, FilesAreKept DEF BodyIInv
<1>2. MovesKeepMessages <=> [][Keeps]_vars
    BY DEF MovesKeepMessages
<1> QED BY <1>1, <1>2, BodyInitHolds, BodyStepKeeps, PTL DEF Spec

-----------------------------------------------------------------------------
(* Maildir: what was sent stays apart.  A message that was sent is at first *)
(* one file that nothing renames before a request for the trash empties it; *)
(* from then on every file of it is empty, and cannot be validated, or says *)
(* that it was sent.                                                        *)

\* Nobody reports a message that was sent.
SentNotReported ==
    \A w \in Wishes : w.op = "report" => \A j \in DOMAIN w.ids : w.ids[j].base \notin Sent

\* The ids that a request has validated.
Checked(x) ==
    IF x.pc = "validate" THEN 1..(x.n - 1)
    ELSE IF x.pc # "idle" /\ x.op \in {"move", "delete"} THEN 1..Len(x.ids) ELSE {}

\* A request moves sent messages between their folder and the trash, and acts
\* on them there.
Apart(x) ==
    /\ \A j \in Checked(x) :
          x.ids[j].base \in Sent /\ x.op = "move" => x.folder \in {"sent", "trash"}
    /\ x.pc \in Acting /\ x.path.name.base \in Sent => x.path.folder \in {"sent", "trash"}

SentPlace(m) == FirstPlace(m, "sent")

\* A request has done nothing to m yet, and may only move it to the trash.
Leaves(x, m) ==
    /\ x.pc \in Acting /\ x.path.name.base = m
          => x.pc \in {"open", "tag", "truncate"} /\ x.path = SentPlace(m)
    /\ \A j \in Checked(x) : x.ids[j].base = m => x.op = "move" /\ x.folder = "trash"

AsSent(m) == CopiesOf(m) = {SentPlace(m)} /\ data[disk[SentPlace(m)]].origin = None
Unaltered(m) == AsSent(m) /\ \A r \in Requests : Leaves(request[r], m)
Touched(m) == \A p \in CopiesOf(m) : data[disk[p]] = Empty \/ data[disk[p]].origin = "sent"

SentIInv == /\ MaildirIInv /\ OwnFile /\ SentStaysApart
            /\ \A r \in Requests : Apart(request[r])
            /\ \A m \in Sent : Unaltered(m) \/ Touched(m)

\* A request that does nothing, and one that has nothing validated.
LEMMA IdleIsApart == Apart(Idle) /\ \A m \in Sent : Leaves(Idle, m)
<1>1. Idle.pc = "idle"
    BY DEF Idle
<1>2. Checked(Idle) = {}
    BY <1>1 DEF Checked
<1> QED BY <1>1, <1>2 DEF Apart, Leaves, Acting

\* What nobody reports is not what a report is about.
LEMMA SentIsNotReported ==
    ASSUME SentNotReported, RequestsOK, NEW r \in Requests, ~At(r, "idle"),
           request[r].op = "report"
    PROVE  Id(r).base \notin Sent
<1>1. Proper(request[r]) /\ request[r].pc # "idle"
    BY DEF RequestsOK, At
<1>2. PICK w \in Wishes : request[r].op = w.op /\ request[r].ids = w.ids
    BY <1>1 DEF Proper
<1>3. request[r].n \in 1..Len(request[r].ids) /\ request[r].ids \in Seq(Names)
    BY AtHand
<1>4. request[r].n \in DOMAIN w.ids
    BY <1>2, <1>3
<1> QED BY <1>2, <1>4 DEF SentNotReported, Id

\* Where a sent message is delivered.
LEMMA SentPlaceShape ==
    ASSUME NEW m \in Sent
    PROVE  /\ SentPlace(m).folder = "sent" /\ SentPlace(m).dir = "cur"
           /\ SentPlace(m).name.flags = "none" /\ SentPlace(m).name.base = m
BY DEF SentPlace, FirstPlace, Place

-----------------------------------------------------------------------------
(* What a step makes of the request that takes it.                         *)

\* What r becomes keeps sent messages apart, and leaves alone those that are
\* untouched and that it does not empty now.
RequestGoesOn(r) ==
    \E y : /\ Become(r, y) /\ Apart(y)
           /\ y.pc = "fill" => Truncate(r)
           /\ \A m \in Sent :
                 Unaltered(m) /\ ~(Truncate(r) /\ request[r].path.name.base = m)
                    => Leaves(y, m)

\* A request is over.
LEMMA DoneGoesOn == ASSUME NEW r \in Requests, Done(r) PROVE RequestGoesOn(r)
<1>1. Become(r, Idle) /\ Idle.pc = "idle"
    BY DEF Done, Idle
<1> QED BY <1>1, IdleIsApart DEF RequestGoesOn

\* A request begins: nothing is validated.
LEMMA AskGoesOn ==
    ASSUME NEW r \in Requests, NEW w \in Wishes, Ask(r, w.op, w.folder, w.ids)
    PROVE  RequestGoesOn(r)
<1>1. PICK label : label = IF w.op \in {"move", "delete"} THEN "validate" ELSE "locate"
    OBVIOUS
<1> DEFINE y == [Idle EXCEPT !.op = w.op, !.folder = w.folder, !.ids = w.ids, !.n = 1,
                             !.pc = label]
<1>2. y.pc = label /\ y.op = w.op /\ y.n = 1
    BY DEF Idle
<1>3. Checked(y) = {}
    BY <1>1, <1>2 DEF Checked
<1>4. y.pc \notin Acting /\ y.pc # "fill"
    BY <1>1, <1>2 DEF Acting
<1>5. Become(r, y)
    BY <1>1 DEF Ask
<1> HIDE DEF y
<1> QED BY <1>3, <1>4, <1>5 DEF RequestGoesOn, Apart, Leaves

\* A request that has acted looks for its next message, or is over.
LEMMA NextGoesOn ==
    ASSUME SentIInv, NEW r \in Requests, At(r, "rename") \/ At(r, "remove"),
           NextId(r, "locate", Idle)
    PROVE  RequestGoesOn(r)
<1> DEFINE x == request[r]
           y == [x EXCEPT !.pc = "locate", !.n = x.n + 1, !.path = None, !.inode = 0,
                          !.read = Empty]
<1>1. x \in RequestRecord(inodes) /\ Proper(x) /\ x.pc \in {"rename", "remove"}
    BY DEF SentIInv, MaildirIInv, RequestsOK, At
<1>2. CASE x.n < Len(x.ids)
    <2>1. /\ y.pc = "locate" /\ y.op = x.op /\ y.folder = x.folder /\ y.ids = x.ids
        BY <1>1 DEF RequestRecord
    <2>2. Checked(y) = Checked(x)
        BY <1>1, <2>1 DEF Checked
    <2>3. Become(r, y)
        BY <1>2 DEF NextId
    <2>4. Apart(x) /\ \A m \in Sent : Unaltered(m) => Leaves(x, m)
        BY DEF SentIInv, Unaltered
    <2>5. y.pc \notin Acting /\ y.pc # "fill"
        BY <2>1 DEF Acting
    <2> HIDE DEF y
    <2>6. Apart(y)
        BY <2>1, <2>2, <2>4, <2>5 DEF Apart
    <2>7. \A m \in Sent : Unaltered(m) => Leaves(y, m)
        BY <2>1, <2>2, <2>4, <2>5 DEF Leaves
    <2> QED BY <2>3, <2>5, <2>6, <2>7 DEF RequestGoesOn
<1>3. CASE ~(x.n < Len(x.ids))
    BY <1>3, DoneGoesOn DEF NextId, Done
<1> QED BY <1>2, <1>3

\* A request that validates its n-th id has validated the first n.
LEMMA ValidateNext ==
    ASSUME NEW r \in Requests, Validate(r), request[r] \in RequestRecord(inodes),
           request[r].op \in {"move", "delete"},
           request[r].n \in 1..Len(request[r].ids), Len(request[r].ids) \in Nat
    PROVE  \E y : /\ Become(r, y) /\ y.pc \in {"validate", "locate"}
                  /\ y.op = request[r].op /\ y.folder = request[r].folder
                  /\ y.ids = request[r].ids
                  /\ Checked(y) = 1..request[r].n
<1> DEFINE x == request[r]
<1>1. NextId(r, "validate", [x EXCEPT !.pc = "locate", !.n = 1])
    BY DEF Validate
<1>2. CASE x.n < Len(x.ids)
    <2> DEFINE z == [x EXCEPT !.pc = "validate", !.n = x.n + 1, !.path = None, !.inode = 0,
                              !.read = Empty]
    <2>1. Become(r, z)
        BY <1>1, <1>2 DEF NextId
    <2>2. /\ z.pc = "validate" /\ z.n = x.n + 1
          /\ z.op = x.op /\ z.folder = x.folder /\ z.ids = x.ids
        BY DEF RequestRecord
    <2>3. Checked(z) = 1..x.n
        BY <2>2 DEF Checked
    <2> HIDE DEF z
    <2> QED BY <2>1, <2>2, <2>3
<1>3. CASE ~(x.n < Len(x.ids))
    <2> DEFINE z == [x EXCEPT !.pc = "locate", !.n = 1]
    <2>1. Become(r, z)
        BY <1>1, <1>3 DEF NextId
    <2>2. z.pc = "locate" /\ z.op = x.op /\ z.folder = x.folder /\ z.ids = x.ids
        BY DEF RequestRecord
    <2>3. x.n = Len(x.ids)
        BY <1>3
    <2>4. Checked(z) = 1..x.n
        BY <2>2, <2>3 DEF Checked
    <2> HIDE DEF z
    <2> QED BY <2>1, <2>2, <2>4
<1> QED BY <1>2, <1>3

\* Another id is validated: a message that is untouched is in the sent folder,
\* and one that is touched and not empty was sent, so that it may be moved to
\* the trash and from there to where it came from.
LEMMA ValidateGoesOn ==
    ASSUME SentIInv, NEW r \in Requests, Validate(r)
    PROVE  RequestGoesOn(r)
<1> DEFINE x == request[r]
<1>1. x \in RequestRecord(inodes) /\ Proper(x) /\ x.pc = "validate"
    BY DEF SentIInv, MaildirIInv, RequestsOK, Validate, At
<1>2. /\ x.op \in {"move", "delete"} /\ x.n \in 1..Len(x.ids) /\ Len(x.ids) \in Nat
    <2>1. ~At(r, "idle")
        BY <1>1 DEF At
    <2>2. Len(x.ids) \in Nat
        BY <2>1, AtHand DEF SentIInv, MaildirIInv
    <2> QED BY <1>1, <2>2 DEF Proper
<1>3. PICK p \in DOMAIN disk :
          /\ p.name.base = Id(r).base
          /\ data[disk[p]] # Empty
          /\ IF x.op = "delete" THEN MayDelete(p.folder)
             ELSE MayMove(p.folder, data[disk[p]].origin, x.folder)
    BY DEF Validate, IsFound, Matches
<1>4. ASSUME x.ids[x.n].base \in Sent, x.op = "move"
      PROVE  x.folder \in {"sent", "trash"}
    <2>1. p.folder \in {"sent", "trash"} /\ p \in CopiesOf(p.name.base) /\ p.name.base \in Sent
        BY <1>3, <1>4 DEF SentIInv, SentStaysApart, CopiesOf, Id
    <2>2. p.folder = "sent" \/ data[disk[p]].origin = "sent"
        <3>1. CASE Unaltered(p.name.base)
            BY <2>1, <3>1, SentPlaceShape DEF Unaltered, AsSent
        <3>2. CASE Touched(p.name.base)
            BY <1>3, <2>1, <3>2 DEF Touched
        <3> QED BY <2>1, <3>1, <3>2 DEF SentIInv
    <2>3. MayMove(p.folder, data[disk[p]].origin, x.folder)
        BY <1>3, <1>4
    <2>4. CASE p.folder = "sent"
        BY <2>3, <2>4 DEF MayMove
    <2>5. CASE p.folder = "trash" /\ data[disk[p]].origin = "sent"
        BY <2>3, <2>5 DEF MayMove
    <2> QED BY <2>1, <2>2, <2>4, <2>5
<1>5. ASSUME NEW m \in Sent, Unaltered(m), x.ids[x.n].base = m
      PROVE  x.op = "move" /\ x.folder = "trash"
    <2>1. p = SentPlace(m)
        BY <1>3, <1>5 DEF Unaltered, AsSent, CopiesOf, Id
    <2>2. p.folder = "sent"
        BY <2>1, SentPlaceShape
    <2>3. x.op # "delete"
        BY <1>3, <2>2 DEF MayDelete
    <2>4. MayMove("sent", data[disk[p]].origin, x.folder)
        BY <1>3, <2>2, <2>3
    <2> QED BY <1>2, <2>3, <2>4 DEF MayMove
<1>6. Apart(x) /\ \A m \in Sent : Unaltered(m) => Leaves(x, m)
    BY DEF SentIInv, Unaltered
<1>7. Checked(x) = 1..(x.n - 1)
    BY <1>1 DEF Checked
<1>8. PICK y : /\ Become(r, y) /\ y.pc \in {"validate", "locate"}
               /\ y.op = x.op /\ y.folder = x.folder /\ y.ids = x.ids
               /\ Checked(y) = 1..x.n
    BY <1>1, <1>2, ValidateNext
<1>9. \A j \in Checked(y) : j \in Checked(x) \/ j = x.n
    BY <1>2, <1>7, <1>8
<1>10. y.pc \notin Acting /\ y.pc # "fill"
    BY <1>8 DEF Acting
<1>11. Apart(y)
    BY <1>4, <1>6, <1>8, <1>9, <1>10 DEF Apart
<1>12. \A m \in Sent : Unaltered(m) => Leaves(y, m)
    BY <1>5, <1>6, <1>8, <1>9, <1>10 DEF Leaves
<1> QED BY <1>8, <1>10, <1>11, <1>12 DEF RequestGoesOn

\* A request finds its message.
LEMMA LocateGoesOn ==
    ASSUME SentNotReported, SentIInv, NEW r \in Requests, Locate(r)
    PROVE  RequestGoesOn(r)
<1> DEFINE x == request[r]
<1>1. PICK p \in DOMAIN disk, label \in {"open", "remove", "tag", "rename"} :
          LET y == [x EXCEPT !.path = p, !.pc = label]
          IN  /\ IsFound(p, Id(r)) /\ p \in Places /\ p.name.base = Id(r).base
              /\ x \in RequestRecord(inodes) /\ Proper(x) /\ x.pc = "locate"
              /\ label = "open" => x.op = "read"
              /\ label = "remove" => x.op = "delete"
              /\ label \in {"tag", "rename"} => x.op \in {"move", "report"}
              /\ label = "tag" => x.folder = "trash" /\ p.folder # "trash"
              /\ label = "rename" => ~(x.folder = "trash" /\ p.folder # "trash")
              /\ Become(r, y)
              /\ y \in RequestRecord(inodes)
              /\ y.pc = label /\ y.path = p /\ y.n = x.n
              /\ y.op = x.op /\ y.folder = x.folder /\ y.ids = x.ids
    BY LocateShape DEF SentIInv
<1> DEFINE y == [x EXCEPT !.path = p, !.pc = label]
<1>2. /\ Become(r, y) /\ y.pc = label /\ y.path = p
      /\ y.op = x.op /\ y.folder = x.folder /\ y.ids = x.ids
    BY <1>1
<1> HIDE DEF y
<1>3. Checked(y) = Checked(x)
    BY <1>1, <1>2 DEF Checked
<1>4. Apart(x) /\ \A m \in Sent : Unaltered(m) => Leaves(x, m)
    BY DEF SentIInv, Unaltered
<1>5. Apart(y)
    <2>1. p.name.base \in Sent => p.folder \in {"sent", "trash"}
        BY DEF SentIInv, SentStaysApart
    <2> QED BY <1>2, <1>3, <1>4, <2>1 DEF Apart
<1>6. ASSUME NEW m \in Sent, Unaltered(m)
      PROVE  Leaves(y, m)
    <2>1. ASSUME p.name.base = m
          PROVE  label \in {"open", "tag"} /\ p = SentPlace(m)
        <3>1. p = SentPlace(m)
            BY <1>6, <2>1 DEF Unaltered, AsSent, CopiesOf
        <3>2. p.folder = "sent"
            BY <3>1, SentPlaceShape
        <3>3. x.ids[x.n].base = m /\ x.n \in 1..Len(x.ids)
            BY <1>1, <2>1 DEF Id, Proper
        <3>4. CASE x.op \in {"move", "delete"}
            <4>1. x.n \in Checked(x)
                BY <1>1, <3>3, <3>4 DEF Checked
            <4>2. x.op = "move" /\ x.folder = "trash"
                BY <1>4, <1>6, <3>3, <4>1 DEF Leaves
            <4> QED BY <1>1, <3>1, <3>2, <4>2
        <3>5. CASE x.op \notin {"move", "delete"}
            <4>1. ~At(r, "idle") /\ RequestsOK
                BY <1>1 DEF At, SentIInv, MaildirIInv
            <4>2. Id(r).base \in Sent
                BY <3>3 DEF Id
            <4>3. x.op # "report"
                BY <4>1, <4>2, SentIsNotReported
            <4> QED BY <1>1, <3>1, <3>5, <4>3
        <3> QED BY <3>4, <3>5
    <2> QED BY <1>2, <1>3, <1>4, <1>6, <2>1 DEF Leaves
<1>7. y.pc # "fill"
    BY <1>1, <1>2
<1> QED BY <1>2, <1>5, <1>6, <1>7 DEF RequestGoesOn

\* An untouched message has no origin: the request is about to empty it.
LEMMA TagGoesOn ==
    ASSUME SentIInv, NEW r \in Requests, Tag(r)
    PROVE  RequestGoesOn(r)
<1> DEFINE x == request[r]
<1>1. x \in RequestRecord(inodes) /\ x.pc = "tag"
    BY DEF SentIInv, MaildirIInv, RequestsOK, Tag, At
<1>2. Apart(x) /\ \A m \in Sent : Unaltered(m) => Leaves(x, m)
    BY DEF SentIInv, Unaltered
<1>3. PICK y : /\ Become(r, y) /\ y.pc \in {"rename", "truncate"}
               /\ y.pc = "rename" => data[disk[x.path]].origin # None
               /\ y.op = x.op /\ y.folder = x.folder /\ y.ids = x.ids /\ y.path = x.path
    <2>1. CASE data[disk[x.path]].origin # None
        <3> DEFINE z == [x EXCEPT !.pc = "rename"]
        <3>1. Become(r, z)
            BY <2>1 DEF Tag, Goto
        <3>2. /\ z.pc = "rename" /\ z.op = x.op /\ z.folder = x.folder
              /\ z.ids = x.ids /\ z.path = x.path
            BY <1>1 DEF RequestRecord
        <3> HIDE DEF z
        <3> QED BY <2>1, <3>1, <3>2
    <2>2. CASE data[disk[x.path]].origin = None
        <3> DEFINE z == [x EXCEPT !.pc = "truncate", !.read = data[disk[x.path]]]
        <3>1. Become(r, z)
            BY <2>2 DEF Tag
        <3>2. /\ z.pc = "truncate" /\ z.op = x.op /\ z.folder = x.folder
              /\ z.ids = x.ids /\ z.path = x.path
            BY <1>1 DEF RequestRecord
        <3> HIDE DEF z
        <3> QED BY <2>2, <3>1, <3>2
    <2> QED BY <2>1, <2>2
<1>4. Checked(y) = Checked(x)
    BY <1>1, <1>3 DEF Checked
<1>5. x.pc \in Acting
    BY <1>1 DEF Acting
<1>6. Apart(y)
    BY <1>2, <1>3, <1>4, <1>5 DEF Apart
<1>7. ASSUME NEW m \in Sent, Unaltered(m)
      PROVE  Leaves(y, m)
    <2>1. ASSUME x.path.name.base = m
          PROVE  y.pc = "truncate" /\ x.path = SentPlace(m)
        <3>1. x.path = SentPlace(m)
            BY <1>2, <1>5, <1>7, <2>1 DEF Leaves
        <3> QED BY <1>3, <1>7, <3>1 DEF Unaltered, AsSent
    <2> QED BY <1>2, <1>3, <1>4, <1>7, <2>1 DEF Leaves
<1> QED BY <1>3, <1>6, <1>7 DEF RequestGoesOn

\* The file of the message at hand is emptied.
LEMMA TruncateGoesOn ==
    ASSUME SentIInv, NEW r \in Requests, Truncate(r)
    PROVE  RequestGoesOn(r)
<1> DEFINE x == request[r]
<1>1. x \in RequestRecord(inodes) /\ x.pc = "truncate"
    BY DEF SentIInv, MaildirIInv, RequestsOK, Truncate, At
<1>2. PICK i \in Inodes : Become(r, [x EXCEPT !.pc = "fill", !.inode = i])
    BY TruncateFiles DEF SentIInv
<1> DEFINE y == [x EXCEPT !.pc = "fill", !.inode = i]
<1>3. /\ Become(r, y) /\ y.pc = "fill" /\ y.op = x.op /\ y.folder = x.folder
      /\ y.ids = x.ids /\ y.path = x.path
    BY <1>1, <1>2 DEF RequestRecord
<1> HIDE DEF y
<1>4. Checked(y) = Checked(x)
    BY <1>1, <1>3 DEF Checked
<1>5. Apart(x) /\ \A m \in Sent : Unaltered(m) => Leaves(x, m)
    BY DEF SentIInv, Unaltered
<1>6. x.pc \in Acting
    BY <1>1 DEF Acting
<1>7. Apart(y)
    BY <1>3, <1>4, <1>5, <1>6 DEF Apart
<1>8. ASSUME NEW m \in Sent, Unaltered(m), x.path.name.base # m
      PROVE  Leaves(y, m)
    BY <1>3, <1>4, <1>5, <1>8 DEF Leaves
<1> QED BY <1>3, <1>7, <1>8 DEF RequestGoesOn

\* The open file is written: its message is touched.
LEMMA FillGoesOn ==
    ASSUME SentIInv, NEW r \in Requests, Fill(r)
    PROVE  RequestGoesOn(r)
<1> DEFINE x == request[r]
           y == [x EXCEPT !.pc = "rename"]
<1>1. x \in RequestRecord(inodes) /\ x.pc = "fill"
    BY DEF SentIInv, MaildirIInv, RequestsOK, Fill, At
<1>2. /\ Become(r, y) /\ y.pc = "rename" /\ y.op = x.op /\ y.folder = x.folder
      /\ y.ids = x.ids /\ y.path = x.path
    BY <1>1 DEF Fill, Goto, RequestRecord
<1> HIDE DEF y
<1>3. Checked(y) = Checked(x)
    BY <1>1, <1>2 DEF Checked
<1>4. Apart(x) /\ \A m \in Sent : Unaltered(m) => Leaves(x, m)
    BY DEF SentIInv, Unaltered
<1>5. x.pc \in Acting
    BY <1>1 DEF Acting
<1>6. Apart(y)
    BY <1>2, <1>3, <1>4, <1>5 DEF Apart
<1>7. ASSUME NEW m \in Sent, Unaltered(m)
      PROVE  Leaves(y, m)
    <2>1. x.path.name.base # m
        BY <1>1, <1>4, <1>5, <1>7 DEF Leaves
    <2> QED BY <1>2, <1>3, <1>4, <1>7, <2>1 DEF Leaves
<1> QED BY <1>2, <1>6, <1>7 DEF RequestGoesOn

-----------------------------------------------------------------------------
(* What a step makes of the files: the messages of S are emptied.          *)

FilesGoOn(S) ==
    /\ SentStaysApart'
    /\ \A j \in 1..inodes, b \in Messages : HeldBy(j, b) => HeldBy(j, b)'
    /\ \A m \in Sent : Touched(m) \/ m \in S => Touched(m)'
    /\ \A m \in Sent \ S : Unaltered(m) => AsSent(m)'

\* Nothing changes.
LEMMA SameFilesGoOn ==
    ASSUME SentIInv, UNCHANGED files
    PROVE  FilesGoOn({})
<1>1. disk' = disk /\ data' = data
    BY DEF files
<1>2. \A m : CopiesOf(m)' = CopiesOf(m)
    BY <1>1 DEF CopiesOf
<1>3. SentStaysApart'
    BY <1>1 DEF SentIInv, SentStaysApart
<1>4. \A j \in 1..inodes, b \in Messages : HeldBy(j, b) => HeldBy(j, b)'
    BY <1>1 DEF HeldBy
<1>5. \A m \in Sent : Touched(m) => Touched(m)'
    BY <1>1, <1>2 DEF Touched
<1>6. \A m \in Sent : Unaltered(m) => AsSent(m)'
    BY <1>1, <1>2 DEF Unaltered, AsSent
<1> QED BY <1>3, <1>4, <1>5, <1>6 DEF FilesGoOn

\* A file gets another name of its message, which is touched.
LEMMA RenameGoesOn ==
    ASSUME SentIInv, NEW p \in DOMAIN disk, NEW q \in Places, q.name.base = p.name.base,
           Rename(p, q), UNCHANGED <<data, inodes>>,
           p.name.base \in Sent => q.folder \in {"sent", "trash"},
           \A m \in Sent : Unaltered(m) => p.name.base # m
    PROVE  FilesGoOn({})
<1>1. /\ DOMAIN disk' = (DOMAIN disk \ {p}) \cup {q}
      /\ disk'[q] = disk[p]
      /\ \A x \in DOMAIN disk' : x # q => x \in DOMAIN disk /\ x # p /\ disk'[x] = disk[x]
    BY RenameFiles DEF SentIInv, MaildirIInv
<1>2. SentStaysApart'
    BY <1>1 DEF SentIInv, SentStaysApart
<1>3. \A j \in 1..inodes, b \in Messages : HeldBy(j, b) => HeldBy(j, b)'
    BY <1>1 DEF HeldBy
<1>4. ASSUME NEW m \in Sent, Touched(m)
      PROVE  Touched(m)'
    BY <1>1, <1>4 DEF Touched, CopiesOf
<1>5. ASSUME NEW m \in Sent, Unaltered(m)
      PROVE  AsSent(m)'
    <2>1. p.name.base # m /\ q.name.base # m
        BY <1>5
    <2>2. CopiesOf(m)' = CopiesOf(m)
        BY <1>1, <2>1 DEF CopiesOf
    <2>3. SentPlace(m) \in DOMAIN disk /\ SentPlace(m) # q /\ SentPlace(m) # p
        BY <1>5, <2>1, SentPlaceShape DEF Unaltered, AsSent, CopiesOf
    <2>4. disk'[SentPlace(m)] = disk[SentPlace(m)]
        BY <1>1, <2>3
    <2> QED BY <1>5, <2>2, <2>4 DEF Unaltered, AsSent
<1> QED BY <1>2, <1>3, <1>4, <1>5 DEF FilesGoOn

\* Files are removed, no untouched one among them.
LEMMA RemoveGoesOn ==
    ASSUME SentIInv, NEW S \in SUBSET DOMAIN disk, disk' = [x \in S |-> disk[x]],
           UNCHANGED <<data, inodes>>,
           \A m \in Sent : Unaltered(m) => SentPlace(m) \in S
    PROVE  FilesGoOn({})
<1>1. DOMAIN disk' = S /\ \A x \in S : disk'[x] = disk[x]
    BY RemoveFiles DEF SentIInv, MaildirIInv
<1>2. SentStaysApart'
    BY <1>1 DEF SentIInv, SentStaysApart
<1>3. \A j \in 1..inodes, b \in Messages : HeldBy(j, b) => HeldBy(j, b)'
    BY <1>1 DEF HeldBy
<1>4. ASSUME NEW m \in Sent, Touched(m)
      PROVE  Touched(m)'
    BY <1>1, <1>4 DEF Touched, CopiesOf
<1>5. ASSUME NEW m \in Sent, Unaltered(m)
      PROVE  AsSent(m)'
    <2>1. CopiesOf(m) = {SentPlace(m)} /\ SentPlace(m) \in S
        BY <1>5 DEF Unaltered, AsSent
    <2>2. CopiesOf(m)' = {SentPlace(m)}
        BY <1>1, <2>1 DEF CopiesOf
    <2> QED BY <1>1, <1>5, <2>1, <2>2 DEF Unaltered, AsSent
<1> QED BY <1>2, <1>3, <1>4, <1>5 DEF FilesGoOn

\* The open file of r's message is written: it says that it was sent.
LEMMA FillFilesGoOn ==
    ASSUME SentIInv, NEW r \in Requests, Fill(r)
    PROVE  FilesGoOn({})
<1> DEFINE x == request[r]
<1>1. /\ disk' = disk
      /\ data' = [data EXCEPT ![x.inode] = [body |-> x.read.body, origin |-> x.path.folder]]
    BY DEF Fill
<1>2. Proper(x) /\ x.pc = "fill" /\ Apart(x) /\ HeldBy(x.inode, x.path.name.base)
    BY DEF SentIInv, MaildirIInv, RequestsOK, Fill, At, OwnFile
<1>3. x.path.name.base \in Sent => x.path.folder = "sent"
    BY <1>2 DEF Proper, Apart, Acting
<1>4. \A m : CopiesOf(m)' = CopiesOf(m)
    BY <1>1 DEF CopiesOf
<1>5. SentStaysApart'
    BY <1>1 DEF SentIInv, SentStaysApart
<1>6. \A j \in 1..inodes, b \in Messages : HeldBy(j, b) => HeldBy(j, b)'
    BY <1>1 DEF HeldBy
<1>7. ASSUME NEW m \in Sent, Touched(m), NEW p \in CopiesOf(m)
      PROVE  data'[disk[p]] = Empty \/ data'[disk[p]].origin = "sent"
    <2>1. p \in DOMAIN disk /\ p.name.base = m
        BY <1>7 DEF CopiesOf
    <2>2. disk[p] \in Inodes /\ data \in [Inodes -> Contents]
        BY <2>1, FileData DEF SentIInv, MaildirIInv, FilesOK
    <2>3. CASE disk[p] = x.inode
        <3>1. x.path.folder = "sent"
            BY <1>2, <1>3, <2>1, <2>3 DEF HeldBy
        <3>2. data'[disk[p]] = [body |-> x.read.body, origin |-> x.path.folder]
            BY <1>1, <2>2, <2>3
        <3> QED BY <3>1, <3>2
    <2>4. CASE disk[p] # x.inode
        BY <1>1, <1>7, <2>2, <2>4 DEF Touched
    <2> QED BY <2>3, <2>4
<1>8. \A m \in Sent : Touched(m) => Touched(m)'
    BY <1>1, <1>4, <1>7 DEF Touched
<1>9. ASSUME NEW m \in Sent, Unaltered(m)
      PROVE  AsSent(m)'
    <2>1. x.path.name.base # m
        BY <1>2, <1>9 DEF Unaltered, Leaves, Acting
    <2>2. SentPlace(m) \in DOMAIN disk /\ SentPlace(m).name.base = m
        BY <1>9, SentPlaceShape DEF Unaltered, AsSent, CopiesOf
    <2>3. disk[SentPlace(m)] # x.inode
        BY <1>2, <2>1, <2>2 DEF HeldBy
    <2>4. data'[disk[SentPlace(m)]] = data[disk[SentPlace(m)]]
        <3>1. disk[SentPlace(m)] \in Inodes /\ data \in [Inodes -> Contents]
            BY <2>2, FileData DEF SentIInv, MaildirIInv, FilesOK
        <3> QED BY <1>1, <2>3, <3>1
    <2> QED BY <1>1, <1>4, <1>9, <2>4 DEF Unaltered, AsSent
<1> QED BY <1>5, <1>6, <1>8, <1>9 DEF FilesGoOn

\* A file of r's message is emptied, or an empty one is created.
LEMMA TruncateFilesGoOn ==
    ASSUME SentIInv, NEW r \in Requests, Truncate(r)
    PROVE  /\ FilesGoOn({request[r].path.name.base})
           /\ HeldBy(request[r].inode, request[r].path.name.base)'
<1> DEFINE x == request[r]
           b == x.path.name.base
<1>1. PICK i \in Inodes :
          /\ x.path \in Places
          /\ DOMAIN disk' = DOMAIN disk \cup {x.path}
          /\ disk'[x.path] = i
          /\ \A p \in DOMAIN disk' : p # x.path
                => p \in DOMAIN disk /\ disk'[p] = disk[p] /\ disk[p] # i
          /\ Exists(x.path) => i = disk[x.path]
          /\ ~Exists(x.path) => i = inodes + 1
          /\ data' = [data EXCEPT ![i] = Empty]
          /\ Become(r, [x EXCEPT !.pc = "fill", !.inode = i])
    BY TruncateFiles DEF SentIInv
<1>2. Proper(x) /\ x.pc = "truncate" /\ Apart(x) /\ x \in RequestRecord(inodes)
    BY DEF SentIInv, MaildirIInv, RequestsOK, Truncate, At
<1>3. data \in [Inodes -> Contents] /\ inodes \in Nat
    BY DEF SentIInv, MaildirIInv, FilesOK
<1>4. data'[i] = Empty /\ \A j \in Inodes : j # i => data'[j] = data[j]
    BY <1>1, <1>3
<1>5. b \in Sent => x.path.folder \in {"sent", "trash"}
    BY <1>2 DEF Apart, Acting
<1>6. SentStaysApart'
    <2> SUFFICES ASSUME NEW p \in DOMAIN disk', p.name.base \in Sent
                 PROVE  p.folder \in {"sent", "trash"}
        BY DEF SentStaysApart
    <2>1. CASE p = x.path
        BY <1>5, <2>1
    <2>2. CASE p # x.path
        BY <1>1, <2>2 DEF SentIInv, SentStaysApart
    <2> QED BY <2>1, <2>2
<1>7. ASSUME NEW j \in 1..inodes, NEW c \in Messages, HeldBy(j, c)
      PROVE  HeldBy(j, c)'
    <2>1. ASSUME NEW p \in DOMAIN disk', disk'[p] = j
          PROVE  p.name.base = c
        <3>1. CASE p # x.path
            BY <1>1, <1>7, <2>1, <3>1 DEF HeldBy
        <3>2. CASE p = x.path
            <4>1. i # inodes + 1
                BY <1>1, <1>3, <2>1, <3>2
            <4> QED BY <1>1, <1>7, <2>1, <3>2, <4>1 DEF HeldBy, Exists
        <3> QED BY <3>1, <3>2
    <2> QED BY <2>1 DEF HeldBy
<1>8. ASSUME NEW p \in DOMAIN disk', data[disk[p]] = Empty \/ data[disk[p]].origin = "sent"
                                     \/ p = x.path
      PROVE  data'[disk'[p]] = Empty \/ data'[disk'[p]].origin = "sent"
    <2>1. CASE p = x.path
        BY <1>1, <1>4, <2>1
    <2>2. CASE p # x.path
        <3>1. p \in DOMAIN disk /\ disk'[p] = disk[p] /\ disk[p] # i
            BY <1>1, <2>2
        <3>2. disk[p] \in Inodes
            BY <3>1, FileData DEF SentIInv, MaildirIInv
        <3> QED BY <1>4, <1>8, <2>2, <3>1, <3>2
    <2> QED BY <2>1, <2>2
<1>9. ASSUME NEW m \in Sent, Touched(m)
      PROVE  Touched(m)'
    <2>1. ASSUME NEW p \in DOMAIN disk', p.name.base = m
          PROVE  data[disk[p]] = Empty \/ data[disk[p]].origin = "sent" \/ p = x.path
        BY <1>1, <1>9, <2>1 DEF Touched, CopiesOf
    <2> QED BY <1>8, <2>1 DEF Touched, CopiesOf
<1>10. ASSUME NEW m \in Sent, Unaltered(m), b = m
       PROVE  Touched(m)'
    <2>1. x.path = SentPlace(m) /\ CopiesOf(m) = {SentPlace(m)}
        BY <1>2, <1>10 DEF Unaltered, AsSent, Leaves, Acting
    <2>2. \A p \in DOMAIN disk' : p.name.base = m => p = x.path
        BY <1>1, <2>1 DEF CopiesOf
    <2> QED BY <1>8, <2>2 DEF Touched, CopiesOf
<1>11. ASSUME NEW m \in Sent, Unaltered(m), b # m
       PROVE  AsSent(m)'
    <2>1. SentPlace(m) \in DOMAIN disk /\ SentPlace(m).name.base = m
        BY <1>11, SentPlaceShape DEF Unaltered, AsSent, CopiesOf
    <2>2. SentPlace(m) # x.path
        BY <1>11, <2>1
    <2>3. CopiesOf(m)' = CopiesOf(m)
        BY <1>1, <1>11 DEF CopiesOf
    <2>4. disk'[SentPlace(m)] = disk[SentPlace(m)] /\ disk[SentPlace(m)] # i
        BY <1>1, <2>1, <2>2
    <2>5. disk[SentPlace(m)] \in Inodes
        BY <2>1, FileData DEF SentIInv, MaildirIInv
    <2>6. data'[disk[SentPlace(m)]] = data[disk[SentPlace(m)]]
        BY <1>4, <2>4, <2>5
    <2> QED BY <1>11, <2>3, <2>4, <2>6 DEF Unaltered, AsSent
<1>12. FilesGoOn({b})
    BY <1>6, <1>7, <1>9, <1>10, <1>11 DEF FilesGoOn, SentIInv
<1>13. /\ request'[r].inode = i /\ request'[r].path = x.path
    BY <1>1, <1>2 DEF Become, RequestRecord, SentIInv, MaildirIInv, RequestsOK
<1>14. \A p \in DOMAIN disk' : disk'[p] = i => p.name.base = b
    BY <1>1
<1>15. HeldBy(x.inode, b)'
    BY <1>13, <1>14 DEF HeldBy
<1> QED BY <1>12, <1>15

-----------------------------------------------------------------------------
(* Maildir: every step keeps what was sent apart.                          *)

\* A request goes on, and the files with it.
LEMMA SentGoesOn ==
    ASSUME SentIInv, MaildirIInv', NEW r \in Requests, RequestGoesOn(r),
           NEW S, FilesGoOn(S),
           Truncate(r) => S = {request[r].path.name.base}
                          /\ HeldBy(request[r].inode, request[r].path.name.base)',
           ~Truncate(r) => S = {}
    PROVE  SentIInv'
<1>1. PICK y : /\ Become(r, y) /\ Apart(y)
               /\ y.pc = "fill" => Truncate(r)
               /\ \A m \in Sent :
                     Unaltered(m) /\ ~(Truncate(r) /\ request[r].path.name.base = m)
                        => Leaves(y, m)
    BY DEF RequestGoesOn
<1>2. request'[r] = y /\ \A s \in Requests : s # r => request'[s] = request[s]
    BY <1>1 DEF Become, SentIInv, MaildirIInv, RequestsOK
<1>3. \A s \in Requests : Apart(request'[s])
    BY <1>1, <1>2 DEF SentIInv
<1>4. ASSUME NEW s \in Requests, request'[s].pc = "fill"
      PROVE  HeldBy(request[s].inode, request[s].path.name.base)'
    <2>1. CASE s = r
        <3>1. Truncate(r)
            BY <1>1, <1>2, <1>4, <2>1
        <3> QED BY <2>1, <3>1
    <2>2. CASE s # r
        <3>1. request'[s] = request[s] /\ request[s].pc = "fill"
            BY <1>2, <1>4, <2>2
        <3>2. request[s] \in RequestRecord(inodes) /\ Proper(request[s])
            BY DEF SentIInv, MaildirIInv, RequestsOK
        <3>3. request[s].inode \in 1..inodes
            BY <3>1, <3>2 DEF RequestRecord, Proper, SentIInv, MaildirIInv, FilesOK
        <3>4. request[s].path.name.base \in Messages
            BY <3>1, <3>2 DEF Proper, Acting, Places, Names
        <3>5. HeldBy(request[s].inode, request[s].path.name.base)
            BY <3>1 DEF SentIInv, OwnFile, At
        <3>6. PICK j \in 1..inodes, b \in Messages :
                  j = request[s].inode /\ b = request[s].path.name.base
            BY <3>3, <3>4
        <3>7. HeldBy(j, b)'
            BY <3>5, <3>6 DEF FilesGoOn
        <3> QED BY <3>1, <3>6, <3>7 DEF HeldBy
    <2> QED BY <2>1, <2>2
<1>5. OwnFile'
    BY <1>4 DEF OwnFile, At
<1>6. ASSUME NEW m \in Sent
      PROVE  Unaltered(m)' \/ Touched(m)'
    <2>1. CASE Touched(m) \/ m \in S
        BY <2>1 DEF FilesGoOn
    <2>2. CASE m \notin S /\ Unaltered(m)
        <3>1. AsSent(m)'
            BY <2>2 DEF FilesGoOn
        <3>2. Leaves(y, m)
            BY <1>1, <2>2
        <3>3. \A s \in Requests : Leaves(request'[s], m)
            BY <1>2, <2>2, <3>2 DEF Unaltered
        <3>4. \A s \in Requests : Leaves(request[s], m)'
            BY <3>3 DEF Leaves, Checked, SentPlace, FirstPlace, Place
        <3> QED BY <3>1, <3>4 DEF Unaltered
    <2> QED BY <2>1, <2>2 DEF SentIInv
<1>7. \A s \in Requests : Apart(request[s])'
    BY <1>3 DEF Apart, Checked
<1> QED BY <1>5, <1>6, <1>7 DEF SentIInv, FilesGoOn

LEMMA SentAskKeeps ==
    ASSUME SentIInv, NEW r \in Requests, NEW w \in Wishes, Ask(r, w.op, w.folder, w.ids)
    PROVE  SentIInv'
<1>1. MaildirIInv'
    BY AskKeepsTypes DEF SentIInv
<1>2. FilesGoOn({})
    BY SameFilesGoOn DEF Ask
<1>3. ~Truncate(r)
    BY DEF Ask, Truncate, At
<1> QED BY <1>1, <1>2, <1>3, AskGoesOn, SentGoesOn

LEMMA SentRequestKeeps ==
    ASSUME SentNotReported, SentIInv, NEW r \in Requests, Step(r)
    PROVE  SentIInv'
<1> DEFINE x == request[r]
<1>1. MaildirIInv'
    BY MaildirStepKeeps DEF SentIInv, Next, WebmailNext
<1>2. CASE Stop(r) /\ ~Truncate(r)
    <2>1. RequestGoesOn(r) /\ FilesGoOn({})
        BY <1>2, DoneGoesOn, SameFilesGoOn DEF Stop
    <2> QED BY <1>1, <1>2, <2>1, SentGoesOn
<1>3. CASE Validate(r) \/ Locate(r) \/ Tag(r)
    <2>1. RequestGoesOn(r)
        BY <1>3, ValidateGoesOn, LocateGoesOn, TagGoesOn
    <2>2. FilesGoOn({}) /\ ~Truncate(r)
        BY <1>3, SameFilesGoOn DEF Validate, Locate, Tag, Truncate, At
    <2> QED BY <1>1, <2>1, <2>2, SentGoesOn
<1>4. CASE Open(r)
    <2>1. RequestGoesOn(r) /\ ~Truncate(r)
        BY <1>4, DoneGoesOn DEF Open, Truncate, At
    <2>2. Proper(x) /\ x.pc = "open" /\ Apart(x)
        BY <1>4 DEF SentIInv, MaildirIInv, RequestsOK, Open, At
    <2>3. FilesGoOn({})
        <3> DEFINE p == x.path
                   q == Place(p.folder, "cur", Seen(p.name))
        <3>1. CASE p.dir = "new"
            <4>1. p \in Places /\ p \in DOMAIN disk /\ Rename(p, q)
                BY <1>4, <2>2, <3>1 DEF Proper, Acting, Open, Exists
            <4>2. q \in Places /\ q.name.base = p.name.base /\ q.folder = p.folder
                BY <4>1 DEF Place, Places, Seen, Names, Flags
            <4>3. p.name.base \in Sent => q.folder \in {"sent", "trash"}
                BY <2>2, <4>2 DEF Apart, Acting
            <4>4. ASSUME NEW m \in Sent, Unaltered(m)
                  PROVE  p.name.base # m
                <5>1. SentPlace(m).dir = "cur" /\ Leaves(x, m)
                    BY <4>4, SentPlaceShape DEF Unaltered
                <5> QED BY <2>2, <3>1, <5>1 DEF Leaves, Acting
            <4>5. UNCHANGED <<data, inodes>>
                BY <1>4 DEF Open
            <4> HIDE DEF p, q
            <4> QED BY <4>1, <4>2, <4>3, <4>4, <4>5, RenameGoesOn
        <3>2. CASE p.dir # "new"
            BY <1>4, <3>2, SameFilesGoOn DEF Open, files
        <3> QED BY <3>1, <3>2
    <2> QED BY <1>1, <2>1, <2>3, SentGoesOn
<1>5. CASE Truncate(r)
    <2> QED BY <1>1, <1>5, TruncateGoesOn, TruncateFilesGoOn, SentGoesOn
<1>6. CASE Fill(r)
    <2>1. ~Truncate(r)
        BY <1>6 DEF Fill, Truncate, At
    <2> QED BY <1>1, <1>6, <2>1, FillGoesOn, FillFilesGoOn, SentGoesOn
<1>7. CASE Move(r)
    <2> DEFINE p == x.path
               q == Place(x.folder, "new", p.name)
    <2>1. ~Truncate(r) /\ ~At(r, "idle") /\ RequestGoesOn(r)
        BY <1>7, NextGoesOn DEF Move, Truncate, At
    <2>2. Proper(x) /\ x.pc = "rename" /\ Apart(x)
        BY <1>7 DEF SentIInv, MaildirIInv, RequestsOK, Move, At
    <2>3. q \in Places
        BY <1>7, MoveKeepsTypes DEF SentIInv
    <2>4. p \in DOMAIN disk /\ Rename(p, q) /\ UNCHANGED <<data, inodes>>
        BY <1>7 DEF Move, Exists
    <2>5. q.name.base = p.name.base /\ q.folder = x.folder
        BY DEF Place
    <2>6. p.name.base = x.ids[x.n].base /\ x.n \in 1..Len(x.ids) /\ x.op \in {"move", "report"}
        BY <2>2 DEF Proper, Acting
    <2>7. p.name.base \in Sent => x.folder \in {"sent", "trash"}
        <3>1. CASE x.op = "move"
            <4>1. x.n \in Checked(x)
                BY <2>2, <2>6, <3>1 DEF Checked
            <4> QED BY <2>2, <2>6, <3>1, <4>1 DEF Apart
        <3>2. CASE x.op = "report"
            BY <2>1, <2>6, <3>2, SentIsNotReported DEF SentIInv, MaildirIInv, Id
        <3> QED BY <2>6, <3>1, <3>2
    <2>8. ASSUME NEW m \in Sent, Unaltered(m)
          PROVE  p.name.base # m
        BY <2>2, <2>8 DEF Unaltered, Leaves, Acting
    <2>9. FilesGoOn({})
        <3> HIDE DEF p, q
        <3> QED BY <2>3, <2>4, <2>5, <2>7, <2>8, RenameGoesOn
    <2> QED BY <1>1, <2>1, <2>9, SentGoesOn
<1>8. CASE RemoveFile(r)
    <2>1. ~Truncate(r) /\ RequestGoesOn(r)
        BY <1>8, NextGoesOn DEF RemoveFile, Truncate, At
    <2>2. Proper(x) /\ x.pc = "remove"
        BY <1>8 DEF SentIInv, MaildirIInv, RequestsOK, RemoveFile, At
    <2>3. PICK R \in SUBSET DOMAIN disk : R = DOMAIN disk \ {x.path}
        OBVIOUS
    <2>4. disk' = [y \in R |-> disk[y]] /\ UNCHANGED <<data, inodes>>
        BY <1>8, <2>3 DEF RemoveFile
    <2>5. ASSUME NEW m \in Sent, Unaltered(m)
          PROVE  SentPlace(m) \in R
        <3>1. x.path.name.base # m
            BY <2>2, <2>5 DEF Unaltered, Leaves, Acting
        <3>2. SentPlace(m) \in DOMAIN disk /\ SentPlace(m).name.base = m
            BY <2>5, SentPlaceShape DEF Unaltered, AsSent, CopiesOf
        <3> QED BY <2>3, <3>1, <3>2
    <2>6. FilesGoOn({})
        BY <2>4, <2>5, RemoveGoesOn
    <2> QED BY <1>1, <2>1, <2>6, SentGoesOn
<1> QED BY <1>2, <1>3, <1>4, <1>5, <1>6, <1>7, <1>8 DEF Step

LEMMA SentEnvironmentKeeps ==
    ASSUME SentIInv, Environment \/ MailServer
    PROVE  SentIInv'
<1>1. MaildirIInv'
    BY EnvironmentKeepsTypes DEF SentIInv
<1>2. ASSUME FilesGoOn({}), \/ request' = request
                            \/ request' = [r \in Requests |-> Idle]
      PROVE  SentIInv'
    <2>1. \A r \in Requests : request'[r] = request[r] \/ request'[r] = Idle
        BY <1>2
    <2>2. \A r \in Requests : Apart(request'[r])
        BY <2>1, IdleIsApart DEF SentIInv
    <2>3. \A r \in Requests : Apart(request[r])'
        BY <2>2 DEF Apart, Checked
    <2>4. ASSUME NEW r \in Requests, request'[r].pc = "fill"
          PROVE  HeldBy(request[r].inode, request[r].path.name.base)'
        <3>1. request'[r] = request[r] /\ request[r].pc = "fill"
            BY <2>1, <2>4 DEF Idle
        <3>2. request[r] \in RequestRecord(inodes) /\ Proper(request[r])
            BY DEF SentIInv, MaildirIInv, RequestsOK
        <3>3. request[r].inode \in 1..inodes
            BY <3>1, <3>2 DEF RequestRecord, Proper, SentIInv, MaildirIInv, FilesOK
        <3>4. request[r].path.name.base \in Messages
            BY <3>1, <3>2 DEF Proper, Acting, Places, Names
        <3>5. HeldBy(request[r].inode, request[r].path.name.base)
            BY <3>1 DEF SentIInv, OwnFile, At
        <3>6. PICK j \in 1..inodes, b \in Messages :
                  j = request[r].inode /\ b = request[r].path.name.base
            BY <3>3, <3>4
        <3>7. HeldBy(j, b)'
            BY <1>2, <3>5, <3>6 DEF FilesGoOn
        <3> QED BY <3>1, <3>6, <3>7 DEF HeldBy
    <2>5. OwnFile'
        BY <2>4 DEF OwnFile, At
    <2>6. ASSUME NEW m \in Sent
          PROVE  Unaltered(m)' \/ Touched(m)'
        <3>1. CASE Touched(m)
            BY <1>2, <3>1 DEF FilesGoOn
        <3>2. CASE Unaltered(m)
            <4>1. AsSent(m)'
                BY <1>2, <3>2 DEF FilesGoOn
            <4>2. \A r \in Requests : Leaves(request'[r], m)
                BY <2>1, <3>2, IdleIsApart DEF Unaltered
            <4>3. \A r \in Requests : Leaves(request[r], m)'
                BY <4>2 DEF Leaves, Checked, SentPlace, FirstPlace, Place
            <4> QED BY <4>1, <4>3 DEF Unaltered
        <3> QED BY <3>1, <3>2 DEF SentIInv
    <2> QED BY <1>1, <1>2, <2>3, <2>5, <2>6 DEF SentIInv, FilesGoOn
<1>3. CASE DeleteFolder
    <2>1. PICK R \in SUBSET DOMAIN disk : R = {q \in DOMAIN disk : q.folder # "custom"}
        OBVIOUS
    <2>2. disk' = [y \in R |-> disk[y]] /\ UNCHANGED <<data, inodes, request>>
        BY <1>3, <2>1 DEF DeleteFolder
    <2>3. ASSUME NEW m \in Sent, Unaltered(m)
          PROVE  SentPlace(m) \in R
        BY <2>1, <2>3, SentPlaceShape DEF Unaltered, AsSent, CopiesOf
    <2>4. FilesGoOn({})
        BY <2>2, <2>3, RemoveGoesOn
    <2> QED BY <1>2, <2>2, <2>4
<1>4. CASE Restart
    BY <1>2, <1>4, SameFilesGoOn DEF Restart
<1>5. ASSUME NEW p \in DOMAIN disk, MailServerRenames(p)
      PROVE  SentIInv'
    <2> DEFINE q == Place(p.folder, "cur", [p.name EXCEPT !.flags = IF p.dir = "new"
                                              THEN "unseen" ELSE "seen"])
    <2>1. p \in Places
        BY DEF SentIInv, MaildirIInv, FilesOK
    <2>2. q \in Places /\ q.name.base = p.name.base /\ q.folder = p.folder
        BY <2>1 DEF Places, Place, Names, Flags
    <2>3. Rename(p, q) /\ UNCHANGED <<data, inodes, request>>
        BY <1>5 DEF MailServerRenames
    <2>4. p.name.base \in Sent => q.folder \in {"sent", "trash"}
        BY <2>2 DEF SentIInv, SentStaysApart
    <2>5. ASSUME NEW m \in Sent, Unaltered(m)
          PROVE  p.name.base # m
        <3>1. \/ p.dir = "new" \/ p.name.flags = "unseen"
            BY <1>5 DEF MailServerRenames
        <3>2. p # SentPlace(m)
            BY <3>1, SentPlaceShape
        <3> QED BY <2>5, <3>2 DEF Unaltered, AsSent, CopiesOf
    <2> HIDE DEF q
    <2>6. FilesGoOn({})
        BY <2>2, <2>3, <2>4, <2>5, RenameGoesOn
    <2> QED BY <1>2, <2>3, <2>6
<1> QED BY <1>3, <1>4, <1>5 DEF Environment, MailServer

LEMMA SentInitHolds == Init => SentIInv
<1> SUFFICES ASSUME Init PROVE SentIInv
    OBVIOUS
<1>1. MaildirIInv
    BY MaildirInitHolds
<1>2. PICK folder \in [Messages -> {"inbox", "sent", "spam"}] :
          /\ \A m \in Messages : folder[m] = "sent" <=> m \in Sent
          /\ DOMAIN disk = {FirstPlace(m, folder[m]) : m \in Messages}
    BY DEF Init
<1>3. \A r \in Requests : request[r] = Idle
    BY DEF Init
<1>4. \A p \in DOMAIN disk : \E m \in Messages :
          p = FirstPlace(m, folder[m]) /\ p.name.base = m /\ p.folder = folder[m]
    BY <1>2 DEF FirstPlace, Place
<1>5. SentStaysApart
    BY <1>2, <1>4 DEF SentStaysApart
<1>6. OwnFile
    BY <1>3 DEF OwnFile, At, Idle
<1>7. \A r \in Requests : Apart(request[r])
    BY <1>3, IdleIsApart
<1>8. ASSUME NEW m \in Sent
      PROVE  Unaltered(m)
    <2>1. m \in Messages /\ folder[m] = "sent"
        BY <1>2, MaildirAssumptions
    <2>2. SentPlace(m) \in DOMAIN disk /\ SentPlace(m).name.base = m
        BY <1>2, <2>1, SentPlaceShape DEF SentPlace
    <2>3. \A p \in DOMAIN disk : p.name.base = m => p = SentPlace(m)
        BY <1>4, <2>1 DEF SentPlace
    <2>4. CopiesOf(m) = {SentPlace(m)}
        BY <2>2, <2>3 DEF CopiesOf
    <2>5. disk[SentPlace(m)] \in Inodes
        BY <1>1, <2>2, FileData DEF MaildirIInv
    <2>6. data[disk[SentPlace(m)]].origin = None
        BY <2>5 DEF Init
    <2>7. \A r \in Requests : Leaves(request[r], m)
        BY <1>3, IdleIsApart
    <2> QED BY <2>4, <2>6, <2>7 DEF Unaltered, AsSent
<1> QED BY <1>1, <1>5, <1>6, <1>7, <1>8 DEF SentIInv

\* A message that was sent and that nobody reports is found in the sent folder
\* and the trash and nowhere else, for every set of requests with batches of
\* any length, however they overlap with each other, a mail client, failures
\* and restarts.
THEOREM SentIsApart ==
    ASSUME SentNotReported PROVE Spec => []SentStaysApart
<1>1. SentIInv /\ [Next]_vars => SentIInv'
    <2> SUFFICES ASSUME SentIInv, [Next]_vars PROVE SentIInv'
        OBVIOUS
    <2>1. CASE UNCHANGED vars
        BY <2>1 DEF vars, files, SentIInv, MaildirIInv, FilesOK, RequestsOK, RequestRecord, Inodes,
                    OwnFile, At, HeldBy, SentStaysApart, Apart, Checked, Unaltered, Touched,
                    AsSent, Leaves, CopiesOf
    <2> QED BY <2>1, SentAskKeeps, SentRequestKeeps, SentEnvironmentKeeps DEF Next, WebmailNext
<1>2. SentIInv => SentStaysApart
    BY DEF SentIInv
<1> QED BY <1>1, <1>2, SentInitHolds, PTL DEF Spec

-----------------------------------------------------------------------------
(* Maildir: one request at a time, without a mail client, is a Mailbox.    *)

OneAtATime == \A r, s \in Requests : r = s

\* What the files at D show: each message is in one folder, this one.
SingleIn(D) == \A p, q \in D : p.name.base = q.name.base => p = q
FoldersIn(D) == [m \in {p.name.base : p \in D} |->
                    (CHOOSE p \in {x \in D : x.name.base = m} : TRUE).folder]
View == FoldersIn(DOMAIN disk)
GoneBetween(D, E, gone) == \A m : m \in gone <=> \E p \in D \ E : p.name.base = m

\* A message that has been validated may be moved as it was asked, or is there.
Holds(x, D) ==
    \A j \in Checked(x), p \in D :
        p.name.base = x.ids[j].base =>
            IF x.op = "delete" THEN p.folder = "trash"
            ELSE p.folder = x.folder \/ x.folder \in Owned!Permitted[p.folder]

\* A file that is about to be emptied is there, and no folder is deleted with it.
FileInPlace(x, D) ==
    x.pc \in {"tag", "truncate"} => x.path \in D /\ x.path.folder # "custom"

OneIInv == /\ MaildirIInv
           /\ SingleIn(DOMAIN disk)
           /\ \A r \in Requests : /\ Holds(request[r], DOMAIN disk)
                                  /\ FileInPlace(request[r], DOMAIN disk)

\* What validation lets through is permitted.
LEMMA MovesArePermitted ==
    ASSUME NEW source \in Folders, NEW origin, NEW target \in Folders \cup {"none"},
           MayMove(source, origin, target)
    PROVE  target \in Owned!Permitted[source]
<1>1. CASE source = "spam"
    BY <1>1 DEF MayMove, Owned!Permitted
<1>2. CASE source = "sent"
    BY <1>2 DEF MayMove, Owned!Permitted
<1>3. CASE source = "inbox"
    BY <1>3 DEF MayMove, Owned!Permitted
<1>4. CASE source = "trash"
    BY <1>4 DEF MayMove, Owned!Permitted
<1>5. CASE source \in {"drafts", "archive", "custom"}
    BY <1>5 DEF MayMove
<1> QED BY <1>1, <1>2, <1>3, <1>4, <1>5 DEF Folders

LEMMA TrashIsPermitted ==
    ASSUME NEW source \in Folders, "trash" \in Owned!Permitted[source]
    PROVE  source # "custom"
BY DEF Owned!Permitted

\* The folder of a message.
LEMMA FolderIs ==
    ASSUME NEW D, SingleIn(D), NEW p \in D
    PROVE  p.name.base \in DOMAIN FoldersIn(D) /\ FoldersIn(D)[p.name.base] = p.folder
<1> DEFINE C == {x \in D : x.name.base = p.name.base}
<1>1. C = {p}
    BY DEF SingleIn
<1>2. (CHOOSE x \in C : TRUE) = p
    BY <1>1
<1> QED BY <1>2 DEF FoldersIn

\* Every message that is shown has a file.
LEMMA ShownHasFile ==
    ASSUME NEW D, SingleIn(D), NEW m \in DOMAIN FoldersIn(D)
    PROVE  \E p \in D : p.name.base = m /\ FoldersIn(D)[m] = p.folder
<1>1. PICK p \in D : p.name.base = m
    BY DEF FoldersIn
<1> QED BY <1>1, FolderIs

\* A file that gets another name of its message is now in that folder.
LEMMA MoveIsShown ==
    ASSUME NEW D, SingleIn(D), NEW p \in D, NEW q, q.name.base = p.name.base,
           NEW E, E = (D \ {p}) \cup {q}
    PROVE  SingleIn(E) /\ FoldersIn(E) = [FoldersIn(D) EXCEPT ![p.name.base] = q.folder]
<1>1. SingleIn(E)
    BY DEF SingleIn
<1>2. {x.name.base : x \in E} = {x.name.base : x \in D}
    OBVIOUS
<1>3. DOMAIN FoldersIn(E) = DOMAIN FoldersIn(D)
    BY <1>2 DEF FoldersIn
<1>4. ASSUME NEW m \in DOMAIN FoldersIn(D)
      PROVE  FoldersIn(E)[m] = [FoldersIn(D) EXCEPT ![p.name.base] = q.folder][m]
    <2>1. PICK x \in D : x.name.base = m /\ FoldersIn(D)[m] = x.folder
        BY <1>4, ShownHasFile
    <2>2. CASE x = p
        <3>1. FoldersIn(E)[q.name.base] = q.folder
            BY <1>1, FolderIs
        <3> QED BY <2>1, <2>2, <3>1
    <2>3. CASE x # p
        <3>1. x \in E /\ m # p.name.base
            BY <2>1, <2>3 DEF SingleIn
        <3>2. FoldersIn(E)[x.name.base] = x.folder
            BY <1>1, <3>1, FolderIs
        <3> QED BY <2>1, <3>1, <3>2
    <2> QED BY <2>2, <2>3
<1>5. /\ FoldersIn(E) = [m \in DOMAIN FoldersIn(D) |-> FoldersIn(E)[m]]
      /\ FoldersIn(D) = [m \in DOMAIN FoldersIn(D) |-> FoldersIn(D)[m]]
    BY <1>3 DEF FoldersIn
<1> QED BY <1>1, <1>3, <1>4, <1>5

\* Messages whose file is removed are not shown.
LEMMA RemovalIsShown ==
    ASSUME NEW D, SingleIn(D), NEW E \in SUBSET D,
           NEW gone, GoneBetween(D, E, gone)
    PROVE  /\ SingleIn(E)
           /\ DOMAIN FoldersIn(E) = DOMAIN FoldersIn(D) \ gone
           /\ \A m \in DOMAIN FoldersIn(E) : FoldersIn(E)[m] = FoldersIn(D)[m]
           /\ FoldersIn(E) = [m \in DOMAIN FoldersIn(E) |-> FoldersIn(E)[m]]
<1>1. SingleIn(E)
    BY DEF SingleIn
<1>2. {x.name.base : x \in E} = {x.name.base : x \in D} \ gone
    BY DEF SingleIn, GoneBetween
<1>3. DOMAIN FoldersIn(E) = DOMAIN FoldersIn(D) \ gone
    BY <1>2 DEF FoldersIn
<1>4. ASSUME NEW m \in DOMAIN FoldersIn(D) \ gone
      PROVE  FoldersIn(E)[m] = FoldersIn(D)[m]
    <2>1. PICK x \in D : x.name.base = m /\ FoldersIn(D)[m] = x.folder
        BY ShownHasFile
    <2>2. x \in E
        BY <1>4, <2>1 DEF GoneBetween
    <2> QED BY <1>1, <2>1, <2>2, FolderIs
<1>5. FoldersIn(E) = [m \in DOMAIN FoldersIn(E) |-> FoldersIn(E)[m]]
    BY DEF FoldersIn
<1> QED BY <1>1, <1>3, <1>4, <1>5

-----------------------------------------------------------------------------
(* Every step of a single request.                                         *)

\* The request goes on.
LEMMA OneGoesOn ==
    ASSUME OneAtATime, OneIInv, MaildirIInv', NEW r \in Requests, NEW y, Become(r, y),
           SingleIn(DOMAIN disk'), Holds(y, DOMAIN disk'), FileInPlace(y, DOMAIN disk')
    PROVE  OneIInv'
<1>1. \A s \in Requests : request'[s] = y
    BY DEF OneAtATime, Become, OneIInv, MaildirIInv, RequestsOK
<1>2. \A s \in Requests : Holds(request'[s], DOMAIN disk') /\ FileInPlace(request'[s], DOMAIN disk')
    BY <1>1
<1>3. \A s \in Requests : Holds(request[s], DOMAIN disk)' /\ FileInPlace(request[s], DOMAIN disk)'
    BY <1>2 DEF Holds, FileInPlace, Checked, Owned!Permitted
<1> QED BY <1>3 DEF OneIInv, SingleIn

LEMMA IdleHolds ==
    ASSUME NEW D
    PROVE  Holds(Idle, D) /\ FileInPlace(Idle, D)
<1>1. Idle.pc = "idle"
    BY DEF Idle
<1> QED BY <1>1 DEF Holds, FileInPlace, Checked

\* A request that has acted looks for its next message, or is over.
LEMMA OneNext ==
    ASSUME OneIInv, NEW r \in Requests, At(r, "rename") \/ At(r, "remove"),
           NextId(r, "locate", Idle), NEW D, Holds(request[r], D)
    PROVE  \E y : Become(r, y) /\ Holds(y, D) /\ FileInPlace(y, D)
<1> DEFINE x == request[r]
           y == [x EXCEPT !.pc = "locate", !.n = x.n + 1, !.path = None, !.inode = 0,
                          !.read = Empty]
<1>1. x \in RequestRecord(inodes) /\ x.pc \in {"rename", "remove"}
    BY DEF OneIInv, MaildirIInv, RequestsOK, At
<1>2. CASE x.n < Len(x.ids)
    <2>1. /\ y.pc = "locate" /\ y.op = x.op /\ y.folder = x.folder /\ y.ids = x.ids
        BY <1>1 DEF RequestRecord
    <2>2. Checked(y) = Checked(x)
        BY <1>1, <2>1 DEF Checked
    <2>3. Become(r, y)
        BY <1>2 DEF NextId
    <2> HIDE DEF y
    <2>4. Holds(y, D)
        BY <2>1, <2>2 DEF Holds
    <2>5. FileInPlace(y, D)
        BY <2>1 DEF FileInPlace
    <2> QED BY <2>3, <2>4, <2>5
<1>3. CASE ~(x.n < Len(x.ids))
    BY <1>3, IdleHolds DEF NextId
<1> QED BY <1>2, <1>3

\* What a step may do to what the files show: nothing, or what Mailbox does.
MailboxStep ==
    \/ View' = View
    \/ \E m \in DOMAIN View : \E f \in Owned!Permitted[View[m]] :
          View' = [View EXCEPT ![m] = f]
    \/ \E m \in DOMAIN View, f \in {"spam", "inbox"} : View' = [View EXCEPT ![m] = f]
    \/ \E m \in DOMAIN View :
          View[m] = "trash" /\ View' = [k \in DOMAIN View \ {m} |-> View[k]]
    \/ View' = [k \in DOMAIN View \ {n \in DOMAIN View : View[n] = "custom"} |-> View[k]]

\* No file is renamed or removed.
LEMMA SameFilesShown ==
    ASSUME OneIInv, DOMAIN disk' = DOMAIN disk
    PROVE  MailboxStep /\ SingleIn(DOMAIN disk')
BY DEF MailboxStep, View, OneIInv

LEMMA OneAsk ==
    ASSUME OneAtATime, OneIInv, NEW r \in Requests, NEW w \in Wishes,
           Ask(r, w.op, w.folder, w.ids)
    PROVE  OneIInv' /\ MailboxStep
<1>1. MaildirIInv'
    BY AskKeepsTypes DEF OneIInv
<1>2. DOMAIN disk' = DOMAIN disk
    BY DEF Ask, files
<1>3. PICK label : label = IF w.op \in {"move", "delete"} THEN "validate" ELSE "locate"
    OBVIOUS
<1> DEFINE y == [Idle EXCEPT !.op = w.op, !.folder = w.folder, !.ids = w.ids, !.n = 1,
                             !.pc = label]
<1>4. y.pc = label /\ y.op = w.op /\ y.n = 1
    BY DEF Idle
<1>5. Checked(y) = {}
    BY <1>3, <1>4 DEF Checked
<1>6. Holds(y, DOMAIN disk') /\ FileInPlace(y, DOMAIN disk')
    BY <1>3, <1>4, <1>5 DEF Holds, FileInPlace
<1>7. Become(r, y)
    BY <1>3 DEF Ask
<1> HIDE DEF y
<1> QED BY <1>1, <1>2, <1>6, <1>7, SameFilesShown, OneGoesOn

\* The request is over and renames nothing.
LEMMA OneDone ==
    ASSUME OneAtATime, OneIInv, MaildirIInv', NEW r \in Requests, Done(r),
           SingleIn(DOMAIN disk')
    PROVE  OneIInv'
BY IdleHolds, OneGoesOn DEF Done

\* What is validated may be moved as it was asked, or is in the trash.
LEMMA OneValidate ==
    ASSUME OneAtATime, OneIInv, NEW r \in Requests, Validate(r)
    PROVE  OneIInv' /\ MailboxStep
<1> DEFINE x == request[r]
<1>1. MaildirIInv' /\ DOMAIN disk' = DOMAIN disk
    BY ValidateKeepsTypes DEF OneIInv, Validate, files
<1>2. x \in RequestRecord(inodes) /\ Proper(x) /\ x.pc = "validate"
    BY DEF OneIInv, MaildirIInv, RequestsOK, Validate, At
<1>3. x.op \in {"move", "delete"} /\ x.n \in 1..Len(x.ids) /\ Len(x.ids) \in Nat
    <2>1. ~At(r, "idle")
        BY <1>2 DEF At
    <2>2. Len(x.ids) \in Nat
        BY <2>1, AtHand DEF OneIInv, MaildirIInv
    <2> QED BY <1>2, <2>2 DEF Proper
<1>4. PICK p \in DOMAIN disk :
          /\ p.name.base = x.ids[x.n].base
          /\ IF x.op = "delete" THEN MayDelete(p.folder)
             ELSE MayMove(p.folder, data[disk[p]].origin, x.folder)
    BY DEF Validate, IsFound, Matches, Id
<1>5. IF x.op = "delete" THEN p.folder = "trash"
      ELSE x.folder \in Owned!Permitted[p.folder]
    <2>1. CASE x.op = "delete"
        BY <1>4, <2>1 DEF MayDelete
    <2>2. CASE x.op # "delete"
        <3>1. p.folder \in Folders /\ x.folder \in Folders \cup {"none"}
            BY <1>2 DEF OneIInv, MaildirIInv, FilesOK, Places, RequestRecord
        <3> QED BY <1>4, <2>2, <3>1, MovesArePermitted
    <2> QED BY <2>1, <2>2
<1>6. \A q \in DOMAIN disk : q.name.base = x.ids[x.n].base => q = p
    BY <1>4 DEF OneIInv, SingleIn
<1>7. Holds(x, DOMAIN disk) /\ Checked(x) = 1..(x.n - 1)
    BY <1>2 DEF OneIInv, Checked
<1>8. PICK y : /\ Become(r, y) /\ y.pc \in {"validate", "locate"}
               /\ y.op = x.op /\ y.folder = x.folder /\ y.ids = x.ids
               /\ Checked(y) = 1..x.n
    BY <1>2, <1>3, ValidateNext
<1>9. \A j \in Checked(y) : j \in Checked(x) \/ j = x.n
    BY <1>3, <1>7, <1>8
<1>10. Holds(y, DOMAIN disk')
    BY <1>1, <1>5, <1>6, <1>7, <1>8, <1>9 DEF Holds
<1>11. FileInPlace(y, DOMAIN disk')
    BY <1>8 DEF FileInPlace
<1> QED BY <1>1, <1>8, <1>10, <1>11, SameFilesShown, OneGoesOn

LEMMA OneLocate ==
    ASSUME OneAtATime, OneIInv, NEW r \in Requests, Locate(r)
    PROVE  OneIInv' /\ MailboxStep
<1> DEFINE x == request[r]
<1>1. MaildirIInv' /\ DOMAIN disk' = DOMAIN disk
    BY LocateKeepsTypes DEF OneIInv, Locate, files
<1>2. PICK p \in DOMAIN disk, label \in {"open", "remove", "tag", "rename"} :
          LET y == [x EXCEPT !.path = p, !.pc = label]
          IN  /\ IsFound(p, Id(r)) /\ p \in Places /\ p.name.base = Id(r).base
              /\ x \in RequestRecord(inodes) /\ Proper(x) /\ x.pc = "locate"
              /\ label = "open" => x.op = "read"
              /\ label = "remove" => x.op = "delete"
              /\ label \in {"tag", "rename"} => x.op \in {"move", "report"}
              /\ label = "tag" => x.folder = "trash" /\ p.folder # "trash"
              /\ label = "rename" => ~(x.folder = "trash" /\ p.folder # "trash")
              /\ Become(r, y)
              /\ y \in RequestRecord(inodes)
              /\ y.pc = label /\ y.path = p /\ y.n = x.n
              /\ y.op = x.op /\ y.folder = x.folder /\ y.ids = x.ids
    BY LocateShape DEF OneIInv
<1> DEFINE y == [x EXCEPT !.path = p, !.pc = label]
<1>3. /\ Become(r, y) /\ y.pc = label /\ y.path = p
      /\ y.op = x.op /\ y.folder = x.folder /\ y.ids = x.ids
    BY <1>2
<1> HIDE DEF y
<1>4. Checked(y) = Checked(x)
    BY <1>2, <1>3 DEF Checked
<1>5. Holds(x, DOMAIN disk)
    BY DEF OneIInv
<1>6. Holds(y, DOMAIN disk')
    BY <1>1, <1>3, <1>4, <1>5 DEF Holds
<1>7. ASSUME label = "tag"
      PROVE  p.folder # "custom"
    <2>1. ~At(r, "idle")
        BY <1>2 DEF At
    <2>2. x.op = "move" /\ x.n \in 1..Len(x.ids) /\ p.name.base = x.ids[x.n].base
        BY <1>2, <1>7, <2>1, AtHand DEF OneIInv, MaildirIInv, Id
    <2>3. x.n \in Checked(x)
        BY <1>2, <2>2 DEF Checked
    <2>4. "trash" \in Owned!Permitted[p.folder]
        BY <1>2, <1>5, <1>7, <2>2, <2>3 DEF Holds
    <2>5. p.folder \in Folders
        BY <1>2 DEF Places
    <2> QED BY <2>4, <2>5, TrashIsPermitted
<1>8. FileInPlace(y, DOMAIN disk')
    BY <1>1, <1>2, <1>3, <1>7 DEF FileInPlace
<1> QED BY <1>1, <1>3, <1>6, <1>8, SameFilesShown, OneGoesOn

\* Reading, emptying and writing the file of a message.
LEMMA OneRewrites ==
    ASSUME OneAtATime, OneIInv, NEW r \in Requests, Tag(r) \/ Truncate(r) \/ Fill(r)
    PROVE  OneIInv' /\ MailboxStep
<1> DEFINE x == request[r]
<1>1. x \in RequestRecord(inodes) /\ Proper(x) /\ x.pc \in {"tag", "truncate", "fill"}
    BY DEF OneIInv, MaildirIInv, RequestsOK, Tag, Truncate, Fill, At
<1>2. MaildirIInv'
    BY TagKeepsTypes, TruncateKeepsTypes, FillKeepsTypes DEF OneIInv
<1>3. Holds(x, DOMAIN disk) /\ FileInPlace(x, DOMAIN disk)
    BY DEF OneIInv
<1>4. DOMAIN disk' = DOMAIN disk
    <2>1. CASE Tag(r) \/ Fill(r)
        BY <2>1 DEF Tag, Fill, files
    <2>2. CASE Truncate(r)
        <3>1. DOMAIN disk' = DOMAIN disk \cup {x.path} /\ x.pc = "truncate"
            BY <2>2 DEF Truncate, At
        <3> QED BY <1>3, <3>1 DEF FileInPlace
    <2> QED BY <2>1, <2>2
<1>5. PICK y : /\ Become(r, y) /\ y.pc \in {"rename", "truncate", "fill"}
               /\ y.pc = "truncate" => x.pc = "tag"
               /\ y.op = x.op /\ y.folder = x.folder /\ y.ids = x.ids /\ y.path = x.path
    <2>1. CASE (Tag(r) /\ data[disk[x.path]].origin # None) \/ Fill(r)
        <3> DEFINE z == [x EXCEPT !.pc = "rename"]
        <3>1. Become(r, z)
            BY <2>1 DEF Tag, Fill, Goto
        <3>2. /\ z.pc = "rename" /\ z.op = x.op /\ z.folder = x.folder
              /\ z.ids = x.ids /\ z.path = x.path
            BY <1>1 DEF RequestRecord
        <3> HIDE DEF z
        <3> QED BY <3>1, <3>2
    <2>2. CASE Tag(r) /\ data[disk[x.path]].origin = None
        <3> DEFINE z == [x EXCEPT !.pc = "truncate", !.read = data[disk[x.path]]]
        <3>1. Become(r, z) /\ x.pc = "tag"
            BY <2>2 DEF Tag, At
        <3>2. /\ z.pc = "truncate" /\ z.op = x.op /\ z.folder = x.folder
              /\ z.ids = x.ids /\ z.path = x.path
            BY <1>1 DEF RequestRecord
        <3> HIDE DEF z
        <3> QED BY <3>1, <3>2
    <2>3. CASE Truncate(r)
        <3>1. PICK i \in Inodes : Become(r, [x EXCEPT !.pc = "fill", !.inode = i])
            BY <2>3, TruncateFiles DEF OneIInv
        <3> DEFINE z == [x EXCEPT !.pc = "fill", !.inode = i]
        <3>2. Become(r, z)
            BY <3>1
        <3>3. /\ z.pc = "fill" /\ z.op = x.op /\ z.folder = x.folder
              /\ z.ids = x.ids /\ z.path = x.path
            BY <1>1 DEF RequestRecord
        <3> HIDE DEF z
        <3> QED BY <3>2, <3>3
    <2> QED BY <2>1, <2>2, <2>3
<1>6. Checked(y) = Checked(x)
    BY <1>1, <1>5 DEF Checked
<1>7. Holds(y, DOMAIN disk')
    BY <1>3, <1>4, <1>5, <1>6 DEF Holds
<1>8. FileInPlace(y, DOMAIN disk')
    BY <1>3, <1>4, <1>5 DEF FileInPlace
<1> QED BY <1>2, <1>4, <1>5, <1>7, <1>8, SameFilesShown, OneGoesOn

LEMMA OneOpen ==
    ASSUME OneAtATime, OneIInv, NEW r \in Requests, Open(r)
    PROVE  OneIInv' /\ MailboxStep
<1> DEFINE p == request[r].path
           q == Place(p.folder, "cur", Seen(p.name))
<1>1. MaildirIInv' /\ Done(r)
    BY OpenKeepsTypes DEF OneIInv, Open
<1>2. CASE p.dir # "new"
    <2>1. DOMAIN disk' = DOMAIN disk
        BY <1>2 DEF Open
    <2> QED BY <1>1, <2>1, SameFilesShown, OneDone
<1>3. CASE p.dir = "new"
    <2>1. p \in DOMAIN disk /\ p \in Places /\ DOMAIN disk' = (DOMAIN disk \ {p}) \cup {q}
        BY <1>3 DEF OneIInv, MaildirIInv, FilesOK, Open, Exists, Rename
    <2>2. q.name.base = p.name.base /\ q.folder = p.folder
        BY <2>1 DEF Place, Places, Seen, Names
    <2>3. SingleIn(DOMAIN disk)
        BY DEF OneIInv
    <2> HIDE DEF p, q
    <2>4. /\ SingleIn(DOMAIN disk')
          /\ FoldersIn(DOMAIN disk') = [FoldersIn(DOMAIN disk) EXCEPT ![p.name.base] = q.folder]
        BY <2>1, <2>2, <2>3, MoveIsShown
    <2>5. FoldersIn(DOMAIN disk)[p.name.base] = q.folder
        BY <2>1, <2>2, <2>3, FolderIs
    <2>6. FoldersIn(DOMAIN disk') = FoldersIn(DOMAIN disk)
        <3>1. FoldersIn(DOMAIN disk) = [m \in DOMAIN FoldersIn(DOMAIN disk) |->
                                           FoldersIn(DOMAIN disk)[m]]
            BY DEF FoldersIn
        <3> QED BY <2>4, <2>5, <3>1
    <2> QED BY <1>1, <2>4, <2>6, OneDone DEF MailboxStep, View
<1> QED BY <1>2, <1>3

\* The rename is what the owner asked for.
LEMMA OneMove ==
    ASSUME OneAtATime, OneIInv, NEW r \in Requests, Move(r)
    PROVE  OneIInv' /\ MailboxStep
<1> DEFINE x == request[r]
           p == x.path
           q == Place(x.folder, "new", p.name)
<1>1. MaildirIInv'
    BY MoveKeepsTypes DEF OneIInv
<1>2. Proper(x) /\ x.pc = "rename" /\ Holds(x, DOMAIN disk)
    BY DEF OneIInv, MaildirIInv, RequestsOK, Move, At
<1>3. ~At(r, "idle")
    BY <1>2 DEF At
<1>4. p \in DOMAIN disk /\ DOMAIN disk' = (DOMAIN disk \ {p}) \cup {q} /\ NextId(r, "locate", Idle)
    BY DEF Move, Exists, Rename
<1>5. q.name.base = p.name.base /\ q.folder = x.folder
    BY DEF Place
<1>6. p.name.base = x.ids[x.n].base /\ x.n \in 1..Len(x.ids) /\ x.op \in {"move", "report"}
    BY <1>2 DEF Proper, Acting
<1>7. SingleIn(DOMAIN disk)
    BY DEF OneIInv
<1> HIDE DEF q
<1>8. /\ SingleIn(DOMAIN disk')
      /\ FoldersIn(DOMAIN disk') = [FoldersIn(DOMAIN disk) EXCEPT ![p.name.base] = q.folder]
    BY <1>4, <1>5, <1>7, MoveIsShown
<1>9. p.name.base \in DOMAIN View /\ View[p.name.base] = p.folder
    BY <1>4, <1>7, FolderIs DEF View
<1>10. View' = [View EXCEPT ![p.name.base] = x.folder]
    BY <1>5, <1>8 DEF View
<1>11. Holds(x, DOMAIN disk')
    <2> SUFFICES ASSUME NEW j \in Checked(x), NEW o \in DOMAIN disk',
                        o.name.base = x.ids[j].base
                 PROVE  IF x.op = "delete" THEN o.folder = "trash"
                        ELSE o.folder = x.folder \/ x.folder \in Owned!Permitted[o.folder]
        BY DEF Holds
    <2>1. CASE o = q
        BY <1>5, <1>6, <2>1
    <2>2. CASE o # q
        BY <1>2, <1>4, <2>2 DEF Holds
    <2> QED BY <2>1, <2>2
<1>12. OneIInv'
    <2>1. PICK y : Become(r, y) /\ Holds(y, DOMAIN disk') /\ FileInPlace(y, DOMAIN disk')
        BY <1>2, <1>4, <1>11, OneNext DEF At
    <2> QED BY <1>1, <1>8, <2>1, OneGoesOn
<1>13. MailboxStep
    <2>1. CASE x.op = "report"
        <3>1. x.folder \in {"spam", "inbox"}
            BY <1>3, <2>1, AtHand DEF OneIInv, MaildirIInv
        <3> QED BY <1>9, <1>10, <3>1 DEF MailboxStep
    <2>2. CASE x.op = "move"
        <3>1. x.n \in Checked(x)
            BY <1>2, <1>6, <2>2 DEF Checked
        <3>2. p.folder = x.folder \/ x.folder \in Owned!Permitted[p.folder]
            BY <1>2, <1>4, <1>6, <2>2, <3>1 DEF Holds
        <3>3. CASE x.folder \in Owned!Permitted[p.folder]
            BY <1>9, <1>10, <3>3 DEF MailboxStep
        <3>4. CASE p.folder = x.folder
            <4>1. View = [m \in DOMAIN View |-> View[m]]
                BY DEF View, FoldersIn
            <4>2. View' = View
                BY <1>9, <1>10, <3>4, <4>1
            <4> QED BY <4>2 DEF MailboxStep
        <3> QED BY <3>2, <3>3, <3>4
    <2> QED BY <1>6, <2>1, <2>2
<1> QED BY <1>12, <1>13

\* A message is deleted from the trash.
LEMMA OneRemove ==
    ASSUME OneAtATime, OneIInv, NEW r \in Requests, RemoveFile(r)
    PROVE  OneIInv' /\ MailboxStep
<1> DEFINE x == request[r]
           p == x.path
<1>1. MaildirIInv'
    BY RemoveKeepsTypes DEF OneIInv
<1>2. Proper(x) /\ x.pc = "remove" /\ Holds(x, DOMAIN disk)
    BY DEF OneIInv, MaildirIInv, RequestsOK, RemoveFile, At
<1>3. p \in DOMAIN disk /\ DOMAIN disk' = DOMAIN disk \ {p} /\ NextId(r, "locate", Idle)
    BY DEF RemoveFile, Exists
<1>4. p.name.base = x.ids[x.n].base /\ x.n \in 1..Len(x.ids) /\ x.op = "delete"
    BY <1>2 DEF Proper, Acting
<1>5. x.n \in Checked(x)
    BY <1>2, <1>4 DEF Checked
<1>6. p.folder = "trash"
    BY <1>2, <1>3, <1>4, <1>5 DEF Holds
<1>7. SingleIn(DOMAIN disk)
    BY DEF OneIInv
<1>8. PICK D, E : D = DOMAIN disk /\ E = DOMAIN disk'
    OBVIOUS
<1>9. {o.name.base : o \in D \ E} = {p.name.base}
    BY <1>3, <1>8
<1>10. /\ SingleIn(E)
       /\ FoldersIn(E) = [m \in DOMAIN FoldersIn(D) \ {p.name.base} |-> FoldersIn(D)[m]]
    <2>1. E \in SUBSET D /\ SingleIn(D)
        BY <1>3, <1>7, <1>8
    <2>2. PICK g : g = {p.name.base}
        OBVIOUS
    <2>3. GoneBetween(D, E, g)
        BY <1>9, <2>2 DEF GoneBetween
    <2>4. /\ SingleIn(E)
          /\ DOMAIN FoldersIn(E) = DOMAIN FoldersIn(D) \ g
          /\ \A m \in DOMAIN FoldersIn(E) : FoldersIn(E)[m] = FoldersIn(D)[m]
          /\ FoldersIn(E) = [m \in DOMAIN FoldersIn(E) |-> FoldersIn(E)[m]]
        BY <2>1, <2>3, RemovalIsShown
    <2> QED BY <2>2, <2>4
<1>11. p.name.base \in DOMAIN View /\ View[p.name.base] = "trash"
    BY <1>3, <1>6, <1>7, FolderIs DEF View
<1>12. MailboxStep
    BY <1>8, <1>10, <1>11 DEF MailboxStep, View
<1>13. Holds(x, DOMAIN disk')
    BY <1>2, <1>3 DEF Holds
<1>14. OneIInv'
    <2>1. PICK y : Become(r, y) /\ Holds(y, DOMAIN disk') /\ FileInPlace(y, DOMAIN disk')
        BY <1>2, <1>3, <1>13, OneNext DEF At
    <2> QED BY <1>1, <1>8, <1>10, <2>1, OneGoesOn
<1> QED BY <1>12, <1>14

\* A folder is deleted, or webmail is restarted; no mail client is there.
LEMMA OneEnvironment ==
    ASSUME OneAtATime, OneIInv, Environment
    PROVE  OneIInv' /\ MailboxStep
<1>1. MaildirIInv'
    BY EnvironmentKeepsTypes DEF OneIInv
<1>2. CASE Restart
    <2>1. DOMAIN disk' = DOMAIN disk /\ \A r \in Requests : request'[r] = Idle
        BY <1>2 DEF Restart, files
    <2>2. \A r \in Requests : Holds(request[r], DOMAIN disk)' /\ FileInPlace(request[r], DOMAIN disk)'
        BY <2>1, IdleHolds DEF Holds, FileInPlace, Checked, Owned!Permitted
    <2> QED BY <1>1, <2>1, <2>2, SameFilesShown DEF OneIInv, SingleIn
<1>3. CASE DeleteFolder
    <2>1. PICK D, E : D = DOMAIN disk /\ E = DOMAIN disk'
        OBVIOUS
    <2>2. E = {q \in D : q.folder # "custom"} /\ request' = request /\ SingleIn(D)
        BY <1>3, <2>1 DEF DeleteFolder, OneIInv
    <2> DEFINE gone == {n \in DOMAIN FoldersIn(D) : FoldersIn(D)[n] = "custom"}
    <2>3. \A n : n \in gone <=> \E o \in D \ E : o.name.base = n
        <3>1. \A o \in D \ E : o.name.base \in gone
            BY <2>2, FolderIs
        <3>2. \A n \in gone : \E o \in D \ E : o.name.base = n
            BY <2>2, ShownHasFile
        <3> QED BY <3>1, <3>2
    <2>4. /\ SingleIn(E)
          /\ FoldersIn(E) = [m \in DOMAIN FoldersIn(D) \ gone |-> FoldersIn(D)[m]]
        <3>1. E \in SUBSET D
            BY <2>2
        <3>2. PICK g : g = gone
            OBVIOUS
        <3>3. /\ SingleIn(E)
              /\ DOMAIN FoldersIn(E) = DOMAIN FoldersIn(D) \ g
              /\ \A m \in DOMAIN FoldersIn(E) : FoldersIn(E)[m] = FoldersIn(D)[m]
              /\ FoldersIn(E) = [m \in DOMAIN FoldersIn(E) |-> FoldersIn(E)[m]]
            <4>1. GoneBetween(D, E, g)
                BY <2>3, <3>2 DEF GoneBetween
            <4>2. SingleIn(D)
                BY <2>2
            <4> HIDE DEF gone
            <4> QED BY <3>1, <4>1, <4>2, RemovalIsShown
        <3> HIDE DEF gone
        <3> QED BY <3>2, <3>3
    <2>5. MailboxStep
        BY <2>1, <2>4 DEF MailboxStep, View
    <2>6. ASSUME NEW r \in Requests
          PROVE  Holds(request'[r], DOMAIN disk') /\ FileInPlace(request'[r], DOMAIN disk')
        BY <2>1, <2>2 DEF OneIInv, Holds, FileInPlace
    <2>7. \A r \in Requests : Holds(request[r], DOMAIN disk)' /\ FileInPlace(request[r], DOMAIN disk)'
        BY <2>6 DEF Holds, FileInPlace, Checked, Owned!Permitted
    <2> QED BY <1>1, <2>1, <2>4, <2>5, <2>7 DEF OneIInv, SingleIn
<1> QED BY <1>2, <1>3 DEF Environment

LEMMA OneInitHolds == OneAtATime /\ Init => OneIInv
<1> SUFFICES ASSUME Init PROVE OneIInv
    OBVIOUS
<1>1. MaildirIInv
    BY MaildirInitHolds
<1>2. PICK folder \in [Messages -> {"inbox", "sent", "spam"}] :
          DOMAIN disk = {FirstPlace(m, folder[m]) : m \in Messages}
    BY DEF Init
<1>3. \A p \in DOMAIN disk : \E m \in Messages : p = FirstPlace(m, folder[m]) /\ p.name.base = m
    BY <1>2 DEF FirstPlace, Place
<1>4. SingleIn(DOMAIN disk)
    BY <1>3 DEF SingleIn
<1>5. \A r \in Requests : Holds(request[r], DOMAIN disk) /\ FileInPlace(request[r], DOMAIN disk)
    BY IdleHolds DEF Init
<1> QED BY <1>1, <1>4, <1>5 DEF OneIInv

LEMMA OneStepKeeps ==
    ASSUME OneAtATime, OneIInv, [WebmailNext]_vars
    PROVE  OneIInv' /\ MailboxStep
<1>1. ASSUME NEW r \in Requests, Step(r)
      PROVE  OneIInv' /\ MailboxStep
    <2>1. CASE Stop(r)
        <3>1. MaildirIInv' /\ DOMAIN disk' = DOMAIN disk /\ Done(r)
            BY <1>1, <2>1, MaildirStepKeeps DEF OneIInv, Next, WebmailNext, Stop, files
        <3> QED BY <3>1, SameFilesShown, OneDone
    <2> QED BY <1>1, <2>1, OneValidate, OneLocate, OneOpen, OneRewrites, OneMove, OneRemove
               DEF Step
<1>2. CASE UNCHANGED vars
    <2>1. OneIInv'
        BY <1>2 DEF vars, files, OneIInv, MaildirIInv, FilesOK, RequestsOK, RequestRecord, Inodes,
                    SingleIn, Holds, FileInPlace, Checked, Owned!Permitted
    <2> QED BY <1>2, <2>1 DEF vars, files, MailboxStep, View, FoldersIn
<1> QED BY <1>1, <1>2, OneAsk, OneEnvironment DEF WebmailNext

\* What the mailbox shows is the refinement mapping.
LEMMA Mapping ==
    ASSUME FilesOK
    PROVE  ShownIn = View
<1>1. {k \in Messages : CopiesOf(k) # {}} = {p.name.base : p \in DOMAIN disk}
    BY DEF FilesOK, CopiesOf, Places, Names
<1> QED BY <1>1 DEF ShownIn, CopiesOf, FolderOf, View, FoldersIn

LEMMA MappingThen ==
    ASSUME FilesOK'
    PROVE  ShownIn' = View'
<1>1. {k \in Messages : CopiesOf(k) # {}}' = {p.name.base : p \in DOMAIN disk'}
    BY DEF FilesOK, CopiesOf, Places, Names
<1> QED BY <1>1 DEF ShownIn, CopiesOf, FolderOf, View, FoldersIn

\* At first every message is in a folder.
LEMMA ShownAtFirst ==
    ASSUME OneAtATime, Init PROVE View \in [Messages -> Folders]
<1>1. OneIInv
    BY OneInitHolds
<1>2. PICK folder \in [Messages -> {"inbox", "sent", "spam"}] :
          DOMAIN disk = {FirstPlace(m, folder[m]) : m \in Messages}
    BY DEF Init
<1>3. {p.name.base : p \in DOMAIN disk} = Messages
    <2>1. \A m \in Messages : FirstPlace(m, folder[m]).name.base = m
        BY DEF FirstPlace, Place
    <2>2. \A p \in DOMAIN disk : p.name.base \in Messages
        BY <1>2, <2>1
    <2>3. \A m \in Messages : \E p \in DOMAIN disk : p.name.base = m
        BY <1>2, <2>1
    <2> QED BY <2>2, <2>3
<1>4. DOMAIN View = Messages
    BY <1>3 DEF View, FoldersIn
<1>5. ASSUME NEW m \in Messages
      PROVE  View[m] \in Folders
    <2>1. PICK p \in DOMAIN disk : View[m] = p.folder
        BY <1>1, <1>4, ShownHasFile DEF View, OneIInv
    <2>2. p \in Places
        BY <1>1 DEF OneIInv, MaildirIInv, FilesOK
    <2> QED BY <2>1, <2>2 DEF Places
<1>6. View = [m \in DOMAIN View |-> View[m]]
    BY DEF View, FoldersIn
<1> QED BY <1>4, <1>5, <1>6

\* One request at a time, of any kind and for any number of messages, without
\* a mail client, is a Mailbox: every rename and removal is a permitted move
\* or a deletion from the trash of one message, or of the owner's own folder,
\* and everything else, a crash in the middle of rewriting a file included,
\* changes nothing its owner sees.
THEOREM OneRequestIsAMailbox ==
    ASSUME OneAtATime PROVE WebmailSpec => ImplementsMailbox
<1>1. WebmailSpec => []OneIInv
    BY OneInitHolds, OneStepKeeps, PTL DEF WebmailSpec
<1>2. Init => Owned!Init
    <2> SUFFICES ASSUME Init PROVE ShownIn \in [Messages -> Folders]
        BY DEF Owned!Init
    <2>1. ShownIn = View
        BY MaildirInitHolds, Mapping DEF MaildirIInv
    <2> QED BY <2>1, ShownAtFirst
<1>3. OneIInv /\ OneIInv' /\ [WebmailNext]_vars => [Owned!Next]_ShownIn
    <2> SUFFICES ASSUME OneIInv, OneIInv', [WebmailNext]_vars, ~(ShownIn' = ShownIn)
                 PROVE  Owned!Next
        OBVIOUS
    <2>1. MailboxStep
        BY OneStepKeeps
    <2>2. ShownIn = View /\ ShownIn' = View'
        BY Mapping, MappingThen DEF OneIInv, MaildirIInv
    <2> QED BY <2>1, <2>2 DEF MailboxStep, Owned!Next, Owned!Move, Owned!Report, Owned!Delete,
               Owned!DeleteFolder, Owned!Without
<1>4. Owned!Spec <=> Owned!Init /\ [][Owned!Next]_ShownIn
    BY DEF Owned!Spec
<1> QED BY <1>1, <1>2, <1>3, <1>4, PTL DEF WebmailSpec, ImplementsMailbox

-----------------------------------------------------------------------------
(* MailView: the inductive invariant.                                      *)

CallKinds == {"lists", "messages", "read", "move", "delete", "report", "restore", "folder"}

DialogType == [mode : {"hidden", "trash", "permanent"}, named : SUBSET Mails,
               disturbed : BOOLEAN]

CallType == [kind : CallKinds, ids : SUBSET (RowId \cup {Nobody}), to : Pages \cup {"none"},
             back : BOOLEAN, answer : SUBSET RowId, closes : BOOLEAN, aim : DialogType]

\* A message is there under one id.
Single(ids) == \A i, j \in ids : i.mail = j.mail => i = j

\* What a request is about: only a change of the folders is about no message;
\* what is read comes back as the same message; and what a confirmed deletion
\* asks for is what the dialog named.
CallFormed(c) ==
    /\ c.kind # "folder" => c.ids \subseteq RowId
    /\ c.kind \in {"messages", "move", "report", "folder"} => c.to \in Pages
    /\ c.kind = "read" => \E id \in RowId : /\ c.ids = {id}
                                            /\ \A new \in c.answer : new.mail = id.mail
    /\ Single(c.answer)
    /\ c.closes /\ (~IsLoad(c)) /\ ~c.aim.disturbed => NumbersOf(c.ids) \subseteq c.aim.named

Queue(q) == q \in Seq(CallType) /\ \A i \in DOMAIN q : CallFormed(q[i])

\* What is marked or selected is in the list.
ChosenIsListed ==
    Single(messages) /\ marked \subseteq messages /\ selected \in messages \cup {Nobody}

\* The dialog names what confirming it would delete.
DialogNames ==
    dialog.mode # "hidden" /\ ~dialog.disturbed =>
      NumbersOf(ActiveSelectionIDs) \subseteq dialog.named

Awaits(q, kind) == \E i \in DOMAIN q : q[i].kind = kind

\* The last list that was asked for is of this folder.
LastListIs(q, folder) ==
    \E i \in DOMAIN q : /\ q[i].kind = "messages" /\ q[i].to = folder
                        /\ \A j \in DOMAIN q : j > i => q[j].kind # "messages"

\* The list of the open folder is shown, or will come after any other.
ListArrives(q, open, shown) ==
    \/ Awaits(q, "lists")
    \/ LastListIs(q, open)
    \/ ~Awaits(q, "messages") /\ shown = open

MailOf(sel) == IF sel = Nobody THEN Nobody ELSE sel.mail

\* The selected message is shown, or was asked for, or a list will come, with
\* which another is selected.
ReaderArrives(q, sel, shown) ==
    \/ Awaits(q, "lists")
    \/ Awaits(q, "messages")
    \/ shown = MailOf(sel)
    \/ sel # Nobody /\ \E i \in DOMAIN q : q[i].kind = "read" /\ q[i].ids = {sel}

MailViewIInv ==
    /\ MailViewTypeOK
    /\ Queue(calls)
    /\ dialog \in DialogType
    /\ ChosenIsListed
    /\ DialogNames
    /\ ~outrun => ListArrives(calls, openFolder, listed)
    /\ ~outrun /\ ~pointed => ReaderArrives(calls, selected, reader)

-----------------------------------------------------------------------------
(* Numbers and sequences.                                                  *)

\* Numbers have a least one.
LEMMA LeastOf ==
    ASSUME NEW T, T \subseteq Nat, T # {}
    PROVE  \E x \in T : \A y \in T : x <= y
<1>1. \E x \in T : \A y \in T : ~ (<<y, x>> \in OpToRel(<, Nat))
  BY NatLessThanWellFounded, WFMin
<1>2. PICK x \in T : \A y \in T : ~ (<<y, x>> \in OpToRel(<, Nat))
  BY <1>1
<1>3. \A y \in T : x <= y
  <2> TAKE y \in T
  <2>1. x \in Nat /\ y \in Nat
    OBVIOUS
  <2>2. ~ (y < x)
    BY <1>2, <2>1 DEF OpToRel
  <2> QED BY <2>1, <2>2
<1> QED BY <1>3

\* Of rows there is an earliest.
LEMMA EarliestIsOne ==
    ASSUME NEW ids, ids \subseteq RowId, ids # {}
    PROVE  Earliest(ids) \in ids
<1> DEFINE T == {i.mail : i \in ids}
<1>1. T \subseteq Nat /\ T # {}
  BY MailViewAssumptions DEF RowId
<1>2. PICK x \in T : \A y \in T : x <= y
  BY <1>1, LeastOf
<1>3. PICK i \in ids : i.mail = x
  BY <1>2
<1>4. \A j \in ids : i.mail <= j.mail
  BY <1>2, <1>3
<1> QED BY <1>3, <1>4 DEF Earliest

\* A queue without its i-th request.
LEMMA RemoveOne ==
    ASSUME NEW S, NEW q \in Seq(S), NEW i \in DOMAIN q
    PROVE  /\ RemoveAt(q, i) \in Seq(S)
           /\ Len(RemoveAt(q, i)) = Len(q) - 1
           /\ \A j \in 1..(Len(q) - 1) :
                RemoveAt(q, i)[j] = q[IF j < i THEN j ELSE j + 1]
<1> DEFINE a == SubSeq(q, 1, i - 1)
           b == SubSeq(q, i + 1, Len(q))
<1>1. i \in 1..Len(q) /\ Len(q) \in Nat
  OBVIOUS
<1>2. a \in Seq(S) /\ Len(a) = i - 1 /\ \A j \in 1..(i - 1) : a[j] = q[j]
  BY <1>1
<1>3. b \in Seq(S) /\ Len(b) = Len(q) - i /\ \A j \in 1..(Len(q) - i) : b[j] = q[i + j]
  BY <1>1
<1> HIDE DEF a, b
<1>4. a \o b \in Seq(S) /\ Len(a \o b) = Len(q) - 1
  BY <1>1, <1>2, <1>3
<1>5. ASSUME NEW j \in 1..(Len(q) - 1)
      PROVE  (a \o b)[j] = q[IF j < i THEN j ELSE j + 1]
  <2>1. CASE j < i
    BY <2>1, <1>1, <1>2, <1>3
  <2>2. CASE ~ (j < i)
    <3>1. (a \o b)[j] = b[j - (i - 1)]
      BY SMTT(30), <2>2, <1>1, <1>2, <1>3
    <3> QED BY <3>1, <2>2, <1>1, <1>3
  <2> QED BY <2>1, <2>2
<1>6. RemoveAt(q, i) = a \o b
  BY DEF RemoveAt, a, b
<1> QED BY <1>4, <1>5, <1>6

-----------------------------------------------------------------------------
(* Queues of requests.                                                     *)

LEMMA QueueAppend ==
    ASSUME NEW q, Queue(q), NEW c \in CallType, CallFormed(c)
    PROVE  Queue(Append(q, c))
<1>1. q \in Seq(CallType) /\ \A i \in DOMAIN q : CallFormed(q[i])
  BY DEF Queue
<1>2. /\ Append(q, c) \in Seq(CallType)
      /\ Len(Append(q, c)) = Len(q) + 1 /\ Append(q, c)[Len(q) + 1] = c
      /\ \A i \in 1..Len(q) : Append(q, c)[i] = q[i]
  BY <1>1, AppendProperties
<1>3. ASSUME NEW i \in DOMAIN Append(q, c)
      PROVE  CallFormed(Append(q, c)[i])
  <2>1. i \in 1..Len(q) \/ i = Len(q) + 1
    BY <1>1, <1>2
  <2> QED BY <2>1, <1>1, <1>2
<1> QED BY <1>2, <1>3 DEF Queue

LEMMA QueueWithout ==
    ASSUME NEW q, Queue(q), NEW i \in DOMAIN q
    PROVE  Queue(RemoveAt(q, i))
<1>1. q \in Seq(CallType) /\ \A k \in DOMAIN q : CallFormed(q[k])
  BY DEF Queue
<1>2. /\ RemoveAt(q, i) \in Seq(CallType)
      /\ Len(RemoveAt(q, i)) = Len(q) - 1
      /\ \A j \in 1..(Len(q) - 1) :
           RemoveAt(q, i)[j] = q[IF j < i THEN j ELSE j + 1]
  BY <1>1, RemoveOne
<1>3. ASSUME NEW j \in DOMAIN RemoveAt(q, i)
      PROVE  CallFormed(RemoveAt(q, i)[j])
  <2>1. j \in 1..(Len(q) - 1) /\ (IF j < i THEN j ELSE j + 1) \in DOMAIN q
    BY <1>1, <1>2
  <2> QED BY <2>1, <1>1, <1>2
<1> QED BY <1>2, <1>3 DEF Queue

LEMMA QueueExcept ==
    ASSUME NEW q, Queue(q), NEW i \in DOMAIN q, NEW c \in CallType, CallFormed(c)
    PROVE  Queue([q EXCEPT ![i] = c])
<1>1. q \in Seq(CallType) /\ \A k \in DOMAIN q : CallFormed(q[k])
  BY DEF Queue
<1>2. [q EXCEPT ![i] = c] \in Seq(CallType)
  BY <1>1
<1>3. ASSUME NEW j \in DOMAIN [q EXCEPT ![i] = c]
      PROVE  CallFormed([q EXCEPT ![i] = c][j])
  BY <1>1
<1> QED BY <1>2, <1>3 DEF Queue

-----------------------------------------------------------------------------
(* The list that is to come.                                               *)

LEMMA ListAppend ==
    ASSUME NEW q \in Seq(CallType), NEW c \in CallType, NEW open, NEW shown,
           c.kind # "messages", ListArrives(q, open, shown)
    PROVE  ListArrives(Append(q, c), open, shown)
<1> DEFINE r == Append(q, c)
<1>1. /\ r \in Seq(CallType)
      /\ Len(r) = Len(q) + 1 /\ r[Len(q) + 1] = c
      /\ \A i \in 1..Len(q) : r[i] = q[i]
  BY AppendProperties
<1> HIDE DEF r
<1>2. /\ DOMAIN q = 1..Len(q) /\ DOMAIN r = 1..(Len(q) + 1) /\ Len(q) \in Nat
  BY <1>1
<1>3. ASSUME Awaits(q, "lists") PROVE Awaits(r, "lists")
  BY <1>1, <1>2, <1>3 DEF Awaits
<1>4. ASSUME LastListIs(q, open) PROVE LastListIs(r, open)
  <2>1. PICK i \in DOMAIN q : /\ q[i].kind = "messages" /\ q[i].to = open
                              /\ \A j \in DOMAIN q : j > i => q[j].kind # "messages"
    BY <1>4 DEF LastListIs
  <2>2. i \in DOMAIN r /\ r[i].kind = "messages" /\ r[i].to = open
    BY <2>1, <1>1, <1>2
  <2>3. \A j \in DOMAIN r : j > i => r[j].kind # "messages"
    BY <2>1, <1>1, <1>2
  <2> QED BY <2>2, <2>3 DEF LastListIs
<1>5. ASSUME ~Awaits(q, "messages") PROVE ~Awaits(r, "messages")
  BY <1>1, <1>2, <1>5 DEF Awaits
<1>6. ListArrives(r, open, shown)
  BY <1>3, <1>4, <1>5 DEF ListArrives
<1> QED BY <1>6 DEF r

\* Whoever asks for the lists gets them.
LEMMA ListAsked ==
    ASSUME NEW q \in Seq(CallType), NEW c \in CallType, NEW open, NEW shown,
           c.kind = "lists"
    PROVE  ListArrives(Append(q, c), open, shown)
<1>1. Append(q, c)[Len(q) + 1] = c /\ (Len(q) + 1) \in DOMAIN Append(q, c)
  BY AppendProperties
<1> QED BY <1>1 DEF ListArrives, Awaits

LEMMA ListWithout ==
    ASSUME NEW q \in Seq(CallType), NEW i \in DOMAIN q, NEW open, NEW shown,
           q[i].kind # "lists", q[i].kind # "messages", ListArrives(q, open, shown)
    PROVE  ListArrives(RemoveAt(q, i), open, shown)
<1> DEFINE r == RemoveAt(q, i)
<1>1. /\ r \in Seq(CallType) /\ Len(r) = Len(q) - 1
      /\ \A j \in 1..(Len(q) - 1) : r[j] = q[IF j < i THEN j ELSE j + 1]
  BY RemoveOne
<1> HIDE DEF r
<1>2. /\ DOMAIN q = 1..Len(q) /\ DOMAIN r = 1..(Len(q) - 1) /\ Len(q) \in Nat
  BY <1>1
\* Another request k has come to be at place Place(k).
<1> DEFINE Moved(k) == IF k < i THEN k ELSE k - 1
<1>3. ASSUME NEW k \in DOMAIN q, k # i
      PROVE  Moved(k) \in DOMAIN r /\ r[Moved(k)] = q[k]
  BY <1>1, <1>2, <1>3
<1>4. ASSUME NEW j \in DOMAIN r
      PROVE  \E k \in DOMAIN q : k # i /\ r[j] = q[k] /\ j = Moved(k)
  <2> DEFINE k == IF j < i THEN j ELSE j + 1
  <2>1. k \in DOMAIN q /\ k # i /\ r[j] = q[k] /\ j = Moved(k)
    BY <1>1, <1>2
  <2> QED BY <2>1
<1>5. ASSUME Awaits(q, "lists") PROVE Awaits(r, "lists")
  BY <1>3, <1>5 DEF Awaits
<1>6. ASSUME LastListIs(q, open) PROVE LastListIs(r, open)
  <2>1. PICK k \in DOMAIN q : /\ q[k].kind = "messages" /\ q[k].to = open
                              /\ \A j \in DOMAIN q : j > k => q[j].kind # "messages"
    BY <1>6 DEF LastListIs
  <2>2. k # i
    BY <2>1
  <2>3. Moved(k) \in DOMAIN r /\ r[Moved(k)] = q[k]
    BY <2>2, <1>3
  <2>4. ASSUME NEW j \in DOMAIN r, j > Moved(k)
        PROVE  r[j].kind # "messages"
    <3>1. PICK l \in DOMAIN q : l # i /\ r[j] = q[l] /\ j = Moved(l)
      BY <1>4
    <3>2. l > k
      BY <3>1, <2>2, <2>4, <1>2
    <3> QED BY <3>1, <3>2, <2>1
  <2> QED BY <2>1, <2>3, <2>4 DEF LastListIs
<1>7. ASSUME ~Awaits(q, "messages") PROVE ~Awaits(r, "messages")
  BY <1>4, <1>7 DEF Awaits
<1>8. ListArrives(r, open, shown)
  BY <1>5, <1>6, <1>7 DEF ListArrives
<1> QED BY <1>8 DEF r

LEMMA ListExcept ==
    ASSUME NEW q \in Seq(CallType), NEW i \in DOMAIN q, NEW c \in CallType,
           NEW open, NEW shown, c.kind = q[i].kind, c.to = q[i].to,
           ListArrives(q, open, shown)
    PROVE  ListArrives([q EXCEPT ![i] = c], open, shown)
<1> DEFINE r == [q EXCEPT ![i] = c]
<1>1. DOMAIN r = DOMAIN q /\ \A j \in DOMAIN q : r[j].kind = q[j].kind /\ r[j].to = q[j].to
  OBVIOUS
<1> HIDE DEF r
<1>2. ListArrives(r, open, shown)
  BY <1>1 DEF ListArrives, LastListIs, Awaits
<1> QED BY <1>2 DEF r

\* A list that has come when none is asked for before it.
LEMMA ListTaken ==
    ASSUME NEW q \in Seq(CallType), NEW i \in DOMAIN q, NEW open, NEW shown,
           q[i].kind = "messages", \A j \in 1..(i - 1) : q[j].kind # "messages",
           ListArrives(q, open, shown)
    PROVE  ListArrives(RemoveAt(q, i), open, q[i].to)
<1> DEFINE r == RemoveAt(q, i)
<1>1. /\ r \in Seq(CallType) /\ Len(r) = Len(q) - 1
      /\ \A j \in 1..(Len(q) - 1) : r[j] = q[IF j < i THEN j ELSE j + 1]
  BY RemoveOne
<1> HIDE DEF r
<1>2. /\ DOMAIN q = 1..Len(q) /\ DOMAIN r = 1..(Len(q) - 1) /\ Len(q) \in Nat
  BY <1>1
<1> DEFINE Moved(k) == IF k < i THEN k ELSE k - 1
<1>3. ASSUME NEW k \in DOMAIN q, k # i
      PROVE  Moved(k) \in DOMAIN r /\ r[Moved(k)] = q[k]
  BY SMTT(30), <1>1, <1>2, <1>3
<1>4. ASSUME NEW j \in DOMAIN r
      PROVE  \E k \in DOMAIN q : k # i /\ r[j] = q[k] /\ j = Moved(k)
  <2> DEFINE k == IF j < i THEN j ELSE j + 1
  <2>1. k \in DOMAIN q /\ k # i /\ r[j] = q[k] /\ j = Moved(k)
    BY <1>1, <1>2
  <2> QED BY <2>1
<1>5. CASE Awaits(q, "lists")
  <2>1. Awaits(r, "lists")
    BY <1>3, <1>5 DEF Awaits
  <2> QED BY <2>1 DEF ListArrives, r
<1>6. CASE LastListIs(q, open)
  <2>1. PICK k \in DOMAIN q : /\ q[k].kind = "messages" /\ q[k].to = open
                              /\ \A j \in DOMAIN q : j > k => q[j].kind # "messages"
    BY <1>6 DEF LastListIs
  <2>2. CASE k = i
    <3>1. ASSUME NEW j \in DOMAIN r
          PROVE  r[j].kind # "messages"
      <4>1. PICK l \in DOMAIN q : l # i /\ r[j] = q[l]
        BY <1>4
      <4>2. l \in 1..(i - 1) \/ l > k
        BY <4>1, <2>2, <1>2
      <4> QED BY <4>1, <4>2, <2>1
    <3>2. q[i].to = open
      BY <2>1, <2>2
    <3> QED BY <3>1, <3>2 DEF ListArrives, Awaits, r
  <2>3. CASE k # i
    <3>1. Moved(k) \in DOMAIN r /\ r[Moved(k)] = q[k]
      BY <2>3, <1>3
    <3>2. ASSUME NEW j \in DOMAIN r, j > Moved(k)
          PROVE  r[j].kind # "messages"
      <4>1. PICK l \in DOMAIN q : l # i /\ r[j] = q[l] /\ j = Moved(l)
        BY <1>4
      <4>2. l > k
        BY <4>1, <2>3, <3>2, <1>2
      <4> QED BY <4>1, <4>2, <2>1
    <3>3. LastListIs(r, open)
      BY <2>1, <3>1, <3>2 DEF LastListIs
    <3> QED BY <3>3 DEF ListArrives, r
  <2> QED BY <2>2, <2>3
<1>7. ~(~Awaits(q, "messages") /\ shown = open)
  BY DEF Awaits
<1> QED BY <1>5, <1>6, <1>7 DEF ListArrives

\* The request of a list, once it names the open folder, is the last.
LEMMA ListNamed ==
    ASSUME NEW q \in Seq(CallType), NEW c \in CallType, NEW open, NEW shown,
           c.kind = "messages", c.to = open
    PROVE  ListArrives(Append(q, c), open, shown)
<1>1. Len(Append(q, c)) = Len(q) + 1 /\ Append(q, c)[Len(q) + 1] = c
  BY AppendProperties
<1>2. DOMAIN Append(q, c) = 1..(Len(q) + 1) /\ Len(q) \in Nat
  BY AppendProperties
<1>3. LastListIs(Append(q, c), open)
  BY <1>1, <1>2 DEF LastListIs
<1> QED BY <1>3 DEF ListArrives

-----------------------------------------------------------------------------
(* The message that is to be shown.                                        *)

LEMMA ReaderAppend ==
    ASSUME NEW q \in Seq(CallType), NEW c \in CallType, NEW sel, NEW shown,
           ReaderArrives(q, sel, shown)
    PROVE  ReaderArrives(Append(q, c), sel, shown)
<1>1. Len(Append(q, c)) = Len(q) + 1 /\ \A i \in 1..Len(q) : Append(q, c)[i] = q[i]
  BY AppendProperties
<1>2. \A i \in DOMAIN q : i \in DOMAIN Append(q, c) /\ Append(q, c)[i] = q[i]
  BY <1>1, AppendProperties
<1> QED BY <1>2 DEF ReaderArrives, Awaits

\* A list was asked for.
LEMMA ReaderAsked ==
    ASSUME NEW q \in Seq(CallType), NEW c \in CallType, NEW sel, NEW shown, IsLoad(c)
    PROVE  ReaderArrives(Append(q, c), sel, shown)
<1>1. Append(q, c)[Len(q) + 1] = c /\ (Len(q) + 1) \in DOMAIN Append(q, c)
  BY AppendProperties
<1>2. c.kind = "lists" \/ c.kind = "messages"
  BY DEF IsLoad
<1> QED BY <1>1, <1>2 DEF ReaderArrives, Awaits

LEMMA ReaderWithout ==
    ASSUME NEW q \in Seq(CallType), NEW i \in DOMAIN q, NEW sel, NEW shown,
           q[i].kind # "lists", q[i].kind # "messages",
           q[i].kind = "read" => q[i].ids # {sel},
           ReaderArrives(q, sel, shown)
    PROVE  ReaderArrives(RemoveAt(q, i), sel, shown)
<1> DEFINE r == RemoveAt(q, i)
<1>1. /\ r \in Seq(CallType) /\ Len(r) = Len(q) - 1
      /\ \A j \in 1..(Len(q) - 1) : r[j] = q[IF j < i THEN j ELSE j + 1]
  BY RemoveOne
<1> HIDE DEF r
<1>0. DOMAIN q = 1..Len(q) /\ DOMAIN r = 1..(Len(q) - 1) /\ Len(q) \in Nat
  BY <1>1
<1>2. ASSUME NEW k \in DOMAIN q, k # i
      PROVE  \E j \in DOMAIN r : r[j] = q[k]
  <2>1. (IF k < i THEN k ELSE k - 1) \in DOMAIN r /\ r[IF k < i THEN k ELSE k - 1] = q[k]
    BY <1>0, <1>1, <1>2
  <2> QED BY <2>1
<1>3. ASSUME Awaits(q, "lists") PROVE Awaits(r, "lists")
  BY <1>2, <1>3 DEF Awaits
<1>4. ASSUME Awaits(q, "messages") PROVE Awaits(r, "messages")
  BY <1>2, <1>4 DEF Awaits
<1>5. ASSUME NEW k \in DOMAIN q, q[k].kind = "read", q[k].ids = {sel}
      PROVE  \E j \in DOMAIN r : r[j].kind = "read" /\ r[j].ids = {sel}
  BY <1>2, <1>5
<1>6. ReaderArrives(r, sel, shown)
  BY <1>3, <1>4, <1>5 DEF ReaderArrives
<1> QED BY <1>6 DEF r

LEMMA ReaderExcept ==
    ASSUME NEW q \in Seq(CallType), NEW i \in DOMAIN q, NEW c \in CallType,
           NEW sel, NEW shown, c.kind = q[i].kind, q[i].kind = "read" => c.ids = q[i].ids,
           ReaderArrives(q, sel, shown)
    PROVE  ReaderArrives([q EXCEPT ![i] = c], sel, shown)
<1> DEFINE r == [q EXCEPT ![i] = c]
<1>1. /\ DOMAIN r = DOMAIN q
      /\ \A j \in DOMAIN q : r[j] = IF j = i THEN c ELSE q[j]
  OBVIOUS
<1> HIDE DEF r
<1>2. ReaderArrives(r, sel, shown)
  BY <1>1 DEF ReaderArrives, Awaits
<1> QED BY <1>2 DEF r

-----------------------------------------------------------------------------
(* The requests the page sends.                                            *)

LEMMA NoDialogTypes == NoDialog \in DialogType
BY DEF NoDialog, DialogType

LEMMA ReadCall ==
    ASSUME NEW id \in RowId
    PROVE  Read(id) \in CallType /\ CallFormed(Read(id)) /\ Read(id).kind = "read"
             /\ Read(id).ids = {id}
<1>1. Read(id) = [kind |-> "read", ids |-> {id}, to |-> "none", back |-> FALSE,
                  answer |-> {}, closes |-> FALSE, aim |-> NoDialog]
  BY DEF Read, NewCall
<1>2. Read(id) \in CallType
  BY <1>1, NoDialogTypes DEF CallType, CallKinds
<1> QED BY <1>1, <1>2 DEF CallFormed, Single

LEMMA LoadCall ==
    ASSUME NEW b \in BOOLEAN
    PROVE  /\ [Load EXCEPT !.closes = b] \in CallType
           /\ CallFormed([Load EXCEPT !.closes = b])
           /\ [Load EXCEPT !.closes = b].kind = "lists"
<1>1. Load = [kind |-> "lists", ids |-> {}, to |-> "none", back |-> FALSE,
              answer |-> {}, closes |-> FALSE, aim |-> NoDialog]
  BY DEF Load, NewCall
<1>2. Load \in CallType
  BY <1>1, NoDialogTypes DEF CallType, CallKinds
<1> DEFINE c == [Load EXCEPT !.closes = b]
<1>3. c \in CallType
  BY <1>2 DEF CallType
<1>4. c.kind = Load.kind /\ c.answer = Load.answer /\ c.ids = Load.ids
  BY <1>2 DEF CallType
<1>5. Load.kind = "lists" /\ Load.answer = {} /\ Load.ids = {}
  BY <1>1
<1> HIDE DEF c
<1>6. CallFormed(c)
  BY <1>4, <1>5 DEF CallFormed, Single, IsLoad
<1> QED BY <1>3, <1>4, <1>5, <1>6 DEF c

LEMMA FirstLoadCall == Load \in CallType /\ CallFormed(Load) /\ Load.kind = "lists"
<1>1. Load = [kind |-> "lists", ids |-> {}, to |-> "none", back |-> FALSE,
              answer |-> {}, closes |-> FALSE, aim |-> NoDialog]
  BY DEF Load, NewCall
<1>2. Load \in CallType
  BY <1>1, NoDialogTypes DEF CallType, CallKinds
<1>3. CallFormed(Load)
  BY <1>1 DEF CallFormed, Single
<1> QED BY <1>1, <1>2, <1>3

LEMMA ChangeCall ==
    ASSUME NEW kind \in {"move", "delete", "report", "restore", "folder"},
           NEW ids \in SUBSET (RowId \cup {Nobody}), kind # "folder" => ids \subseteq RowId,
           NEW to \in Pages \cup {"none"},
           kind \in {"move", "report", "folder"} => to \in Pages
    PROVE  /\ NewCall(kind, ids, to) \in CallType
           /\ CallFormed(NewCall(kind, ids, to))
           /\ NewCall(kind, ids, to).kind = kind
<1>1. NewCall(kind, ids, to) =
        [kind |-> kind, ids |-> ids, to |-> to, back |-> FALSE,
         answer |-> {}, closes |-> FALSE, aim |-> NoDialog]
  BY DEF NewCall
<1>2. NewCall(kind, ids, to) \in CallType
  BY <1>1, NoDialogTypes DEF CallType, CallKinds
<1>3. CallFormed(NewCall(kind, ids, to))
  BY <1>1 DEF CallFormed, Single
<1> QED BY <1>1, <1>2, <1>3

-----------------------------------------------------------------------------
(* Steps of one kind.                                                      *)

LEMMA Undisturbed ==
    ASSUME DialogNames, ChosenIsListed, UNCHANGED <<listing, choice, dialog>>
    PROVE  DialogNames' /\ ChosenIsListed'
BY DEF DialogNames, ChosenIsListed, listing, choice, ActiveSelectionIDs, Visible, Filtered,
       NumbersOf, Single

\* One more request is sent.
LEMMA RequestSent ==
    ASSUME MailViewIInv, MailViewTypeOK', NEW c \in CallType, CallFormed(c),
           c.kind # "messages", calls' = Append(calls, c),
           UNCHANGED <<listing, choice, dialog, reader, outrun, pointed>>
    PROVE  MailViewIInv'
<1>1. Queue(calls) /\ calls \in Seq(CallType)
  BY DEF MailViewIInv, Queue
<1>2. Queue(calls')
  BY <1>1, QueueAppend
<1>3. DialogNames' /\ ChosenIsListed' /\ dialog' \in DialogType
  BY Undisturbed DEF MailViewIInv
<1>4. ASSUME ~outrun'
      PROVE  ListArrives(calls', openFolder', listed')
  <2>1. ListArrives(calls, openFolder, listed)
    BY <1>4 DEF MailViewIInv
  <2> QED BY <2>1, <1>1, ListAppend DEF listing
<1>5. ASSUME ~outrun', ~pointed'
      PROVE  ReaderArrives(calls', selected', reader')
  <2>1. ReaderArrives(calls, selected, reader)
    BY <1>5 DEF MailViewIInv
  <2> QED BY <2>1, <1>1, ReaderAppend DEF choice
<1> QED BY <1>2, <1>3, <1>4, <1>5 DEF MailViewIInv, Queue

\* The server has dealt with a request.
LEMMA RequestServed ==
    ASSUME MailViewIInv, MailViewTypeOK', NEW i \in DOMAIN calls, NEW c \in CallType,
           CallFormed(c), c.kind = calls[i].kind, c.to = calls[i].to,
           calls[i].kind = "read" => c.ids = calls[i].ids,
           calls' = [calls EXCEPT ![i] = c],
           UNCHANGED <<listing, choice, dialog, reader, outrun, pointed>>
    PROVE  MailViewIInv'
<1>1. Queue(calls) /\ calls \in Seq(CallType)
  BY DEF MailViewIInv, Queue
<1>2. Queue(calls')
  BY <1>1, QueueExcept
<1>3. DialogNames' /\ ChosenIsListed' /\ dialog' \in DialogType
  BY Undisturbed DEF MailViewIInv
<1>4. ASSUME ~outrun'
      PROVE  ListArrives(calls', openFolder', listed')
  <2>1. ListArrives(calls, openFolder, listed)
    BY <1>4 DEF MailViewIInv
  <2> QED BY <2>1, <1>1, ListExcept DEF listing
<1>5. ASSUME ~outrun', ~pointed'
      PROVE  ReaderArrives(calls', selected', reader')
  <2>1. ReaderArrives(calls, selected, reader)
    BY <1>5 DEF MailViewIInv
  <2> QED BY <2>1, <1>1, ReaderExcept DEF choice
<1> QED BY <1>2, <1>3, <1>4, <1>5 DEF MailViewIInv, Queue

\* The page is drawn: the message it selects is shown or asked for.
LEMMA PageRendered ==
    ASSUME NEW q, Queue(q), NEW sel \in RowId \cup {Nobody}, Render(q, sel),
           reader \in Mails \cup {Nobody}
    PROVE  /\ Queue(calls')
           /\ selected' = sel /\ pointed' = FALSE
           /\ reader' \in Mails \cup {Nobody}
           /\ ReaderArrives(calls', selected', reader')
           /\ \A open, shown : ListArrives(q, open, shown) => ListArrives(calls', open, shown)
<1>1. CASE sel = Nobody
  <2>1. calls' = q /\ reader' = Nobody /\ selected' = Nobody /\ pointed' = FALSE
    BY <1>1 DEF Render
  <2>2. ReaderArrives(calls', selected', reader')
    BY <2>1 DEF ReaderArrives, MailOf
  <2> QED BY <2>1, <2>2, <1>1
<1>2. CASE sel # Nobody
  <2>1. calls' = Append(q, Read(sel)) /\ reader' = reader /\ selected' = sel /\ pointed' = FALSE
    BY <1>2 DEF Render
  <2>2. /\ Read(sel) \in CallType /\ CallFormed(Read(sel)) /\ Read(sel).kind = "read"
        /\ Read(sel).ids = {sel}
    BY <1>2, ReadCall
  <2>3. Queue(calls')
    BY <2>1, <2>2, QueueAppend
  <2>4. q \in Seq(CallType)
    BY DEF Queue
  <2>5. calls'[Len(q) + 1] = Read(sel) /\ (Len(q) + 1) \in DOMAIN calls'
    BY <2>1, <2>2, <2>4, AppendProperties
  <2>6. ReaderArrives(calls', selected', reader')
    BY <2>1, <2>2, <2>5, <1>2 DEF ReaderArrives
  <2>7. ASSUME NEW open, NEW shown, ListArrives(q, open, shown)
        PROVE  ListArrives(calls', open, shown)
    BY <2>1, <2>2, <2>4, <2>7, ListAppend
  <2> QED BY <2>1, <2>3, <2>6, <2>7
<1> QED BY <1>1, <1>2

\* A dialog is disturbed.
LEMMA PageDisturbed ==
    ASSUME dialog \in DialogType, Disturb
    PROVE  dialog' \in DialogType /\ (dialog'.mode # "hidden" => dialog'.disturbed)
BY DEF Disturb, DialogType

\* A click or a key chooses among the rows.
LEMMA RowsChosen ==
    ASSUME MailViewIInv, NEW sel \in messages \cup {Nobody}, NEW ids \in SUBSET messages,
           NEW from \in RowId \cup {Nobody}, Choose(calls, sel, ids, from), Act, Disturb,
           UNCHANGED <<onServer, openFolder, listed, messages, dragging, outrun>>
    PROVE  MailViewIInv'
<1>1. messages \subseteq RowId /\ acts' \in 0..MaxActs
  BY MailViewAssumptions DEF MailViewIInv, MailViewTypeOK, Act
<1>2. /\ Queue(calls')
      /\ selected' = sel /\ pointed' = FALSE
      /\ reader' \in Mails \cup {Nobody}
      /\ ReaderArrives(calls', selected', reader')
      /\ \A open, shown : ListArrives(calls, open, shown) => ListArrives(calls', open, shown)
  BY <1>1, PageRendered DEF Choose, MailViewIInv, MailViewTypeOK
<1>3. marked' = ids /\ anchor' = from
  BY DEF Choose
<1>4. dialog' \in DialogType /\ DialogNames'
  BY PageDisturbed DEF DialogNames, MailViewIInv
<1>5. MailViewTypeOK'
  BY <1>1, <1>2, <1>3 DEF MailViewIInv, MailViewTypeOK, onServer
<1>6. ChosenIsListed'
  BY <1>2, <1>3 DEF MailViewIInv, ChosenIsListed
<1>7. ~outrun' => ListArrives(calls', openFolder', listed')
  BY <1>2 DEF MailViewIInv
<1> QED BY <1>2, <1>4, <1>5, <1>6, <1>7 DEF MailViewIInv

-----------------------------------------------------------------------------
(* Rows.                                                                   *)

\* A bounded set of numbers has a greatest one.
LEMMA GreatestNumber ==
    ASSUME NEW T, T \subseteq Nat, T # {}, NEW n \in Nat, \A x \in T : x < n
    PROVE  \E x \in T : \A y \in T : y <= x
<1> DEFINE S == {n - x : x \in T}
<1>1. \A x \in T : n - x \in Nat
  OBVIOUS
<1>6. S \subseteq Nat /\ S # {}
  BY <1>1
<1>2. PICK s \in S : \A t \in S : s <= t
  BY <1>6, LeastOf
<1>3. PICK x \in T : s = n - x
  BY <1>2
<1>4. \A y \in T : n - x <= n - y
  BY <1>2, <1>3
<1>5. \A y \in T : y <= x
  BY <1>3, <1>4
<1> QED BY <1>3, <1>5

LEMMA VisibleIsListed == Visible \subseteq messages
BY DEF Visible, Filtered

LEMMA NeighbourIsShown ==
    ASSUME messages \subseteq RowId, Visible # {}, NEW down \in BOOLEAN
    PROVE  Neighbour(down) \in Visible
<1> DEFINE at == IF selected \in Visible THEN selected ELSE Earliest(Visible)
           beyond == {i \in Visible : IF down THEN i.mail > at.mail ELSE i.mail < at.mail}
<1>1. Visible \subseteq RowId
  BY VisibleIsListed
<1>2. at \in Visible
  BY <1>1, EarliestIsOne
<1>3. Neighbour(down) = IF beyond = {} THEN at
                        ELSE CHOOSE i \in beyond : \A j \in beyond :
                               IF down THEN i.mail <= j.mail ELSE i.mail >= j.mail
  BY DEF Neighbour
<1>4. \A i \in Visible : i.mail \in Nat
  BY <1>1, MailViewAssumptions DEF RowId
<1>5. beyond \subseteq Visible /\ \A i \in beyond : ~down => i.mail < at.mail
  OBVIOUS
<1> HIDE DEF at, beyond
<1>6. CASE beyond = {}
  BY <1>2, <1>3, <1>6
<1>7. CASE beyond # {}
  <2> DEFINE T == {i.mail : i \in beyond}
  <2>1. T \subseteq Nat /\ T # {}
    BY <1>4, <1>5, <1>7
  <2>2. \E i \in beyond : \A j \in beyond :
          IF down THEN i.mail <= j.mail ELSE i.mail >= j.mail
    <3>1. CASE down
      <4>1. PICK x \in T : \A y \in T : x <= y
        BY <2>1, LeastOf
      <4>2. PICK i \in beyond : i.mail = x
        BY <4>1
      <4>3. \A j \in beyond : i.mail <= j.mail
        BY <4>1, <4>2
      <4> QED BY <4>3, <3>1
    <3>2. CASE ~down
      <4>0. \A x \in T : x < at.mail
        BY <1>5, <3>2
      <4>1. PICK x \in T : \A y \in T : y <= x
        BY <2>1, <4>0, <1>2, <1>4, GreatestNumber
      <4>2. PICK i \in beyond : i.mail = x
        BY <4>1
      <4>3. \A j \in beyond : j.mail <= i.mail
        BY <4>1, <4>2
      <4>4. \A j \in beyond : i.mail >= j.mail
        BY <4>3, <1>4, <1>5
      <4> QED BY <4>4, <3>2
    <3> QED BY <3>1, <3>2
  <2>3. Neighbour(down) \in beyond
    BY <1>3, <1>7, <2>2
  <2> QED BY <2>3, <1>5
<1> QED BY <1>6, <1>7

LEMMA RangeIsShown ==
    ASSUME NEW id
    PROVE  RangeTo(id) \subseteq Visible
BY DEF RangeTo

-----------------------------------------------------------------------------
(* Clicks and keys.                                                        *)

LEMMA ClickKeeps ==
    ASSUME MailViewIInv, NEW id \in Visible, Click(id)
    PROVE  MailViewIInv'
<1>1. id \in messages /\ id \in RowId
  BY VisibleIsListed DEF MailViewIInv, MailViewTypeOK
<1>2. id \in messages \cup {Nobody} /\ {id} \in SUBSET messages /\ id \in RowId \cup {Nobody}
  BY <1>1
<1>3. /\ Choose(calls, id, {id}, id) /\ Act /\ Disturb
      /\ UNCHANGED <<onServer, openFolder, listed, messages, dragging, outrun>>
  BY DEF Click, listing
<1> QED BY <1>2, <1>3, RowsChosen

LEMMA CtrlClickKeeps ==
    ASSUME MailViewIInv, NEW id \in Visible, CtrlClick(id)
    PROVE  MailViewIInv'
<1> DEFINE ids == IF id \in marked THEN marked \ {id} ELSE marked \cup {id}
<1>1. id \in messages /\ id \in RowId
  BY VisibleIsListed DEF MailViewIInv, MailViewTypeOK
<1>2. id \in messages \cup {Nobody} /\ ids \in SUBSET messages /\ id \in RowId \cup {Nobody}
  BY <1>1 DEF MailViewIInv, ChosenIsListed
<1>3. /\ Choose(calls, id, ids, id) /\ Act /\ Disturb
      /\ UNCHANGED <<onServer, openFolder, listed, messages, dragging, outrun>>
  BY DEF CtrlClick, listing
<1> QED BY <1>2, <1>3, RowsChosen

LEMMA ShiftClickKeeps ==
    ASSUME MailViewIInv, NEW id \in Visible, ShiftClick(id)
    PROVE  MailViewIInv'
<1>1. id \in messages \cup {Nobody} /\ RangeTo(id) \in SUBSET messages
  BY VisibleIsListed, RangeIsShown
<1>2. anchor \in RowId \cup {Nobody}
  BY DEF MailViewIInv, MailViewTypeOK
<1>3. /\ Choose(calls, id, RangeTo(id), anchor) /\ Act /\ Disturb
      /\ UNCHANGED <<onServer, openFolder, listed, messages, dragging, outrun>>
  BY DEF ShiftClick, listing
<1> QED BY <1>1, <1>2, <1>3, RowsChosen

LEMMA ArrowKeyKeeps ==
    ASSUME MailViewIInv, NEW down \in BOOLEAN, NEW extend \in BOOLEAN, ArrowKey(down, extend)
    PROVE  MailViewIInv'
<1> DEFINE next == Neighbour(down)
           from == IF anchor = Nobody
                   THEN IF selected = Nobody THEN Earliest(Visible) ELSE selected
                   ELSE anchor
<1>1. messages \subseteq RowId /\ Visible # {}
  BY DEF MailViewIInv, MailViewTypeOK, ArrowKey
<1>2. next \in Visible /\ Visible \subseteq RowId
  BY <1>1, NeighbourIsShown, VisibleIsListed
<1>3. from \in RowId \cup {Nobody}
  BY <1>1, <1>2, EarliestIsOne DEF MailViewIInv, MailViewTypeOK
<1>4. /\ next \in messages \cup {Nobody} /\ {next} \in SUBSET messages
      /\ RangeTo(next) \in SUBSET messages /\ next \in RowId \cup {Nobody}
  BY <1>2, VisibleIsListed, RangeIsShown
<1>5. /\ \/ Choose(calls, next, RangeTo(next), from)
         \/ Choose(calls, next, {next}, next)
      /\ Act /\ Disturb
      /\ UNCHANGED <<onServer, openFolder, listed, messages, dragging, outrun>>
  BY DEF ArrowKey, listing
<1> HIDE DEF next, from
<1> QED BY <1>3, <1>4, <1>5, RowsChosen

LEMMA ChooseTabKeeps ==
    ASSUME MailViewIInv, NEW name, ChooseTab(name)
    PROVE  MailViewIInv'
<1> DEFINE shown == Filtered(messages, name)
           first == IF shown = {} THEN Nobody ELSE Earliest(shown)
<1>1. messages \subseteq RowId /\ shown \subseteq messages
  BY DEF MailViewIInv, MailViewTypeOK, Filtered
<1>2. first \in messages \cup {Nobody}
  BY <1>1, EarliestIsOne
<1>3. /\ Choose(calls, first, {first} \ {Nobody}, first)
      /\ Act /\ Disturb
      /\ UNCHANGED <<onServer, openFolder, listed, messages, dragging, outrun>>
  BY DEF ChooseTab
<1> HIDE DEF first
<1>4. {first} \ {Nobody} \in SUBSET messages /\ first \in RowId \cup {Nobody}
  BY <1>1, <1>2
<1> QED BY <1>2, <1>3, <1>4, RowsChosen

LEMMA OpenMessageContextMenuKeeps ==
    ASSUME MailViewIInv, NEW id \in Visible, OpenMessageContextMenu(id)
    PROVE  MailViewIInv'
<1>1. id \in messages /\ id \in RowId
  BY VisibleIsListed DEF MailViewIInv, MailViewTypeOK
<1>2. /\ Act /\ Disturb /\ selected' = id /\ marked' = {id} /\ anchor' = id /\ pointed' = TRUE
      /\ UNCHANGED <<onServer, listing, dragging, reader, calls, outrun>>
  BY DEF OpenMessageContextMenu
<1>3. acts' \in 0..MaxActs
  BY <1>2, MailViewAssumptions DEF MailViewIInv, MailViewTypeOK, Act
<1>4. MailViewTypeOK'
  BY <1>1, <1>2, <1>3 DEF MailViewIInv, MailViewTypeOK, onServer, listing
<1>5. dialog' \in DialogType /\ DialogNames'
  BY <1>2, PageDisturbed DEF DialogNames, MailViewIInv
<1>6. ChosenIsListed'
  BY <1>1, <1>2 DEF MailViewIInv, ChosenIsListed, listing, Single
<1>7. Queue(calls')
  BY <1>2 DEF MailViewIInv
<1>8. ~outrun' => ListArrives(calls', openFolder', listed')
  BY <1>2 DEF MailViewIInv, listing
<1> QED BY <1>2, <1>4, <1>5, <1>6, <1>7, <1>8 DEF MailViewIInv

-----------------------------------------------------------------------------
(* The list.                                                               *)

\* What the types say of the parts of the state that only sending changes.
LEMMA ActTypes ==
    ASSUME MailViewIInv, acts' = acts \/ Act, UNCHANGED <<onServer, listing, choice, dragging, reader>>
    PROVE  MailViewTypeOK'
<1>1. acts' \in 0..MaxActs
  BY MailViewAssumptions DEF MailViewIInv, MailViewTypeOK, Act
<1> QED BY <1>1 DEF MailViewIInv, MailViewTypeOK, onServer, listing, choice

LEMMA OpenFolderKeeps ==
    ASSUME MailViewIInv, NEW f \in Pages, OpenFolder(f)
    PROVE  MailViewIInv'
<1>1. /\ Act /\ Disturb /\ openFolder' = f /\ selected' = Nobody /\ marked' = {}
      /\ anchor' = Nobody /\ calls' = Append(calls, Load)
      /\ UNCHANGED <<onServer, listed, messages, tab, dragging, reader, outrun, pointed>>
  BY DEF OpenFolder
<1>2. acts' \in 0..MaxActs
  BY <1>1, MailViewAssumptions DEF MailViewIInv, MailViewTypeOK, Act
<1>3. MailViewTypeOK'
  BY <1>1, <1>2 DEF MailViewIInv, MailViewTypeOK, onServer
<1>4. dialog' \in DialogType /\ DialogNames'
  BY <1>1, PageDisturbed DEF DialogNames, MailViewIInv
<1>5. ChosenIsListed'
  BY <1>1 DEF MailViewIInv, ChosenIsListed
<1>6. calls \in Seq(CallType) /\ Queue(calls)
  BY DEF MailViewIInv, Queue
<1>7. Load \in CallType /\ CallFormed(Load) /\ Load.kind = "lists" /\ IsLoad(Load)
  BY FirstLoadCall DEF IsLoad
<1>8. Queue(calls')
  BY <1>1, <1>6, <1>7, QueueAppend
<1>9. ListArrives(calls', openFolder', listed')
  BY <1>1, <1>6, <1>7, ListAsked
<1>10. ReaderArrives(calls', selected', reader')
  BY <1>1, <1>6, <1>7, ReaderAsked
<1> QED BY <1>3, <1>4, <1>5, <1>8, <1>9, <1>10 DEF MailViewIInv

LEMMA RefreshKeeps ==
    ASSUME MailViewIInv, Refresh
    PROVE  MailViewIInv'
<1>1. /\ Act /\ calls' = Append(calls, Load)
      /\ UNCHANGED <<onServer, listing, choice, dragging, dialog, reader, outrun, pointed>>
  BY DEF Refresh
<1>2. MailViewTypeOK'
  BY <1>1, ActTypes
<1>3. Load \in CallType /\ CallFormed(Load) /\ Load.kind # "messages"
  BY FirstLoadCall
<1>4. UNCHANGED <<listing, choice, dialog, reader, outrun, pointed>>
  BY <1>1
<1> QED BY <1>1, <1>2, <1>3, <1>4, RequestSent

LEMMA LoadFoldersKeeps ==
    ASSUME MailViewIInv, NEW i \in DOMAIN calls, LoadFolders(i)
    PROVE  MailViewIInv'
<1> DEFINE c == [calls[i] EXCEPT !.kind = "messages", !.to = openFolder]
<1>1. /\ calls[i].kind = "lists" /\ calls' = Append(RemoveAt(calls, i), c)
      /\ UNCHANGED <<onServer, listing, choice, dragging, dialog, reader, outrun, pointed, acts>>
  BY DEF LoadFolders, Without
<1>2. calls \in Seq(CallType) /\ Queue(calls) /\ calls[i] \in CallType /\ CallFormed(calls[i])
  BY DEF MailViewIInv, Queue
<1>3. openFolder \in Pages
  BY DEF MailViewIInv, MailViewTypeOK
<1>4. c \in CallType
  BY <1>2, <1>3 DEF CallType, CallKinds
<1>5. /\ c.kind = "messages" /\ c.to = openFolder
      /\ c.ids = calls[i].ids /\ c.answer = calls[i].answer
  BY <1>2 DEF CallType
<1>6. calls[i].ids \subseteq RowId /\ Single(calls[i].answer)
  BY <1>1, <1>2 DEF CallFormed
<1> HIDE DEF c
<1>7. CallFormed(c)
  BY <1>3, <1>5, <1>6 DEF CallFormed, IsLoad
<1>8. MailViewTypeOK'
  BY <1>1, ActTypes
<1>9. Queue(RemoveAt(calls, i)) /\ RemoveAt(calls, i) \in Seq(CallType)
  BY <1>2, QueueWithout DEF Queue
<1>10. Queue(calls')
  BY <1>1, <1>4, <1>7, <1>9, QueueAppend
<1>11. ListArrives(calls', openFolder', listed')
  BY <1>1, <1>4, <1>5, <1>9, ListNamed DEF listing
<1>12. ReaderArrives(calls', selected', reader')
  BY <1>1, <1>4, <1>5, <1>9, ReaderAsked DEF IsLoad
<1>13. DialogNames' /\ ChosenIsListed' /\ dialog' \in DialogType
  BY <1>1, Undisturbed DEF MailViewIInv
<1> QED BY <1>8, <1>10, <1>11, <1>12, <1>13 DEF MailViewIInv

LEMMA ServeMessagesKeeps ==
    ASSUME MailViewIInv, NEW i \in DOMAIN calls, ServeMessages(i)
    PROVE  MailViewIInv'
<1> DEFINE a == {IdOf(m) : m \in {n \in Mails : lies[n] = calls[i].to}}
           c == [calls[i] EXCEPT !.back = TRUE, !.answer = a]
<1>1. calls \in Seq(CallType) /\ calls[i] \in CallType /\ CallFormed(calls[i])
  BY DEF MailViewIInv, Queue
<1>2. /\ calls[i].kind = "messages"
      /\ UNCHANGED <<onServer, listing, choice, dragging, dialog, reader, outrun, pointed, acts>>
  BY DEF ServeMessages
<1>3. calls' = [calls EXCEPT ![i] = c]
  <2>1. calls' = [calls EXCEPT ![i].back = TRUE, ![i].answer = a]
    BY DEF ServeMessages
  <2> HIDE DEF a
  <2> QED BY <2>1, <1>1
<1>4. a \subseteq RowId /\ Single(a)
  <2>1. \A m \in Mails : IdOf(m) \in RowId /\ IdOf(m).mail = m
    BY DEF IdOf, RowId, MailViewIInv, MailViewTypeOK
  <2> QED BY <2>1 DEF Single
<1> HIDE DEF a
<1>5. c \in CallType
  BY <1>1, <1>4 DEF CallType
<1>6. /\ c.kind = calls[i].kind /\ c.to = calls[i].to /\ c.ids = calls[i].ids /\ c.answer = a
      /\ c.closes = calls[i].closes /\ c.aim = calls[i].aim
  BY <1>1 DEF CallType
<1> HIDE DEF c
<1>7. CallFormed(c)
  BY <1>1, <1>2, <1>4, <1>6 DEF CallFormed, IsLoad
<1>8. MailViewTypeOK'
  BY <1>2, ActTypes
<1>9. UNCHANGED <<listing, choice, dialog, reader, outrun, pointed>>
  BY <1>2
<1>10. calls[i].kind = "read" => c.ids = calls[i].ids
  BY <1>6
<1> QED BY <1>3, <1>5, <1>6, <1>7, <1>8, <1>9, <1>10, RequestServed

LEMMA LoadMessagesKeeps ==
    ASSUME MailViewIInv, NEW i \in DOMAIN calls, LoadMessages(i)
    PROVE  MailViewIInv'
<1> DEFINE list == calls[i].answer
           q == RemoveAt(calls, i)
           first == IF list = {} THEN Nobody
                    ELSE IF Filtered(list, tab) # {} THEN Earliest(Filtered(list, tab))
                    ELSE Earliest(list)
<1>1. calls \in Seq(CallType) /\ Queue(calls) /\ calls[i] \in CallType /\ CallFormed(calls[i])
  BY DEF MailViewIInv, Queue
<1>2. /\ calls[i].kind = "messages" /\ messages' = list /\ listed' = calls[i].to
      /\ Choose(q, first, {first} \ {Nobody}, first)
      /\ dialog' = NoDialog \/ Disturb
      /\ outrun' = (outrun \/ \E j \in 1..(i - 1) : calls[j].kind = "messages")
      /\ UNCHANGED <<onServer, openFolder, tab, dragging, acts>>
  BY DEF LoadMessages, ChooseFirst, Without
<1>3. list \subseteq RowId /\ Single(list) /\ calls[i].to \in Pages
  BY <1>1, <1>2 DEF CallType, CallFormed
<1>4. first \in list \cup {Nobody}
  <2>1. Filtered(list, tab) \subseteq list
    BY DEF Filtered
  <2> QED BY <2>1, <1>3, EarliestIsOne
<1>5. Queue(q) /\ q \in Seq(CallType)
  BY <1>1, QueueWithout DEF Queue
<1> HIDE DEF first, q
<1>6. /\ Queue(calls')
      /\ selected' = first /\ pointed' = FALSE
      /\ reader' \in Mails \cup {Nobody}
      /\ ReaderArrives(calls', selected', reader')
      /\ \A open, shown : ListArrives(q, open, shown) => ListArrives(calls', open, shown)
  BY <1>2, <1>3, <1>4, <1>5, PageRendered DEF Choose, MailViewIInv, MailViewTypeOK
<1>7. marked' = {first} \ {Nobody} /\ anchor' = first
  BY <1>2 DEF Choose
<1>8. MailViewTypeOK'
  <2> HIDE DEF list
  <2> QED BY <1>2, <1>3, <1>4, <1>6, <1>7 DEF MailViewIInv, MailViewTypeOK, onServer
<1>9. ChosenIsListed'
  <2> HIDE DEF list
  <2> QED BY <1>2, <1>3, <1>4, <1>6, <1>7 DEF ChosenIsListed
<1>10. dialog' \in DialogType /\ DialogNames'
  <2>1. CASE dialog' = NoDialog
    BY <2>1, NoDialogTypes DEF NoDialog, DialogNames
  <2>2. CASE Disturb
    BY <2>2, PageDisturbed DEF DialogNames, MailViewIInv
  <2> QED BY <1>2, <2>1, <2>2
<1>11. ASSUME ~outrun'
       PROVE  ListArrives(calls', openFolder', listed')
  <2>1. ~outrun /\ \A j \in 1..(i - 1) : calls[j].kind # "messages"
    BY <1>2, <1>11
  <2>2. ListArrives(calls, openFolder, listed)
    BY <2>1 DEF MailViewIInv
  <2>3. ListArrives(q, openFolder, calls[i].to)
    BY <1>1, <1>2, <2>1, <2>2, ListTaken DEF q
  <2> QED BY <2>3, <1>2, <1>6
<1> QED BY <1>6, <1>8, <1>9, <1>10, <1>11 DEF MailViewIInv

-----------------------------------------------------------------------------
(* The reader.                                                             *)

LEMMA ServeMessageKeeps ==
    ASSUME MailViewIInv, NEW i \in DOMAIN calls, ServeMessage(i)
    PROVE  MailViewIInv'
<1>1. calls \in Seq(CallType) /\ calls[i] \in CallType /\ CallFormed(calls[i])
  BY DEF MailViewIInv, Queue
<1>2. PICK id \in calls[i].ids :
        /\ opened' = [opened EXCEPT ![id.mail] = @ \/ lies[id.mail] # "gone"]
        /\ calls' = [calls EXCEPT ![i].back = TRUE,
                       ![i].answer = {IF lies[id.mail] = "gone" THEN id
                                      ELSE [id EXCEPT !.read = TRUE]}]
  BY DEF ServeMessage
<1>3. /\ calls[i].kind = "read"
      /\ UNCHANGED <<lies, listing, choice, dragging, dialog, reader, outrun, pointed, acts>>
  BY DEF ServeMessage
<1>4. id \in RowId /\ calls[i].ids = {id}
  BY <1>1, <1>2, <1>3 DEF CallFormed
<1> DEFINE new == IF lies[id.mail] = "gone" THEN id ELSE [id EXCEPT !.read = TRUE]
           c == [calls[i] EXCEPT !.back = TRUE, !.answer = {new}]
<1>5. new \in RowId /\ new.mail = id.mail
  BY <1>4 DEF RowId
<1>6. calls' = [calls EXCEPT ![i] = c]
  <2>1. calls' = [calls EXCEPT ![i].back = TRUE, ![i].answer = {new}]
    BY <1>2
  <2> HIDE DEF new
  <2> QED BY <2>1, <1>1
<1> HIDE DEF new
<1>7. c \in CallType
  BY <1>1, <1>5 DEF CallType
<1>8. /\ c.kind = calls[i].kind /\ c.to = calls[i].to /\ c.ids = calls[i].ids
      /\ c.answer = {new} /\ c.closes = calls[i].closes /\ c.aim = calls[i].aim
  BY <1>1 DEF CallType
<1> HIDE DEF c
<1>9. CallFormed(c)
  <2>1. c.kind = "read" /\ c.ids = {id} /\ id \in RowId
    BY <1>3, <1>4, <1>8
  <2>2. Single(c.answer) /\ \A n \in c.answer : n.mail = id.mail
    BY <1>5, <1>8 DEF Single
  <2>3. c.closes /\ (~IsLoad(c)) /\ ~c.aim.disturbed => NumbersOf(c.ids) \subseteq c.aim.named
    BY <1>1, <1>8 DEF CallFormed, IsLoad
  <2> QED BY <2>1, <2>2, <2>3 DEF CallFormed
<1>10. MailViewTypeOK'
  <2>1. id.mail \in Mails
    BY <1>4 DEF RowId
  <2>2. opened' \in [Mails -> BOOLEAN]
    BY <1>2, <2>1 DEF MailViewIInv, MailViewTypeOK
  <2> QED BY <1>3, <2>2 DEF MailViewIInv, MailViewTypeOK, listing, choice
<1>11. UNCHANGED <<listing, choice, dialog, reader, outrun, pointed>>
  BY <1>3
<1>12. calls[i].kind = "read" => c.ids = calls[i].ids
  BY <1>8
<1> QED BY <1>6, <1>7, <1>8, <1>9, <1>10, <1>11, <1>12, RequestServed

\* A message that takes another id stays in the list, marked or selected, and
\* what is selected is the same messages.
LEMMA RenamedStays ==
    ASSUME ChosenIsListed, NEW old \in RowId, NEW new \in RowId, new.mail = old.mail,
           selected = old, messages' = Renamed(messages, old, new),
           marked' = Renamed(marked, old, new), selected' = new,
           UNCHANGED <<openFolder, tab>>, Nobody \notin RowId
    PROVE  /\ ChosenIsListed'
           /\ NumbersOf(ActiveSelectionIDs') = NumbersOf(ActiveSelectionIDs)
<1>1. /\ Single(messages) /\ marked \subseteq messages /\ old \in messages
      /\ old # Nobody /\ new # Nobody
  BY DEF ChosenIsListed
<1>2. messages' = (messages \ {old}) \cup {new}
  BY <1>1 DEF Renamed
<1>3. new \in messages => new = old
  BY <1>1 DEF Single
<1>4. /\ old \in marked => marked' = (marked \ {old}) \cup {new}
      /\ old \notin marked => marked' = marked /\ new \notin marked
  BY <1>1, <1>3 DEF Renamed
<1>5. Single(messages')
  BY <1>1, <1>2 DEF Single
<1>6. marked' \subseteq messages'
  BY <1>1, <1>2, <1>4
<1>7. ChosenIsListed'
  BY <1>2, <1>5, <1>6 DEF ChosenIsListed, Single
<1> DEFINE P(n) == IF tab = "other" THEN n \in Automatic
                   ELSE openFolder = "inbox" => n \notin Automatic
           A == marked \cap Visible
           B == marked' \cap Visible'
<1>8. Visible = {j \in messages : P(j.mail)} /\ Visible' = {j \in messages' : P(j.mail)}
  BY DEF Visible, Filtered
<1>9. /\ \A j : j \in A <=> j \in marked /\ P(j.mail)
      /\ \A j : j \in B <=> j \in marked' /\ P(j.mail)
  BY <1>1, <1>6, <1>8
<1>10. \A j \in A : \E k \in B : k.mail = j.mail
  BY <1>1, <1>4, <1>9
<1>11. \A k \in B : \E j \in A : j.mail = k.mail
  BY <1>1, <1>4, <1>9
<1>12. NumbersOf(A) = NumbersOf(B) /\ (A = {} <=> B = {})
  BY <1>10, <1>11 DEF NumbersOf
<1>13. /\ ActiveSelectionIDs = IF A # {} THEN A ELSE {old}
       /\ ActiveSelectionIDs' = IF B # {} THEN B ELSE {new}
  BY <1>1 DEF ActiveSelectionIDs
<1> HIDE DEF A, B
<1>14. NumbersOf({old}) = NumbersOf({new})
  BY DEF NumbersOf
<1>15. NumbersOf(ActiveSelectionIDs') = NumbersOf(ActiveSelectionIDs)
  BY <1>12, <1>13, <1>14
<1> QED BY <1>7, <1>15

LEMMA RenderReaderKeeps ==
    ASSUME MailViewIInv, NEW i \in DOMAIN calls, RenderReader(i)
    PROVE  MailViewIInv'
<1>1. calls \in Seq(CallType) /\ Queue(calls) /\ calls[i] \in CallType /\ CallFormed(calls[i])
  BY DEF MailViewIInv, Queue
<1>2. /\ calls[i].kind = "read" /\ calls' = RemoveAt(calls, i)
      /\ UNCHANGED <<onServer, openFolder, listed, tab, dragging, dialog, outrun, pointed, acts>>
  BY DEF RenderReader, Without
<1>3. PICK old \in calls[i].ids, new \in calls[i].answer :
        IF selected = old
        THEN /\ messages' = Renamed(messages, old, new)
             /\ marked' = Renamed(marked, old, new)
             /\ anchor' = IF anchor = old THEN new ELSE anchor
             /\ selected' = new
             /\ reader' = new.mail
        ELSE UNCHANGED <<messages, choice, reader>>
  BY DEF RenderReader, AnswerIsWanted
<1>4. old \in RowId /\ calls[i].ids = {old} /\ new.mail = old.mail
  BY <1>1, <1>2, <1>3 DEF CallFormed
<1>5. new \in RowId /\ new.mail \in Mails /\ Nobody \notin RowId
  BY <1>1, <1>3, MailViewAssumptions DEF CallType, RowId
<1>6. Queue(calls')
  BY <1>1, <1>2, QueueWithout
<1>7. ASSUME ~outrun'
      PROVE  ListArrives(calls', openFolder', listed')
  <2>1. ListArrives(calls, openFolder, listed)
    BY <1>2, <1>7 DEF MailViewIInv
  <2>2. ListArrives(RemoveAt(calls, i), openFolder, listed)
    BY <1>1, <1>2, <2>1, ListWithout
  <2> QED BY <1>2, <2>2
<1>8. CASE selected = old
  <2>1. /\ messages' = Renamed(messages, old, new)
        /\ marked' = Renamed(marked, old, new)
        /\ anchor' = IF anchor = old THEN new ELSE anchor
        /\ selected' = new /\ reader' = new.mail
    BY <1>3, <1>8
  <2>2. /\ ChosenIsListed'
        /\ NumbersOf(ActiveSelectionIDs') = NumbersOf(ActiveSelectionIDs)
    BY <1>2, <1>4, <1>5, <1>8, <2>1, RenamedStays DEF MailViewIInv
  <2>3. DialogNames' /\ dialog' \in DialogType
    BY <1>2, <2>2 DEF MailViewIInv, DialogNames, NumbersOf
  <2>4. ReaderArrives(calls', selected', reader')
    BY <1>5, <2>1 DEF ReaderArrives, MailOf
  <2>5. MailViewTypeOK'
    BY <1>2, <1>5, <2>1 DEF MailViewIInv, MailViewTypeOK, Renamed, onServer
  <2> QED BY <1>6, <1>7, <2>2, <2>3, <2>4, <2>5 DEF MailViewIInv
<1>9. CASE selected # old
  <2>1. UNCHANGED <<messages, choice, reader>>
    BY <1>3, <1>9
  <2>2. ChosenIsListed' /\ DialogNames' /\ dialog' \in DialogType
    BY <1>2, <2>1, Undisturbed DEF MailViewIInv, listing
  <2>3. MailViewTypeOK'
    BY <1>2, <2>1 DEF MailViewIInv, MailViewTypeOK, onServer, choice
  <2>4. ASSUME ~outrun', ~pointed'
        PROVE  ReaderArrives(calls', selected', reader')
    <3>1. ReaderArrives(calls, selected, reader)
      BY <1>2, <2>4 DEF MailViewIInv
    <3>2. calls[i].ids # {selected}
      BY <1>4, <1>9
    <3>3. ReaderArrives(RemoveAt(calls, i), selected, reader)
      BY <1>1, <1>2, <3>1, <3>2, ReaderWithout
    <3> QED BY <1>2, <2>1, <3>3 DEF choice
  <2> QED BY <1>6, <1>7, <2>2, <2>3, <2>4 DEF MailViewIInv
<1> QED BY <1>8, <1>9

-----------------------------------------------------------------------------
(* Moving and removing.                                                    *)

LEMMA ActiveAreListed ==
    ASSUME MailViewIInv
    PROVE  ActiveSelectionIDs \subseteq RowId /\ ActiveSelectionIDs \subseteq messages
<1>1. ActiveSelectionIDs \subseteq messages
  BY DEF ActiveSelectionIDs, MailViewIInv, ChosenIsListed
<1> QED BY <1>1 DEF MailViewIInv, MailViewTypeOK

LEMMA AskServerKeeps ==
    ASSUME MailViewIInv, NEW kind \in {"move", "delete", "report", "restore", "folder"},
           NEW ids \in SUBSET (RowId \cup {Nobody}), kind # "folder" => ids \subseteq RowId,
           NEW to \in Pages \cup {"none"},
           kind \in {"move", "report", "folder"} => to \in Pages, AskServer(kind, ids, to)
    PROVE  MailViewIInv'
<1> DEFINE c == NewCall(kind, ids, to)
<1>1. /\ Act /\ calls' = Append(calls, c)
      /\ UNCHANGED <<onServer, listing, choice, dragging, dialog, reader, outrun, pointed>>
  BY DEF AskServer
<1>2. c \in CallType /\ CallFormed(c) /\ c.kind = kind
  BY ChangeCall
<1> HIDE DEF c
<1>3. MailViewTypeOK'
  BY <1>1, ActTypes
<1>4. UNCHANGED <<listing, choice, dialog, reader, outrun, pointed>> /\ c.kind # "messages"
  BY <1>1, <1>2
<1> QED BY <1>1, <1>2, <1>3, <1>4, RequestSent

LEMMA AskedKeeps ==
    ASSUME MailViewIInv,
           \/ \E f \in Pages : MoveSelected(f) \/ SaveFolder(f)
           \/ RestoreSelectedFromTrash \/ ReportSelected \/ RemoveFolder
    PROVE  MailViewIInv'
<1>1. ActiveSelectionIDs \subseteq RowId
  BY ActiveAreListed
<1>2. {"inbox", "trash", "spam"} \subseteq Pages
  BY MailViewAssumptions
<1>3. ASSUME NEW f \in Pages, MoveSelected(f) PROVE MailViewIInv'
  BY <1>1, <1>3, AskServerKeeps DEF MoveSelected
<1>4. ASSUME NEW f \in Pages, SaveFolder(f) PROVE MailViewIInv'
  BY <1>4, AskServerKeeps DEF SaveFolder
<1>5. ASSUME RestoreSelectedFromTrash PROVE MailViewIInv'
  BY <1>1, <1>5, AskServerKeeps DEF RestoreSelectedFromTrash
<1>6. ASSUME ReportSelected PROVE MailViewIInv'
  <2>1. (IF openFolder = "spam" THEN "inbox" ELSE "spam") \in Pages
    BY <1>2
  <2> QED BY <1>1, <1>6, <2>1, AskServerKeeps DEF ReportSelected
<1>7. ASSUME RemoveFolder PROVE MailViewIInv'
  BY <1>2, <1>7, AskServerKeeps DEF RemoveFolder
<1> QED BY <1>3, <1>4, <1>5, <1>6, <1>7

LEMMA DragStartKeeps ==
    ASSUME MailViewIInv, NEW id \in Visible, DragStart(id)
    PROVE  MailViewIInv'
<1>1. /\ Act
      /\ dragging' = [ids |-> IF id \in marked THEN ActiveSelectionIDs ELSE {id},
                      from |-> openFolder]
      /\ UNCHANGED <<onServer, listing, choice, dialog, reader, calls, outrun, pointed>>
  BY DEF DragStart
<1>2. dragging'.ids \subseteq RowId
  BY <1>1, ActiveAreListed, VisibleIsListed DEF MailViewIInv, MailViewTypeOK
<1>3. acts' \in 0..MaxActs
  BY <1>1, MailViewAssumptions DEF MailViewIInv, MailViewTypeOK, Act
<1>4. MailViewTypeOK'
  BY <1>1, <1>2, <1>3 DEF MailViewIInv, MailViewTypeOK, onServer, listing, choice
<1>5. DialogNames' /\ ChosenIsListed' /\ dialog' \in DialogType
  BY <1>1, Undisturbed DEF MailViewIInv
<1> QED BY <1>1, <1>4, <1>5 DEF MailViewIInv, listing, choice

LEMMA MoveDraggedMessageKeeps ==
    ASSUME MailViewIInv, NEW to \in Pages, MoveDraggedMessage(to)
    PROVE  MailViewIInv'
<1> DEFINE c == NewCall("move", dragging.ids, to)
<1>1. /\ calls' = Append(calls, c) \/ calls' = calls
      /\ dragging' = NotDragging
      /\ UNCHANGED <<onServer, listing, choice, dialog, reader, outrun, pointed, acts>>
  BY DEF MoveDraggedMessage
<1>2. MailViewTypeOK'
  BY <1>1 DEF MailViewIInv, MailViewTypeOK, NotDragging, onServer, listing, choice
<1>3. dragging.ids \subseteq RowId
  BY DEF MailViewIInv, MailViewTypeOK
<1>4. c \in CallType /\ CallFormed(c) /\ c.kind = "move"
  BY <1>3, ChangeCall
<1> HIDE DEF c
<1>5. UNCHANGED <<listing, choice, dialog, reader, outrun, pointed>>
  BY <1>1
<1>6. CASE calls' = Append(calls, c)
  BY <1>2, <1>4, <1>5, <1>6, RequestSent
<1>7. CASE calls' = calls
  <2>1. DialogNames' /\ ChosenIsListed' /\ dialog' \in DialogType
    BY <1>5, Undisturbed DEF MailViewIInv
  <2> QED BY <1>2, <1>5, <1>7, <2>1 DEF MailViewIInv, listing, choice
<1> QED BY <1>1, <1>6, <1>7

LEMMA ShowDeleteConfirmationKeeps ==
    ASSUME MailViewIInv, ShowDeleteConfirmation
    PROVE  MailViewIInv'
<1>1. /\ Act
      /\ dialog' = [mode |-> IF openFolder = "trash" THEN "permanent" ELSE "trash",
                    named |-> NumbersOf(ActiveSelectionIDs), disturbed |-> FALSE]
      /\ UNCHANGED <<onServer, listing, choice, dragging, reader, calls, outrun, pointed>>
  BY DEF ShowDeleteConfirmation
<1>2. MailViewTypeOK'
  BY <1>1, ActTypes
<1>3. NumbersOf(ActiveSelectionIDs) \subseteq Mails
  BY ActiveAreListed DEF NumbersOf, RowId
<1>4. dialog' \in DialogType
  BY <1>1, <1>3 DEF DialogType
<1>5. ActiveSelectionIDs' = ActiveSelectionIDs /\ ChosenIsListed'
  BY <1>1 DEF ActiveSelectionIDs, Visible, Filtered, listing, choice, MailViewIInv,
              ChosenIsListed, Single
<1>6. dialog'.named = NumbersOf(ActiveSelectionIDs)
  BY <1>1
<1>7. DialogNames'
  BY <1>5, <1>6 DEF DialogNames, NumbersOf
<1> QED BY <1>1, <1>2, <1>4, <1>5, <1>7 DEF MailViewIInv, listing, choice

LEMMA HideDeleteConfirmationKeeps ==
    ASSUME MailViewIInv, HideDeleteConfirmation
    PROVE  MailViewIInv'
<1>1. /\ dialog' = NoDialog
      /\ UNCHANGED <<onServer, listing, choice, dragging, reader, calls, outrun, pointed, acts>>
  BY DEF HideDeleteConfirmation
<1>2. MailViewTypeOK'
  BY <1>1, ActTypes
<1>3. dialog' \in DialogType /\ DialogNames'
  BY <1>1, NoDialogTypes DEF DialogNames, NoDialog
<1>4. ChosenIsListed'
  BY <1>1 DEF listing, choice, MailViewIInv, ChosenIsListed, Single
<1> QED BY <1>1, <1>2, <1>3, <1>4 DEF MailViewIInv, listing, choice

\* What the dialog names is what a deletion asks for, unless it is disturbed.
LEMMA ConfirmDeleteSelectionKeeps ==
    ASSUME MailViewIInv, ConfirmDeleteSelection
    PROVE  MailViewIInv'
<1> DEFINE kind == IF dialog.mode = "permanent" THEN "delete" ELSE "move"
           new == NewCall(kind, ActiveSelectionIDs, "trash")
           c == [new EXCEPT !.closes = TRUE, !.aim = dialog]
<1>1. /\ dialog.mode # "hidden"
      /\ \/ dialog' = NoDialog /\ UNCHANGED calls
         \/ calls' = Append(calls, c) /\ UNCHANGED dialog
      /\ UNCHANGED <<onServer, listing, choice, dragging, reader, outrun, pointed, acts>>
  BY DEF ConfirmDeleteSelection
<1>2. MailViewTypeOK'
  BY <1>1, ActTypes
<1>3. CASE dialog' = NoDialog /\ UNCHANGED calls
  <2>1. dialog' \in DialogType /\ DialogNames'
    BY <1>3, NoDialogTypes DEF DialogNames, NoDialog
  <2>2. ChosenIsListed'
    BY <1>1 DEF listing, choice, MailViewIInv, ChosenIsListed, Single
  <2> QED BY <1>1, <1>2, <1>3, <2>1, <2>2 DEF MailViewIInv, listing, choice
<1>4. CASE calls' = Append(calls, c) /\ UNCHANGED dialog
  <2>1. kind \in {"move", "delete"} /\ "trash" \in Pages /\ ActiveSelectionIDs \subseteq RowId
    BY MailViewAssumptions, ActiveAreListed
  <2> HIDE DEF kind
  <2>2. new \in CallType /\ CallFormed(new) /\ new.kind = kind
    BY <2>1, ChangeCall
  <2>3. new.to = "trash" /\ new.ids = ActiveSelectionIDs
    BY DEF NewCall
  <2> HIDE DEF new
  <2>4. dialog \in DialogType
    BY DEF MailViewIInv
  <2>5. c \in CallType
    BY <2>2, <2>4 DEF CallType
  <2>6. /\ c.kind = kind /\ c.to = "trash" /\ c.ids = ActiveSelectionIDs
        /\ c.answer = new.answer /\ c.aim = dialog
    BY <2>2, <2>3 DEF CallType
  <2> HIDE DEF c
  <2>7. ~dialog.disturbed => NumbersOf(ActiveSelectionIDs) \subseteq dialog.named
    BY <1>1 DEF MailViewIInv, DialogNames
  <2>8. CallFormed(c)
    BY <2>1, <2>2, <2>6, <2>7 DEF CallFormed
  <2>9. UNCHANGED <<listing, choice, dialog, reader, outrun, pointed>> /\ c.kind # "messages"
    BY <1>1, <1>4, <2>1, <2>6
  <2> QED BY <1>2, <1>4, <2>5, <2>8, <2>9, RequestSent
<1> QED BY <1>1, <1>3, <1>4

LEMMA ServeChangeKeeps ==
    ASSUME MailViewIInv, NEW i \in DOMAIN calls, ServeChange(i)
    PROVE  MailViewIInv'
<1>1. calls \in Seq(CallType) /\ calls[i] \in CallType /\ CallFormed(calls[i])
  BY DEF MailViewIInv, Queue
<1>2. /\ IsChange(calls[i])
      /\ UNCHANGED <<opened, listing, choice, dragging, dialog, reader, outrun, pointed, acts>>
  BY DEF ServeChange
<1> DEFINE next == Earliest(calls[i].ids)
<1>3. PICK ids \in SUBSET calls[i].ids, back \in BOOLEAN :
        calls' = [calls EXCEPT ![i].ids = ids, ![i].back = back]
  <2>1. CASE calls' = [calls EXCEPT ![i].back = TRUE]
    <3>1. calls' = [calls EXCEPT ![i].ids = calls[i].ids, ![i].back = TRUE]
      BY <2>1, <1>1 DEF CallType
    <3> QED BY <3>1
  <2>2. CASE calls' = [calls EXCEPT ![i].ids = @ \ {next}, ![i].back = (calls[i].ids = {next})]
    <3>1. calls' = [calls EXCEPT ![i].ids = calls[i].ids \ {next},
                                 ![i].back = (calls[i].ids = {next})]
      BY <2>2, <1>1
    <3>2. calls[i].ids \ {next} \in SUBSET calls[i].ids /\ (calls[i].ids = {next}) \in BOOLEAN
      OBVIOUS
    <3> QED BY <3>1, <3>2
  <2> QED BY <2>1, <2>2 DEF ServeChange
<1>4. lies' \in [Mails -> Pages \cup {"gone"}]
  <2>1. CASE UNCHANGED lies
    BY <2>1 DEF MailViewIInv, MailViewTypeOK
  <2>2. ASSUME NEW put, NEW place \in Pages \cup {"gone"}, Put(put, place)
        PROVE  lies' \in [Mails -> Pages \cup {"gone"}]
    BY <2>2 DEF Put, MailViewIInv, MailViewTypeOK
  <2>3. CASE calls[i].kind = "move" /\ Put(calls[i].ids, calls[i].to)
    BY <1>1, <2>2, <2>3 DEF CallFormed
  <2>4. CASE Put(calls[i].ids, "gone")
    BY <2>2, <2>4
  <2>5. ASSUME NEW to \in IF calls[i].kind = "report" THEN {calls[i].to} ELSE Pages \ {"trash"},
               Put({next}, to)
        PROVE  lies' \in [Mails -> Pages \cup {"gone"}]
    BY <1>1, <2>2, <2>5 DEF CallFormed
  <2> QED BY <2>1, <2>3, <2>4, <2>5 DEF ServeChange
<1> DEFINE c == [calls[i] EXCEPT !.ids = ids, !.back = back]
<1>5. calls' = [calls EXCEPT ![i] = c]
  BY <1>1, <1>3
<1>6. c \in CallType
  BY <1>1, <1>3 DEF CallType
<1>7. /\ c.kind = calls[i].kind /\ c.to = calls[i].to /\ c.ids = ids /\ c.ids \subseteq calls[i].ids
      /\ c.answer = calls[i].answer /\ c.closes = calls[i].closes /\ c.aim = calls[i].aim
  BY <1>1, <1>3 DEF CallType
<1>8. calls[i].kind # "read"
  BY <1>2 DEF IsChange
<1> HIDE DEF c
<1>9. CallFormed(c)
  BY <1>1, <1>7, <1>8 DEF CallFormed, IsLoad, NumbersOf
<1>10. MailViewTypeOK'
  BY <1>2, <1>4 DEF MailViewIInv, MailViewTypeOK, listing, choice
<1>11. UNCHANGED <<listing, choice, dialog, reader, outrun, pointed>>
  BY <1>2
<1> QED BY <1>5, <1>6, <1>7, <1>8, <1>9, <1>10, <1>11, RequestServed

LEMMA ChangeAnsweredKeeps ==
    ASSUME MailViewIInv, NEW i \in DOMAIN calls, ChangeAnswered(i)
    PROVE  MailViewIInv'
<1> DEFINE q == RemoveAt(calls, i)
           c == [Load EXCEPT !.closes = calls[i].closes]
<1>1. calls \in Seq(CallType) /\ Queue(calls) /\ calls[i] \in CallType /\ CallFormed(calls[i])
  BY DEF MailViewIInv, Queue
<1>2. /\ openFolder' = IF calls[i].kind = "folder" THEN calls[i].to ELSE openFolder
      /\ IF calls[i].kind = "delete"
         THEN selected' = Nobody /\ marked' = {} /\ anchor' = Nobody
         ELSE UNCHANGED choice
      /\ IF calls[i].kind = "folder" THEN Disturb ELSE UNCHANGED dialog
      /\ calls' = Append(q, c)
      /\ UNCHANGED <<onServer, listed, messages, tab, dragging, reader, outrun, pointed, acts>>
  BY DEF ChangeAnswered, Without
<1>3. openFolder' \in Pages
  BY <1>1, <1>2 DEF CallFormed, MailViewIInv, MailViewTypeOK
<1>4. c \in CallType /\ CallFormed(c) /\ c.kind = "lists" /\ IsLoad(c)
  <2>1. calls[i].closes \in BOOLEAN
    BY <1>1 DEF CallType
  <2> QED BY <2>1, LoadCall DEF IsLoad
<1>5. Queue(q) /\ q \in Seq(CallType)
  BY <1>1, QueueWithout DEF Queue
<1> HIDE DEF q, c
<1>6. Queue(calls')
  BY <1>2, <1>4, <1>5, QueueAppend
<1>7. ListArrives(calls', openFolder', listed')
  BY <1>2, <1>4, <1>5, ListAsked
<1>8. ReaderArrives(calls', selected', reader')
  BY <1>2, <1>4, <1>5, ReaderAsked
<1>9. MailViewTypeOK' /\ ChosenIsListed'
  <2>1. CASE calls[i].kind = "delete"
    BY <1>2, <1>3, <2>1 DEF MailViewIInv, MailViewTypeOK, ChosenIsListed, onServer
  <2>2. CASE calls[i].kind # "delete"
    BY <1>2, <1>3, <2>2 DEF MailViewIInv, MailViewTypeOK, ChosenIsListed, onServer, choice
  <2> QED BY <2>1, <2>2
<1>10. DialogNames' /\ dialog' \in DialogType
  <2>1. CASE calls[i].kind = "folder"
    BY <1>2, <2>1, PageDisturbed DEF DialogNames, MailViewIInv
  <2>2. CASE calls[i].kind = "delete"
    <3>1. ActiveSelectionIDs' = {} /\ UNCHANGED dialog
      BY <1>2, <2>2 DEF ActiveSelectionIDs
    <3> QED BY <3>1 DEF DialogNames, NumbersOf, MailViewIInv
  <2>3. CASE calls[i].kind # "folder" /\ calls[i].kind # "delete"
    <3>1. UNCHANGED <<listing, choice, dialog>> \/ UNCHANGED <<openFolder, messages, tab, choice, dialog>>
      BY <1>2, <2>3
    <3>2. ActiveSelectionIDs' = ActiveSelectionIDs
      BY <1>2, <2>3 DEF ActiveSelectionIDs, Visible, Filtered, choice
    <3> QED BY <1>2, <2>3, <3>2 DEF DialogNames, NumbersOf, MailViewIInv
  <2> QED BY <2>1, <2>2, <2>3
<1> QED BY <1>6, <1>7, <1>8, <1>9, <1>10 DEF MailViewIInv

LEMMA FailCallKeeps ==
    ASSUME MailViewIInv, NEW i \in DOMAIN calls, FailCall(i)
    PROVE  MailViewIInv'
<1>1. /\ calls' = RemoveAt(calls, i) /\ outrun' = TRUE
      /\ UNCHANGED <<onServer, listing, choice, dragging, dialog, reader, pointed, acts>>
  BY DEF FailCall, Without
<1>2. Queue(calls')
  BY <1>1, QueueWithout DEF MailViewIInv
<1>3. MailViewTypeOK'
  BY <1>1, ActTypes
<1>4. DialogNames' /\ ChosenIsListed' /\ dialog' \in DialogType
  BY <1>1, Undisturbed DEF MailViewIInv
<1> QED BY <1>1, <1>2, <1>3, <1>4 DEF MailViewIInv

-----------------------------------------------------------------------------
(* The theorems.                                                           *)

LEMMA MailViewInitIInv ==
    ASSUME MailViewInit
    PROVE  MailViewIInv
<1>1. MailViewTypeOK
  BY MailViewAssumptions DEF MailViewInit, MailViewTypeOK, NotDragging
<1>2. Load \in CallType /\ CallFormed(Load) /\ Load.kind = "lists"
  BY FirstLoadCall
<1>3. calls = <<Load>> /\ calls[1] = Load /\ DOMAIN calls = {1}
  BY DEF MailViewInit
<1>4. Queue(calls)
  BY <1>2, <1>3 DEF Queue
<1>5. Awaits(calls, "lists")
  BY <1>2, <1>3 DEF Awaits
<1>6. ChosenIsListed /\ DialogNames /\ dialog \in DialogType
  BY NoDialogTypes DEF MailViewInit, ChosenIsListed, DialogNames, NoDialog, Single
<1> QED BY <1>1, <1>4, <1>5, <1>6 DEF MailViewIInv, ListArrives, ReaderArrives

LEMMA MailViewNextIInv ==
    ASSUME MailViewIInv, [MailViewNext]_mailViewVars
    PROVE  MailViewIInv'
<1>1. ASSUME NEW id \in Visible,
             Click(id) \/ CtrlClick(id) \/ ShiftClick(id) \/ OpenMessageContextMenu(id)
               \/ DragStart(id)
      PROVE  MailViewIInv'
  BY <1>1, ClickKeeps, CtrlClickKeeps, ShiftClickKeeps, OpenMessageContextMenuKeeps,
     DragStartKeeps
<1>2. ASSUME NEW down \in BOOLEAN, NEW extend \in BOOLEAN, ArrowKey(down, extend)
      PROVE  MailViewIInv'
  BY <1>2, ArrowKeyKeeps
<1>3. ASSUME NEW name, ChooseTab(name)
      PROVE  MailViewIInv'
  BY <1>3, ChooseTabKeeps
<1>4. ASSUME NEW f \in Pages,
             OpenFolder(f) \/ MoveSelected(f) \/ SaveFolder(f) \/ MoveDraggedMessage(f)
      PROVE  MailViewIInv'
  BY <1>4, OpenFolderKeeps, AskedKeeps, MoveDraggedMessageKeeps
<1>5. CASE Refresh \/ RestoreSelectedFromTrash \/ ReportSelected \/ RemoveFolder
  BY <1>5, RefreshKeeps, AskedKeeps
<1>6. CASE ShowDeleteConfirmation \/ HideDeleteConfirmation \/ ConfirmDeleteSelection
  BY <1>6, ShowDeleteConfirmationKeeps, HideDeleteConfirmationKeeps,
     ConfirmDeleteSelectionKeeps
<1>7. ASSUME NEW i \in DOMAIN calls,
             \/ LoadFolders(i) \/ ServeMessages(i) \/ LoadMessages(i)
             \/ ServeMessage(i) \/ RenderReader(i)
             \/ ServeChange(i) \/ ChangeAnswered(i) \/ FailCall(i)
      PROVE  MailViewIInv'
  BY <1>7, LoadFoldersKeeps, ServeMessagesKeeps, LoadMessagesKeeps, ServeMessageKeeps,
     RenderReaderKeeps, ServeChangeKeeps, ChangeAnsweredKeeps, FailCallKeeps
<1>8. CASE UNCHANGED mailViewVars
  <2>1. UNCHANGED <<onServer, listing, choice, dragging, dialog, reader, calls, outrun,
                    pointed, acts>>
    BY <1>8 DEF mailViewVars
  <2>2. MailViewTypeOK'
    BY <2>1, ActTypes
  <2>3. DialogNames' /\ ChosenIsListed' /\ dialog' \in DialogType
    BY <2>1, Undisturbed DEF MailViewIInv
  <2> QED BY <2>1, <2>2, <2>3 DEF MailViewIInv, listing, choice
<1> QED BY <1>1, <1>2, <1>3, <1>4, <1>5, <1>6, <1>7, <1>8 DEF MailViewNext

LEMMA IInvShowsTruth ==
    ASSUME MailViewIInv
    PROVE  ScreenIsTrue
<1>1. ASSUME calls = << >>, ~outrun
      PROVE  /\ listed = openFolder
             /\ ~pointed => reader = IF selected = Nobody THEN Nobody ELSE selected.mail
  <2>1. \A kind : ~Awaits(calls, kind)
    BY <1>1 DEF Awaits
  <2>2. ~LastListIs(calls, openFolder)
    BY <1>1 DEF LastListIs
  <2>3. listed = openFolder
    BY <1>1, <2>1, <2>2 DEF MailViewIInv, ListArrives
  <2>4. ~pointed => reader = MailOf(selected)
    BY <1>1, <2>1 DEF MailViewIInv, ReaderArrives
  <2> QED BY <2>3, <2>4 DEF MailOf
<1>2. ASSUME NEW i \in DOMAIN calls
      PROVE  calls[i].closes /\ ~IsLoad(calls[i]) /\ ~calls[i].aim.disturbed
               => NumbersOf(calls[i].ids) \subseteq calls[i].aim.named
  BY DEF MailViewIInv, Queue, CallFormed
<1> QED BY <1>1, <1>2 DEF ScreenIsTrue

LEMMA MailViewInvariant == MailViewSpec => []MailViewIInv
<1> QED BY MailViewInitIInv, MailViewNextIInv, PTL DEF MailViewSpec

\* The page's state keeps its types: what is listed, marked, dragged or shown
\* are rows and messages, whatever answers come in whatever order.
THEOREM MailViewTypes == MailViewSpec => []MailViewTypeOK
<1>1. MailViewIInv => MailViewTypeOK
  BY DEF MailViewIInv
<1> QED BY <1>1, MailViewInvariant, PTL

\* The page comes to show what it says and a confirmed deletion asks for no
\* more than the dialog named, for any number of messages, folders, acts and
\* requests under way.
THEOREM ScreensAreTrue == MailViewSpec => []ScreenIsTrue
<1> QED BY IInvShowsTruth, MailViewInvariant, PTL

=============================================================================
