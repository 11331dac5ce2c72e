------------------------------- MODULE Filters -------------------------------
(***************************************************************************)
(* Mail filters: rows that webmail edits, and the Sieve script that it     *)
(* makes of an account's enabled rows and Dovecot runs at delivery.        *)
(*                                                                         *)
(*   internal/webmail/handlers.go    the requests                          *)
(*   internal/webmail/sql_store.go   the rows; CompositeStore              *)
(*   internal/webmail/sieve.go       rendering, writing, activating        *)
(*   cmd/webmail/main.go             all scripts are written at start-up   *)
(*                                                                         *)
(* A request changes the row, reads the rows back and writes the script,   *)
(* with no lock around; it answers an error when a later step fails, and   *)
(* the change stays.  The script is the set of the filters in it: they are *)
(* ordered by name.                                                        *)
(***************************************************************************)
EXTENDS Naturals, FiniteSets

CONSTANTS
    Syncers,     \* requests handled at once, and the start-up
    Mailboxes,
    FilterIds,
    Values,       \* what a filter says
    Unrenderable, \* values whose folder name the renderer refuses
    NoScript,     \* no script file
    MaxSyncs      \* bound: requests and start-ups

ASSUME FiltersAssumptions ==
    /\ Unrenderable \subseteq Values
    /\ MaxSyncs \in Nat

VARIABLES
    rows,      \* mailbox -> its filters
    script,    \* mailbox -> the filters in sieve/proidentity.sieve
    active,    \* mailbox -> .dovecot.sieve points at the script
    tempLink,  \* mailbox -> .dovecot.sieve.tmp exists
    sync,      \* who -> its progress
    syncs      \* requests and start-ups so far

filtersVars == <<rows, script, active, tempLink, sync, syncs>>

Filter == [id : FilterIds, value : Values, enabled : BOOLEAN]

\* boxes: those whose script is to be written; todo: those still to come;
\* box: the one at hand; seen: the rows as they were listed; startup: not a
\* request; alone: no other has run beside this one.
NoSync == [pc |-> "idle", startup |-> FALSE, boxes |-> {}, todo |-> {}, box |-> NoScript,
           seen |-> [m \in Mailboxes |-> {}], alone |-> FALSE]

Syncing(p) == sync[p].pc \notin {"idle", "done", "failed"}

NextSync == syncs < MaxSyncs /\ syncs' = syncs + 1

-----------------------------------------------------------------------------
(* The row is changed.                                                     *)

\* The row is written in one statement; requests already there have company.
\* Requests are served when the start-up is over.
SetRows(p, m, filters) ==
    /\ ~Syncing(p) /\ NextSync
    /\ \A q \in Syncers : sync[q].startup => ~Syncing(q)
    /\ rows' = [rows EXCEPT ![m] = filters]
    /\ sync' = [q \in Syncers |->
                  IF q # p THEN [sync[q] EXCEPT !.alone = FALSE]
                  ELSE [NoSync EXCEPT !.pc = "list", !.boxes = {m}, !.todo = {m},
                                    !.alone = \A o \in Syncers \ {p} : ~Syncing(o)]]
    /\ UNCHANGED <<script, active, tempLink>>

CreateFilter(p, m) ==
    \E f \in Filter :
      /\ \A n \in Mailboxes : \A g \in rows[n] : g.id # f.id
      /\ SetRows(p, m, rows[m] \cup {f})

\* Nothing affected is an error: the row must be there and change.
UpdateFilter(p, m) ==
    \E f \in rows[m] : \E g \in Filter :
      g.id = f.id /\ g # f /\ SetRows(p, m, (rows[m] \ {f}) \cup {g})

DeleteFilter(p, m) ==
    \E f \in rows[m] : SetRows(p, m, rows[m] \ {f})

-----------------------------------------------------------------------------
(* The script follows.                                                     *)

ListFilters(p) ==
    /\ sync[p].pc = "list"
    /\ sync' = [sync EXCEPT ![p].pc = "next",
                  ![p].seen = [m \in Mailboxes |-> IF m \in sync[p].boxes THEN rows[m] ELSE {}]]
    /\ UNCHANGED <<rows, script, active, tempLink, syncs>>

\* Webmail starts: whatever requests ran are gone, and one query lists the
\* filters of every mailbox that has any.
SyncAllFilters(p) ==
    /\ NextSync
    /\ LET listed == {m \in Mailboxes : rows[m] # {}}
       IN  sync' = [[q \in Syncers |-> NoSync] EXCEPT
                      ![p] = [NoSync EXCEPT !.pc = "next", !.startup = TRUE, !.boxes = listed,
                                            !.todo = listed, !.seen = rows, !.alone = TRUE]]
    /\ UNCHANGED <<rows, script, active, tempLink>>

\* Variant: disabled filters are written too.
RenderAll(filters) == filters

RenderSieveFilters(filters) == {f \in filters : f.enabled}

\* One filter that cannot be rendered fails the whole script.  The file is
\* written under a name of its own and renamed.
WriteScript(p, m) ==
    /\ sync[p].pc = "next" /\ m \in sync[p].todo
    /\ LET rendered == RenderSieveFilters(sync[p].seen[m])
       IN  /\ \A f \in rendered : f.value \notin Unrenderable
           /\ script' = [script EXCEPT ![m] = rendered]
    /\ sync' = [sync EXCEPT ![p].pc = "clear", ![p].box = m, ![p].todo = @ \ {m}]
    /\ UNCHANGED <<rows, active, tempLink, syncs>>

RemoveTempLink(p) ==
    /\ sync[p].pc = "clear"
    /\ tempLink' = [tempLink EXCEPT ![sync[p].box] = FALSE]
    /\ sync' = [sync EXCEPT ![p].pc = "link"]
    /\ UNCHANGED <<rows, script, active, syncs>>

Symlink(p) ==
    /\ sync[p].pc = "link" /\ ~tempLink[sync[p].box]
    /\ tempLink' = [tempLink EXCEPT ![sync[p].box] = TRUE]
    /\ sync' = [sync EXCEPT ![p].pc = "rename"]
    /\ UNCHANGED <<rows, script, active, syncs>>

RenameLink(p) ==
    /\ sync[p].pc = "rename" /\ tempLink[sync[p].box]
    /\ tempLink' = [tempLink EXCEPT ![sync[p].box] = FALSE]
    /\ active' = [active EXCEPT ![sync[p].box] = TRUE]
    /\ sync' = [sync EXCEPT ![p].pc = "next"]
    /\ UNCHANGED <<rows, script, syncs>>

EndSync(p) ==
    /\ sync[p].pc = "next" /\ sync[p].todo = {}
    /\ sync' = [sync EXCEPT ![p].pc = "done"]
    /\ UNCHANGED <<rows, script, active, tempLink, syncs>>

\* A step fails; at start-up the mailboxes to come are left as they are.
FailSync(p) ==
    /\ Syncing(p)
    /\ sync' = [sync EXCEPT ![p].pc = "failed"]
    /\ UNCHANGED <<rows, script, active, tempLink, syncs>>

-----------------------------------------------------------------------------

FiltersInit ==
    /\ rows = [m \in Mailboxes |-> {}]
    /\ script = [m \in Mailboxes |-> NoScript]
    /\ active = [m \in Mailboxes |-> FALSE]
    /\ tempLink = [m \in Mailboxes |-> FALSE]
    /\ sync = [p \in Syncers |-> NoSync]
    /\ syncs = 0

FiltersNext ==
    \E p \in Syncers :
      \/ \E m \in Mailboxes : \/ CreateFilter(p, m) \/ UpdateFilter(p, m) \/ DeleteFilter(p, m)
                              \/ WriteScript(p, m)
      \/ ListFilters(p) \/ SyncAllFilters(p)
      \/ RemoveTempLink(p) \/ Symlink(p) \/ RenameLink(p)
      \/ EndSync(p) \/ FailSync(p)

FiltersSpec == FiltersInit /\ [][FiltersNext]_filtersVars

-----------------------------------------------------------------------------

FiltersTypeOK ==
    /\ rows \in [Mailboxes -> SUBSET Filter]
    /\ \A m \in Mailboxes : script[m] = NoScript \/ script[m] \subseteq Filter
    /\ active \in [Mailboxes -> BOOLEAN] /\ tempLink \in [Mailboxes -> BOOLEAN]
    /\ \A p \in Syncers : /\ sync[p].todo \subseteq sync[p].boxes
                           /\ sync[p].seen \in [Mailboxes -> SUBSET Filter]
    /\ syncs \in 0..MaxSyncs

\* A request that was answered without an error, and every mailbox of a
\* start-up that ended without one, leaves Dovecot running exactly the
\* enabled filters that webmail lists, whatever earlier requests left when
\* they failed or died half-way: a stale script, no link, a temporary link.
\* It takes that no other request ran beside it: two that overlap list the
\* rows in one order and may write them in the other.
ScriptFollowsRows ==
    \A p \in Syncers :
      sync[p].pc = "done" /\ sync[p].alone
        => \A m \in sync[p].boxes : active[m] /\ script[m] = {f \in rows[m] : f.enabled}

=============================================================================
