------------------------------ MODULE MCMaildir ------------------------------
(* Instances of Maildir for TLC.                                           *)
EXTENDS Maildir, TLC

CONSTANTS m1, m2, r1, r2

Listed(m) == [base |-> m, flags |-> "none"]
Wish(op, folder, ids) == [op |-> op, folder |-> folder, ids |-> ids]

\* One message, known by the name it was delivered under.
MovesAndDeletes == LET ids == {<<Listed(m)>> : m \in Messages} IN
    {Wish("move", folder, i) : folder \in {"inbox", "sent", "trash"}, i \in ids}
        \cup {Wish(op, "none", i) : op \in {"delete", "read"}, i \in ids}

\* Whatever may be asked of one or two messages.
Ids == {<<[base |-> m, flags |-> f]>> : m \in Messages, f \in {"none", "seen"}}
        \cup {<<Listed(m), Listed(k)>> : m \in Messages, k \in Messages}
Anything ==
    {Wish("move", folder, i) : folder \in Folders, i \in Ids}
        \cup {Wish("delete", "none", i) : i \in Ids}
        \cup {Wish("read", "none", i) : i \in {j \in Ids : Len(j) = 1}}
        \cup {Wish("report", folder, i) :
                  folder \in {"spam", "inbox"}, i \in {j \in Ids : Len(j) = 1}}

Symmetry == Permutations(Messages) \cup Permutations(Requests)

=============================================================================
