------------------------------- MODULE Mailbox -------------------------------
(* What the owner of a mailbox expects of it: each message is in one folder, *)
(* a request moves it along the permitted ways in one step, and a message is *)
(* deleted for good from the trash only, or with a folder of the owner's own.*)

CONSTANTS Messages, Folders

VARIABLES in  \* the messages that exist -> their folder

Permitted == [spam |-> {"trash"},
              sent |-> {"trash"},
              inbox |-> {"trash", "archive", "custom"},
              trash |-> {"sent", "inbox", "custom"},
              drafts |-> {}, archive |-> {}, custom |-> {}]

Init == in \in [Messages -> Folders]

Without(gone) == in' = [m \in DOMAIN in \ gone |-> in[m]]

Move == \E m \in DOMAIN in :
           \E folder \in Permitted[in[m]] : in' = [in EXCEPT ![m] = folder]
Report == \E m \in DOMAIN in, folder \in {"spam", "inbox"} :
             in' = [in EXCEPT ![m] = folder]
Delete == \E m \in DOMAIN in : in[m] = "trash" /\ Without({m})
DeleteFolder == Without({m \in DOMAIN in : in[m] = "custom"})

Next == Move \/ Report \/ Delete \/ DeleteFolder

Spec == Init /\ [][Next]_in

==============================================================================
