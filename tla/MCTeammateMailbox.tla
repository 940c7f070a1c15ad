-------------------------- MODULE MCTeammateMailbox --------------------------
(* Instances of TeammateMailbox. *)
EXTENDS TeammateMailbox

CONSTANTS m1, m2, m3

Peer == [structured |-> FALSE, shutdown |-> FALSE, lead |-> FALSE]
Lead == [Peer EXCEPT !.lead = TRUE]
Shutdown == [structured |-> TRUE, shutdown |-> TRUE, lead |-> TRUE]

Kinds == [m \in Messages |-> CASE m = m1 -> Peer [] m = m2 -> Shutdown [] OTHER -> Lead]
=============================================================================
