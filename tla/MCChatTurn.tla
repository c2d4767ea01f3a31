----------------------------- MODULE MCChatTurn -----------------------------
(* Instances of ChatTurn for TLC. *)
EXTENDS ChatTurnProperties

CONSTANTS t1, c1, c2, k1, k2, g1, g2

\* Both submissions and both clients are about the only task.
MCTaskOf == [c \in Calls |-> t1]
MCControlOf == [k \in Clients |-> t1]

=============================================================================
