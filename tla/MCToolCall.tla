----------------------------- MODULE MCToolCall -----------------------------
(* Instances of ToolCall for TLC. *)
EXTENDS ToolCallProperties, TLC

CONSTANTS a1, a2, c1, c2, r1, k1, k2, h1, yes, no

\* Two executors of one run whose calls carry the same id.
SameCallOf == [a \in Attempts |-> c1]

\* Two calls of one run.
OwnCallOf == [a \in Attempts |-> IF a = a1 THEN c1 ELSE c2]

\* The first attempt asks a person, the second runs without asking.
MCMayCall == [a \in Attempts |-> IF a = a1 THEN {"exec", "ask_user"} ELSE {"write"}]

\* Both attempts run a command, which has to be permitted.
BothExec == [a \in Attempts |-> {"exec"}]

\* Requests to decide are alike.
Alike == Permutations(Deciders)

OneRunOf == [a \in Attempts |-> r1]

=============================================================================
