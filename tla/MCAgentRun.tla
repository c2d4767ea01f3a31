----------------------------- MODULE MCAgentRun -----------------------------
(* Instances of AgentRun for TLC. *)
EXTENDS AgentRunProperties

CONSTANTS r1, r2, e1, e2, s1, s2, a, b, x

\* Two executors of one run.
SameRun == [e \in Executors |-> r1]

\* Nothing tells them apart.
Twins == Permutations({e1, e2})

\* A run of its own for each executor.
OwnRun == [e \in Executors |-> IF e = e1 THEN r1 ELSE r2]

NoChild == [rc \in Runs \X Calls |-> NoOne]

\* Call a of r1 is a task call that starts e2.
ChildInA == [rc \in Runs \X Calls |-> IF rc = <<r1, a>> THEN e2 ELSE NoOne]

\* All calls look the same to loop detection.
OneTool == [c \in Calls |-> "tool"]

\* Each call differs.
OwnTool == [c \in Calls |-> c]

\* x is not advertised.
RejectedAnywhere == {<<>>, <<a, x>>, <<x, b>>}
OneByOne == {<<>>, <<a>>, <<b>>}
Pair == {<<>>, <<a, b>>}

=============================================================================
