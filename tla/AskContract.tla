----------------------------- MODULE AskContract -----------------------------
(***************************************************************************)
(* What asking a person promises, whoever asks and whatever about: the     *)
(* recorded answer to an ask is given once and never changes, and the      *)
(* asker is told what is recorded or gives up.  The permissions of the     *)
(* tool broker and the questions of ask_user both implement it.            *)
(***************************************************************************)
CONSTANTS
  Asks,      \* who asks
  Answers    \* what may be recorded

VARIABLES
  recorded,  \* the durable row of an ask
  told       \* what its asker heard

askVars == <<recorded, told>>

AskInit ==
  /\ recorded = [a \in Asks |-> "none"]
  /\ told = [a \in Asks |-> "nothing"]

Ask(a) ==
  /\ recorded[a] = "none"
  /\ recorded' = [recorded EXCEPT ![a] = "pending"]
  /\ UNCHANGED told

Record(a, x) ==
  /\ recorded[a] = "pending"
  /\ recorded' = [recorded EXCEPT ![a] = x]
  /\ UNCHANGED told

Tell(a) ==
  /\ told[a] = "nothing" /\ recorded[a] \in Answers
  /\ told' = [told EXCEPT ![a] = recorded[a]]
  /\ UNCHANGED recorded

\* Out of time, interrupted, or the ask could not be recorded.
GiveUp(a) ==
  /\ told[a] = "nothing"
  /\ told' = [told EXCEPT ![a] = "gaveUp"]
  /\ UNCHANGED recorded

AskNext ==
  \E a \in Asks : Ask(a) \/ Tell(a) \/ GiveUp(a) \/ \E x \in Answers : Record(a, x)

AskSpec == AskInit /\ [][AskNext]_askVars

=============================================================================
