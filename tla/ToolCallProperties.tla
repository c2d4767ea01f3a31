------------------------- MODULE ToolCallProperties -------------------------
(***************************************************************************)
(* What is claimed of ToolCall: its type invariant, that a call runs only  *)
(* as it was allowed and is charged once, that its row tells how it ended, *)
(* that both ways of asking keep the contract, and that a recorded         *)
(* decision reaches the call that waits for it.                            *)
(***************************************************************************)
EXTENDS ToolCall

\* Every variable keeps its type.
TypeOK ==
  /\ perm \in [Attempts -> {"none", "pending"} \cup Decisions]
  /\ waiter \in [Attempts -> {"none", "empty"} \cup Decisions]
  /\ grant \in [Grants -> {"none", "live", "revoked"}]
  /\ used \in [Grants -> Nat]
  /\ decider \in [Deciders -> {Idle} \cup (DeciderPcs \X Attempts \X Decisions)]
  /\ question \in [Interactive -> {"none", "pending", "unavailable"} \cup Choices]
  /\ qwaiter \in [Interactive -> {"none", "empty"} \cup Choices]
  /\ answerer \in [Answerers -> {NoAnswer} \cup (AnswererPcs \X Interactive \X Choices)]
  /\ pc \in [Attempts -> AttemptPcs]
  /\ tool \in [Attempts -> Tools]
  /\ got \in [Attempts -> {"nothing", "gaveUp"} \cup Decisions]
  /\ heard \in [Interactive -> {"nothing", "gaveUp"} \cup Choices]
  /\ outcome \in [Attempts -> Outcomes \cup {"none"}]
  /\ ctxDone \in [Attempts -> BOOLEAN]
  /\ callState \in [CallIds -> Outcomes \cup {"none", "running"}]
  /\ charged \in [CallIds -> Grants \cup {NoGrant}]
  /\ swept \in [Attempts -> BOOLEAN]
  /\ task \in {"running", "paused", "cancelled"}

-----------------------------------------------------------------------------

\* A tool that needs approval runs only under a grant, and under the grant of a
\* permission only when that very decision is the one recorded for its call:
\* with two people deciding at once the loser, who may have issued a grant
\* already, starts nothing (ADR-043).
RanAsAllowed ==
  /\ \A a \in Attempts :
       pc[a] \in RunningPcs /\ tool[a] \in NeedsApproval => charged[CallOf[a]] # NoGrant
  /\ \A c \in CallIds : charged[c] \in PermGrants =>
       /\ perm[charged[c][1]] = charged[c][2]
       /\ CallOf[charged[c][1]] = c

\* A grant is charged exactly once for each call it started, whatever fails and
\* whichever ids are repeated: the charge and the row are one transaction.
ChargedByRows ==
  \A g \in Grants :
    /\ used[g] <= MaxCalls(g)
    /\ used[g] = Cardinality({c \in CallIds : charged[c] = g})

\* Although every executor of a run may sweep its rows at any time, the row of a
\* call that returned tells how the tool really ended, and no row is left
\* "running" once its call returned: finishToolCall takes a swept row back, and
\* the sweep never touches a settled one.
RowTellsOutcome ==
  \A a \in Attempts :
    /\ pc[a] = "returned" => callState[CallOf[a]] = outcome[a]
    /\ pc[a] \in RunningPcs \cup {"unfiled"} =>
         callState[CallOf[a]] \in {"running", "cancelled"}
    /\ (pc[a] = "unfiled" /\ swept[a]) => callState[CallOf[a]] = "cancelled"

\* A permission keeps the contract of asking: it is decided once, and the broker
\* obeys the recorded decision or denies the call.
Permission ==
  INSTANCE AskContract WITH
    Asks <- Attempts, Answers <- Decisions, recorded <- perm, told <- got

\* So does a question of ask_user.
Question ==
  INSTANCE AskContract WITH
    Asks <- Interactive, Answers <- Choices \cup {"unavailable"},
    recorded <- question, told <- heard

KeepsAskContract == Permission!AskSpec /\ Question!AskSpec

-----------------------------------------------------------------------------

\* A decision that is recorded while the broker waits reaches it without the help
\* of the fifteen-minute timer: it lies in the channel, or the request that
\* recorded it has yet to notify.  Registering before the row is inserted is what
\* closes the gap between the row and the Waiter.
DecisionIsOnItsWay ==
  \A a \in Attempts :
    pc[a] \in {"open", "wait"} /\ perm[a] \in Decisions =>
      \/ waiter[a] = perm[a]
      \/ \E k \in Deciders : decider[k] = <<"notify", a, perm[a]>>

\* The same said of ask_user: an answer is delivered to its waiter.
AnswerIsOnItsWay ==
  \A a \in Interactive :
    pc[a] = "qwait" /\ question[a] \in Choices =>
      \/ qwaiter[a] = question[a]
      \/ \E k \in Answerers : answerer[k] = <<"notify", a, question[a]>>

\* allow_similar is for the session (ADR-043): while its grant is live and not
\* used up, a later call of the same tool is not asked about again.
SimilarIsRemembered ==
  [][\A a, b \in Attempts :
       ( /\ pc[a] = "authorize" /\ pc'[a] = "register"
         /\ tool[b] = tool[a] /\ perm[b] = "similar"
         /\ Usable(<<b, "similar">>) )
       => FALSE]_vars

=============================================================================
