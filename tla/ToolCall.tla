------------------------------ MODULE ToolCall ------------------------------
(***************************************************************************)
(* Broker.Execute: a tool call is authorized against the policy and the    *)
(* grants of its turn, may ask a person first, runs its tool outside every *)
(* lock and settles its row in tool_calls, while executors that end sweep  *)
(* the rows of their run, the task is paused or cancelled and its grants   *)
(* are revoked.  ToolPermission and UserQuestion are the two ways a call   *)
(* asks a person.                                                          *)
(*                                                                         *)
(* An attempt a \in Attempts is one call of Execute by one executor of the *)
(* run RunOf[a], under the call id CallOf[a]; two attempts may carry the   *)
(* same id.                                                                *)
(***************************************************************************)
EXTENDS ToolPermission, UserQuestion, FiniteSets

CONSTANTS
  CallIds, Runs,
  CallOf, RunOf,
  MayCall,      \* bound: the tools an attempt may call
  Faults        \* the faults that may happen

ASSUME ToolCallAssumption ==
  /\ CallOf \in [Attempts -> CallIds]
  /\ RunOf \in [Attempts -> Runs]
  /\ \A a, b \in Attempts : CallOf[a] = CallOf[b] => RunOf[a] = RunOf[b]
  /\ Interactive \subseteq Attempts
  /\ MayCall \in [Attempts -> SUBSET Tools]
  /\ Faults \subseteq {"storage", "crash"}
  /\ IsFiniteSet(CallIds)

VARIABLES
  pc,                \* an attempt's place
  tool,              \* the tool it calls
  got,               \* the decision it was told, "gaveUp", or "nothing"
  heard,             \* the answer ask_user was told, "gaveUp", or "nothing"
  outcome,           \* how the tool ended
  ctxDone,           \* the attempt's context is cancelled
  callState, charged,\* tool_calls rows: state and grant
  swept,             \* its executor has run CancelIncompleteToolCalls
  task               \* state of the turn's task

attemptVars == <<pc, tool, got, heard, outcome>>
rowVars == <<callState, charged>>
contextVars == <<ctxDone, swept, task>>
vars == <<permissionVars, userQuestionVars, attemptVars, rowVars, contextVars>>

-----------------------------------------------------------------------------

\* Policy: R0 is allowed, everything else requires approval.
NeedsApproval == {"write", "exec"}

AskingPcs == {"register", "insert", "look", "open", "wait"}
QuestionPcs == {"qinsert", "qregister", "qwait", "qclose"}
RunningPcs == {"running", "finish"} \cup QuestionPcs

\* "returned": the row was settled; "unfiled": settling it failed.
EndPcs == {"denied", "returned", "unfiled", "lost"}
AttemptPcs == {"idle", "authorize"} \cup AskingPcs \cup RunningPcs \cup EndPcs

Outcomes == {"succeeded", "failed", "timed_out", "cancelled"}

Init ==
  /\ PermissionInit /\ QuestionInit
  /\ pc = [a \in Attempts |-> "idle"]
  /\ tool = [a \in Attempts |-> "read"]
  /\ got = [a \in Attempts |-> "nothing"]
  /\ heard = [a \in Interactive |-> "nothing"]
  /\ outcome = [a \in Attempts |-> "none"]
  /\ ctxDone = [a \in Attempts |-> FALSE]
  /\ callState = [c \in CallIds |-> "none"]
  /\ charged = [c \in CallIds |-> NoGrant]
  /\ swept = [a \in Attempts |-> FALSE]
  /\ task = "running"

Goto(a, place) == pc' = [pc EXCEPT ![a] = place]

-----------------------------------------------------------------------------
(* Authorization.                                                          *)

\* The request is validated and its tool looked up; an invalid one is denied.
Begin(a) ==
  /\ pc[a] = "idle"
  /\ \E t \in MayCall[a] : tool' = [tool EXCEPT ![a] = t]
  /\ \E next \in {"authorize", "denied"} : Goto(a, next)
  /\ UNCHANGED <<permissionVars, userQuestionVars, got, heard, outcome, rowVars, contextVars>>

\* grantCandidates: the grant of an allowance comes before the turn's own.
Candidates(a) ==
  (IF got[a] \in Allowances THEN {<<a, got[a]>>} ELSE {})
    \cup {<<t, "preauth">> : t \in {tool[a]} \cap Preauthorized}

\* AuthorizeAndConsumeTx would accept g: the task is looked at, not its run.
Usable(g) == grant[g] = "live" /\ used[g] < MaxCalls(g) /\ task = "running"

\* The first candidate that is usable.
Chosen(a, g) ==
  /\ g \in Candidates(a) /\ Usable(g)
  /\ g \notin PermGrants => \A h \in Candidates(a) \cap PermGrants : ~Usable(h)

\* canWaitPermission: nested waits are off once an allowance was given.
CanWait(a) == a \in Interactive /\ got[a] = "nothing"

\* Mutant: the grant is charged although the row could not be inserted.
RecordStartLeaky(a, g) ==
  /\ used' = IF g = NoGrant THEN used ELSE [used EXCEPT ![g] = @ + 1]
  /\ \/ /\ callState[CallOf[a]] = "none"
        /\ callState' = [callState EXCEPT ![CallOf[a]] = "running"]
        /\ charged' = [charged EXCEPT ![CallOf[a]] = g]
        /\ Goto(a, "running")
     \/ /\ callState[CallOf[a]] # "none"
        /\ Goto(a, "denied")
        /\ UNCHANGED rowVars

\* The grant is charged and the row inserted in one transaction; a call id
\* that is taken rolls it back.
RecordStart(a, g) ==
  \/ /\ callState[CallOf[a]] = "none"
     /\ callState' = [callState EXCEPT ![CallOf[a]] = "running"]
     /\ charged' = [charged EXCEPT ![CallOf[a]] = g]
     /\ used' = IF g = NoGrant THEN used ELSE [used EXCEPT ![g] = @ + 1]
     /\ Goto(a, "running")
  \/ /\ callState[CallOf[a]] # "none"
     /\ Goto(a, "denied")
     /\ UNCHANGED <<used, rowVars>>

StartFree(a) ==
  /\ pc[a] = "authorize"
  /\ tool[a] \notin NeedsApproval /\ Candidates(a) = {}
  /\ RecordStart(a, NoGrant)
  /\ UNCHANGED <<permVars, grant, decider, userQuestionVars,
                 tool, got, heard, outcome, contextVars>>

StartGranted(a) ==
  /\ pc[a] = "authorize"
  /\ \E g \in Candidates(a) : Chosen(a, g) /\ RecordStart(a, g)
  /\ UNCHANGED <<permVars, grant, decider, userQuestionVars,
                 tool, got, heard, outcome, contextVars>>

\* No candidate is usable: ask a person, or deny.
AskOrDeny(a) ==
  /\ pc[a] = "authorize"
  /\ \A g \in Candidates(a) : ~Usable(g)
  /\ tool[a] \in NeedsApproval \/ Candidates(a) # {}
  /\ Goto(a, IF tool[a] \in NeedsApproval /\ CanWait(a) THEN "register" ELSE "denied")
  /\ UNCHANGED <<permissionVars, userQuestionVars, tool, got, heard, outcome,
                 rowVars, contextVars>>

-----------------------------------------------------------------------------
(* executeAfterPermission.                                                 *)

RegisterWaiter(a) ==
  /\ pc[a] = "register"
  /\ Register(a) /\ Goto(a, "insert")
  /\ UNCHANGED <<perm, grantVars, decider, userQuestionVars, tool, got, heard,
                 outcome, rowVars, contextVars>>

\* A permission that cannot be stored denies the call.
CreatePending(a) ==
  /\ pc[a] = "insert"
  /\ \/ /\ InsertPending(a) /\ Goto(a, "look")
        /\ UNCHANGED got
     \/ /\ ctxDone[a] \/ "storage" \in Faults
        /\ Goto(a, "denied")
        /\ got' = [got EXCEPT ![a] = "gaveUp"]
        /\ UNCHANGED perm
  /\ UNCHANGED <<waiter, grantVars, decider, userQuestionVars, tool, heard,
                 outcome, rowVars, contextVars>>

\* What the broker does with decision d: deny, or Execute again.
Obey(a, d) ==
  /\ got' = [got EXCEPT ![a] = d]
  /\ Goto(a, IF d = "deny" THEN "denied" ELSE "authorize")

\* Gate.Wait looks at the row before it waits.
LookAtRow(a) ==
  /\ pc[a] = "look"
  /\ \/ AlreadyDecided(a) /\ Obey(a, perm[a])
     \/ /\ ~AlreadyDecided(a) \/ ctxDone[a]
        /\ Goto(a, "open")
        /\ UNCHANGED got
  /\ UNCHANGED <<permissionVars, userQuestionVars, tool, heard, outcome,
                 rowVars, contextVars>>

OpenWaiter(a) ==
  /\ pc[a] = "open"
  /\ OpenChannel(a) /\ Goto(a, "wait")
  /\ UNCHANGED <<perm, grantVars, decider, userQuestionVars, tool, got, heard,
                 outcome, rowVars, contextVars>>

ReceiveDecision(a) ==
  /\ pc[a] = "wait" /\ waiter[a] \in Decisions
  /\ Obey(a, waiter[a])
  /\ Cleanup(a)
  /\ UNCHANGED <<perm, grantVars, decider, userQuestionVars, tool, heard,
                 outcome, rowVars, contextVars>>

\* Fifteen minutes are over or the context is cancelled; the row stays pending.
GiveUpWaiting(a) ==
  /\ pc[a] = "wait"
  /\ got' = [got EXCEPT ![a] = "gaveUp"]
  /\ Goto(a, "denied")
  /\ Cleanup(a)
  /\ UNCHANGED <<perm, grantVars, decider, userQuestionVars, tool, heard,
                 outcome, rowVars, contextVars>>

-----------------------------------------------------------------------------
(* The tool runs, outside the broker's locks.                              *)

BodyEnds(a, o) ==
  /\ outcome' = [outcome EXCEPT ![a] = o]
  /\ Goto(a, "finish")

\* Any tool: it succeeds, fails, runs out of time or sees the cancellation.
RunTool(a) ==
  /\ pc[a] = "running" /\ tool[a] # "ask_user"
  /\ \E o \in Outcomes : (o = "cancelled" => ctxDone[a]) /\ BodyEnds(a, o)
  /\ UNCHANGED <<permissionVars, userQuestionVars, tool, got, heard, rowVars, contextVars>>

\* ask_user without a person to ask, or with one.
AskUser(a) ==
  /\ pc[a] = "running" /\ tool[a] = "ask_user"
  /\ \/ /\ a \notin Interactive
        /\ BodyEnds(a, "succeeded")
     \/ /\ a \in Interactive
        /\ Goto(a, "qinsert")
        /\ UNCHANGED outcome
  /\ UNCHANGED <<permissionVars, userQuestionVars, tool, got, heard, rowVars, contextVars>>

\* Invalid questions and a failed insert are reported to the model.
CreateQuestion(a) ==
  /\ a \in Interactive /\ pc[a] = "qinsert"
  /\ \/ /\ InsertQuestion(a) /\ Goto(a, "qregister")
        /\ UNCHANGED <<heard, outcome>>
     \/ /\ heard' = [heard EXCEPT ![a] = "gaveUp"]
        /\ BodyEnds(a, "succeeded")
        /\ UNCHANGED question
  /\ UNCHANGED <<permissionVars, qwaiter, answerer, tool, got, rowVars, contextVars>>

RegisterAsker(a) ==
  /\ a \in Interactive /\ pc[a] = "qregister"
  /\ RegisterQuestion(a) /\ Goto(a, "qwait")
  /\ UNCHANGED <<permissionVars, question, answerer, tool, got, heard, outcome,
                 rowVars, contextVars>>

\* Told an answer, or that the question was closed: the tool succeeds.
ReceiveAnswer(a) ==
  /\ a \in Interactive /\ pc[a] = "qwait" /\ qwaiter[a] \in Choices
  /\ heard' = [heard EXCEPT ![a] = qwaiter[a]]
  /\ CleanupQuestion(a)
  /\ BodyEnds(a, "succeeded")
  /\ UNCHANGED <<permissionVars, question, answerer, tool, got, rowVars, contextVars>>

\* The tool's timeout or the cancellation ends the wait.
StopAsking(a) ==
  /\ a \in Interactive /\ pc[a] = "qwait"
  /\ heard' = [heard EXCEPT ![a] = "gaveUp"]
  /\ CleanupQuestion(a) /\ Goto(a, "qclose")
  /\ UNCHANGED <<permissionVars, question, answerer, tool, got, outcome,
                 rowVars, contextVars>>

\* MarkUnavailable, then the tool reports "unavailable" as its result.
CloseQuestion(a) ==
  /\ a \in Interactive /\ pc[a] = "qclose"
  /\ MarkUnavailable(a)
  /\ BodyEnds(a, "succeeded")
  /\ UNCHANGED <<permissionVars, qwaiter, answerer, tool, got, heard, rowVars, contextVars>>

-----------------------------------------------------------------------------
(* The row is settled.                                                     *)

\* Mutant: the row is only settled while nobody has swept it.
SettleRowIfRunning(a) ==
  callState' = [callState EXCEPT ![CallOf[a]] = IF @ = "running" THEN outcome[a] ELSE @]

\* finishToolCall updates the row whatever its state.
SettleRow(a) ==
  callState' = [callState EXCEPT ![CallOf[a]] = outcome[a]]

Finish(a) ==
  /\ pc[a] = "finish"
  /\ \/ SettleRow(a) /\ Goto(a, "returned")
     \/ /\ "storage" \in Faults
        /\ Goto(a, "unfiled")
        /\ UNCHANGED callState
  /\ UNCHANGED <<permissionVars, userQuestionVars, tool, got, heard, outcome,
                 charged, contextVars>>

\* CancelIncompleteToolCalls: the rows of run r that are still running.
CancelIncomplete(r) ==
  callState' = [c \in CallIds |->
    IF callState[c] = "running" /\ \E a \in Attempts : CallOf[a] = c /\ RunOf[a] = r
      THEN "cancelled" ELSE callState[c]]

\* An executor whose turn is cancelled or failed sweeps its run.
Sweep(a) ==
  /\ pc[a] \in {"denied", "returned", "unfiled"} /\ ~swept[a]
  /\ CancelIncomplete(RunOf[a])
  /\ swept' = [swept EXCEPT ![a] = TRUE]
  /\ UNCHANGED <<permissionVars, userQuestionVars, attemptVars, charged, ctxDone, task>>

-----------------------------------------------------------------------------
(* The task, its grants and the process, as other components move them.    *)

ControlTask ==
  /\ \/ task = "running" /\ task' \in {"paused", "cancelled"}
     \/ task = "paused" /\ task' \in {"running", "cancelled"}
  /\ UNCHANGED <<permissionVars, userQuestionVars, attemptVars, rowVars, ctxDone, swept>>

\* Pause and cancel interrupt an executor that is at work.
Interrupt(a) ==
  /\ task # "running" /\ ~ctxDone[a]
  /\ pc[a] \notin {"idle"} \cup EndPcs
  /\ ctxDone' = [ctxDone EXCEPT ![a] = TRUE]
  /\ UNCHANGED <<permissionVars, userQuestionVars, attemptVars, rowVars, swept, task>>

RevokeTaskGrants ==
  /\ task = "cancelled"
  /\ \E g \in Grants : grant[g] = "live"
  /\ grant' = [g \in Grants |-> IF grant[g] = "live" THEN "revoked" ELSE grant[g]]
  /\ UNCHANGED <<permVars, used, decider, userQuestionVars, attemptVars,
                 rowVars, contextVars>>

\* The daemon dies: goroutines, waiters and requests are gone, rows stay.
Crash ==
  /\ "crash" \in Faults
  /\ \E a \in Attempts : pc[a] \notin {"idle"} \cup EndPcs
  /\ pc' = [a \in Attempts |-> IF pc[a] \in {"idle"} \cup EndPcs THEN pc[a] ELSE "lost"]
  /\ waiter' = [a \in Attempts |-> "none"]
  /\ qwaiter' = [a \in Interactive |-> "none"]
  /\ decider' = [k \in Deciders |-> Idle]
  /\ answerer' = [k \in Answerers |-> NoAnswer]
  /\ UNCHANGED <<perm, grantVars, question,
                 tool, got, heard, outcome, rowVars, contextVars>>

-----------------------------------------------------------------------------

\* What an attempt does by itself.
Execute(a) ==
  \/ StartFree(a) \/ StartGranted(a) \/ AskOrDeny(a)
  \/ RegisterWaiter(a) \/ CreatePending(a) \/ LookAtRow(a) \/ OpenWaiter(a) \/ ReceiveDecision(a)
  \/ RunTool(a) \/ AskUser(a) \/ CreateQuestion(a) \/ RegisterAsker(a)
  \/ ReceiveAnswer(a) \/ CloseQuestion(a) \/ Finish(a)

\* The requests of the gateway.
PeopleAct ==
  \/ /\ \E k \in Deciders : Decide(k) \/ DeciderRuns(k)
     /\ UNCHANGED <<userQuestionVars, attemptVars, rowVars, contextVars>>
  \/ /\ \E k \in Answerers : Answer(k) \/ AnswererRuns(k)
     /\ UNCHANGED <<permissionVars, attemptVars, rowVars, contextVars>>

Next ==
  \/ \E a \in Attempts : \/ Begin(a) \/ Execute(a)
                         \/ GiveUpWaiting(a) \/ StopAsking(a)
                         \/ Sweep(a) \/ Interrupt(a)
  \/ PeopleAct
  \/ ControlTask \/ RevokeTaskGrants \/ Crash

Spec == Init /\ [][Next]_vars

=============================================================================
