--------------------------- MODULE ChatTurnProofs ---------------------------
(***************************************************************************)
(* Proofs, for every value of ChatTurn's constants, of the type invariant, *)
(* the safety invariants and action properties of a chat turn, and that it *)
(* implements TurnContract.                                                *)
(***************************************************************************)
EXTENDS ChatTurnProperties, TLAPS

-----------------------------------------------------------------------------
(* Inductive invariants.                                                   *)

\* A call that was accepted has a task.
TaskKnown == \A c \in Calls : pc[c] # "idle" => state[TaskOf[c]] # "none"

\* From the grants on a call has a run.
RunKnown == \A c \in Calls : pc[c] \in TurnPcs \cup {"grants"} => run[TaskOf[c]] # "none"

\* cancelChat runs only for a cancelled task.
CancelSeen == \A c \in Calls : pc[c] = "cancel" => state[TaskOf[c]] = "cancelled"

RowsInv == TypeOK /\ TaskRunAgree /\ TaskKnown /\ RunKnown /\ CancelSeen

\* A task that has a plan has left created behind.
PlanKnown ==
  /\ \A t \in Tasks : step[t] # "none" => state[t] \notin {"none", "created"}
  /\ \A c \in Calls : pc[c] \in {"approve", "create"} => step[TaskOf[c]] # "none"

\* Nobody holds a version the row has not had yet.
VersionsKnown ==
  /\ \A t \in Tasks : state[t] = "none" => version[t] = 0
  /\ \A k \in Clients : seenVersion[k] <= version[ControlOf[k]]
  /\ \A c \in Calls : snap[c] <= version[TaskOf[c]]

VersionInv == VersionTellsState /\ VersionsKnown


-----------------------------------------------------------------------------

USE ChatTurnAssumption DEF ChatTurnAssumption

\* A write of the tasks table, or none, keeps the types of the task rows.
LEMMA TaskWriteTypes ==
  ASSUME TypeOK, NEW t \in Tasks, NEW s \in TaskRows,
         MoveTask(t, s) \/ KernelMove(t, s) \/ UNCHANGED taskVars
  PROVE  /\ state' \in [Tasks -> TaskRows]
         /\ version' \in [Tasks -> Nat]
         /\ logged' \in [Tasks -> SUBSET Nat]
<1> USE DEF TypeOK
<1>1. CASE MoveTask(t, s)
  BY <1>1 DEF MoveTask
<1>2. CASE KernelMove(t, s)
  BY <1>2 DEF KernelMove
<1>3. CASE UNCHANGED taskVars
  BY <1>3 DEF taskVars
<1> QED
  BY <1>1, <1>2, <1>3

\* The initial rows and maps are well typed.
LEMMA TypeInit == Init => TypeOK
  BY DEF Init, TypeOK, TaskRows, TaskStates, StepRows, RunRows, RunStates, GrantRows,
       CallPcs, ClientPcs

\* Every reachable state is well typed, for every set of tasks, submissions,
\* clients and scopes and with every fault.
THEOREM TypeCorrect == Spec => []TypeOK
<1>1. Init => TypeOK
  BY TypeInit
<1>2. TypeOK /\ [Next]_vars => TypeOK'
  <2> SUFFICES ASSUME TypeOK, [Next]_vars PROVE TypeOK'
    OBVIOUS
  <2> USE DEF TypeOK, TaskRows, TaskStates, StepRows, RunRows, RunStates, GrantRows, CallPcs,
       StartPcs, TurnPcs, EndPcs, ClientPcs,
          taskVars, turnVars, grantVars, callVars, clientVars, Goto
  <2>1. ASSUME NEW c \in Calls, SubmitNew(c) PROVE TypeOK'
    BY <2>1 DEF SubmitNew, KernelMove
  <2>2. ASSUME NEW c \in Calls, SubmitExisting(c) PROVE TypeOK'
    BY <2>2 DEF SubmitExisting
  <2>3. ASSUME NEW c \in Calls, ReuseRun(c) PROVE TypeOK'
    BY <2>3 DEF ReuseRun
  <2>4. ASSUME NEW c \in Calls, LookupPlan(c) PROVE TypeOK'
    BY <2>4 DEF LookupPlan
  <2>5. ASSUME NEW c \in Calls, CreatePlan(c) PROVE TypeOK'
    <3>1. \/ MoveTask(TaskOf[c], "running")
          \/ KernelMove(TaskOf[c], "running") \/ UNCHANGED taskVars
      BY <2>5 DEF CreatePlan
    <3>2. /\ state' \in [Tasks -> TaskRows]
          /\ version' \in [Tasks -> Nat]
          /\ logged' \in [Tasks -> SUBSET Nat]
      BY <3>1, TaskWriteTypes
    <3>3. step' \in [Tasks -> StepRows]
      BY <2>5 DEF CreatePlan
    <3>4. run' \in [Tasks -> RunRows]
      BY <2>5 DEF CreatePlan
    <3>5. pc' \in [Calls -> CallPcs] /\ UNCHANGED <<snap, todo>>
      <4>1. Goto(c, "approve") \/ Goto(c, "refused")
        BY <2>5 DEF CreatePlan
      <4> QED
        BY <4>1
    <3> QED
      BY <2>5, <3>2, <3>3, <3>4, <3>5 DEF CreatePlan
  <2>6. ASSUME NEW c \in Calls, RecordApproval(c) PROVE TypeOK'
    BY <2>6 DEF RecordApproval
  <2>7. ASSUME NEW c \in Calls, CreateChatRun(c) PROVE TypeOK'
    <3>1. \/ MoveTask(TaskOf[c], "running")
          \/ KernelMove(TaskOf[c], "running") \/ UNCHANGED taskVars
      BY <2>7 DEF CreateChatRun
    <3>2. /\ state' \in [Tasks -> TaskRows]
          /\ version' \in [Tasks -> Nat]
          /\ logged' \in [Tasks -> SUBSET Nat]
      BY <3>1, TaskWriteTypes
    <3>3. step' \in [Tasks -> StepRows]
      BY <2>7 DEF CreateChatRun
    <3>4. run' \in [Tasks -> RunRows]
      BY <2>7 DEF CreateChatRun
    <3>5. pc' \in [Calls -> CallPcs] /\ UNCHANGED <<snap, todo>>
      BY <2>7 DEF CreateChatRun
    <3> QED
      BY <2>7, <3>2, <3>3, <3>4, <3>5 DEF CreateChatRun
  <2>8. ASSUME NEW c \in Calls, NEW g \in Caps, IssueGrant(c, g) PROVE TypeOK'
    BY <2>8 DEF IssueGrant
  <2>9. ASSUME NEW c \in Calls, Launch(c) PROVE TypeOK'
    BY <2>9 DEF Launch
  <2>10. ASSUME NEW c \in Calls, SetActive(c) PROVE TypeOK'
    BY <2>10 DEF SetActive
  <2>11. ASSUME NEW c \in Calls, MarkRun(c) PROVE TypeOK'
    BY <2>11 DEF MarkRun
  <2>12. ASSUME NEW c \in Calls, MarkStep(c) PROVE TypeOK'
    BY <2>12 DEF MarkStep
  <2>13. ASSUME NEW c \in Calls, NEW g \in Caps, CallTool(c, g) PROVE TypeOK'
    <3>1. <<TaskOf[c], g>> \in Tasks \X Caps
      BY <2>13
    <3>2. used' \in [Tasks \X Caps -> Nat]
      BY <2>13, <3>1 DEF CallTool
    <3> QED
      BY <2>13, <3>2 DEF CallTool
  <2>14. ASSUME NEW c \in Calls, Answer(c) PROVE TypeOK'
    BY <2>14 DEF Answer
  <2>15. ASSUME NEW c \in Calls, StopTurn(c) PROVE TypeOK'
    BY <2>15 DEF StopTurn
  <2>16. ASSUME NEW c \in Calls, BreakTurn(c) PROVE TypeOK'
    BY <2>16 DEF BreakTurn
  <2>17. ASSUME NEW c \in Calls, ReadInterrupt(c) PROVE TypeOK'
    BY <2>17 DEF ReadInterrupt
  <2>18. ASSUME NEW c \in Calls, CheckComplete(c) PROVE TypeOK'
    BY <2>18 DEF CheckComplete
  <2>19. ASSUME NEW c \in Calls, CompleteChat(c) PROVE TypeOK'
    <3>1. \/ MoveTask(TaskOf[c], "completed")
          \/ KernelMove(TaskOf[c], "completed") \/ UNCHANGED taskVars
      BY <2>19 DEF CompleteChat
    <3>2. /\ state' \in [Tasks -> TaskRows]
          /\ version' \in [Tasks -> Nat]
          /\ logged' \in [Tasks -> SUBSET Nat]
      BY <3>1, TaskWriteTypes
    <3>3. /\ step' \in [Tasks -> StepRows]
          /\ run' \in [Tasks -> RunRows]
          /\ pc' \in [Calls -> CallPcs]
      BY <2>19 DEF CompleteChat
    <3> QED
      BY <2>19, <3>2, <3>3 DEF CompleteChat
  <2>20. ASSUME NEW c \in Calls, CancelChat(c) PROVE TypeOK'
    BY <2>20 DEF CancelChat
  <2>21. ASSUME NEW c \in Calls, FailChat(c) PROVE TypeOK'
    <3>1. \/ MoveTask(TaskOf[c], "failed")
          \/ KernelMove(TaskOf[c], "failed") \/ UNCHANGED taskVars
      BY <2>21 DEF FailChat
    <3>2. /\ state' \in [Tasks -> TaskRows]
          /\ version' \in [Tasks -> Nat]
          /\ logged' \in [Tasks -> SUBSET Nat]
      BY <3>1, TaskWriteTypes
    <3>3. /\ step' \in [Tasks -> StepRows]
          /\ run' \in [Tasks -> RunRows]
          /\ pc' \in [Calls -> CallPcs]
      BY <2>21 DEF FailChat
    <3> QED
      BY <2>21, <3>2, <3>3 DEF FailChat
  <2>22. ASSUME NEW c \in Calls, Exit(c) PROVE TypeOK'
    BY <2>22 DEF Exit
  <2>23. ASSUME NEW k \in Clients, Look(k) PROVE TypeOK'
    BY <2>23 DEF Look
  <2>24. ASSUME NEW k \in Clients, NEW verb \in Verbs, ControlTask(k, verb) PROVE TypeOK'
    <3>1. \E s \in TaskRows : KernelMove(ControlOf[k], s) \/ UNCHANGED taskVars
      BY <2>24 DEF ControlTask, VerbState
    <3>2. /\ state' \in [Tasks -> TaskRows]
          /\ version' \in [Tasks -> Nat]
          /\ logged' \in [Tasks -> SUBSET Nat]
      BY <3>1, TaskWriteTypes
    <3>3. cpc' \in [Clients -> ClientPcs]
      BY <2>24 DEF ControlTask, VerbNext
    <3> QED
      BY <2>24, <3>2, <3>3 DEF ControlTask
  <2>25. ASSUME NEW k \in Clients, Interrupt(k) PROVE TypeOK'
    BY <2>25 DEF Interrupt
  <2>26. ASSUME NEW k \in Clients, RevokeTaskGrants(k) PROVE TypeOK'
    BY <2>26 DEF RevokeTaskGrants
  <2>27. ASSUME NEW c \in Calls, AbandonStart(c) PROVE TypeOK'
    BY <2>27 DEF AbandonStart
  <2>28. ASSUME NEW c \in Calls, StorageError(c) PROVE TypeOK'
    BY <2>28 DEF StorageError, AfterStorageError
  <2>29. ASSUME NEW k \in Clients, RevokeError(k) PROVE TypeOK'
    BY <2>29 DEF RevokeError
  <2>30. CASE Crash
    BY <2>30 DEF Crash
  <2>99. CASE UNCHANGED vars
    BY <2>99 DEF vars
  <2> QED
    BY <2>1, <2>2, <2>3, <2>4, <2>5, <2>6, <2>7, <2>8, <2>9, <2>10, <2>11, <2>12, <2>13,
         <2>14, <2>15, <2>16, <2>17, <2>18, <2>19, <2>20, <2>21, <2>22, <2>23, <2>24, <2>25,
         <2>26, <2>27, <2>28, <2>29, <2>30, <2>99 DEF Next, Submit, StartChat, ExecuteChat,
         Fault
<1> QED
  BY <1>1, <1>2, PTL DEF Spec
\* The inductive invariant behind TaskRunAgree: what a call's place says about
\* the rows it will write (failChat relies on the run it saw inserted, cancelChat
\* on the cancel it saw).
THEOREM RowsInvariant == Spec => []RowsInv
<1>1. Init => RowsInv
  BY TypeInit DEF Init, RowsInv, TaskRunAgree, RowsAgree, TaskKnown, RunKnown, CancelSeen,
       OpenRuns, TurnPcs
<1>2. RowsInv /\ TypeOK' /\ [Next]_vars => RowsInv'
  <2> DEFINE Rows == TaskRunAgree /\ TaskKnown /\ RunKnown /\ CancelSeen
  <2> SUFFICES ASSUME RowsInv, TypeOK', [Next]_vars PROVE Rows'
    BY DEF RowsInv
  <2> USE DEF RowsInv, TypeOK, TaskRunAgree, RowsAgree, TaskKnown, RunKnown, CancelSeen,
       OpenRuns, StartPcs, TurnPcs, taskVars, turnVars, grantVars, callVars, clientVars,
       Goto
  <2>1. ASSUME NEW c \in Calls, SubmitNew(c) PROVE Rows'
    BY <2>1 DEF SubmitNew, KernelMove
  <2>2. ASSUME NEW c \in Calls, SubmitExisting(c) PROVE Rows'
    BY <2>2 DEF SubmitExisting
  <2>3. ASSUME NEW c \in Calls, ReuseRun(c) PROVE Rows'
    BY <2>3 DEF ReuseRun
  <2>4. ASSUME NEW c \in Calls, LookupPlan(c) PROVE Rows'
    BY <2>4 DEF LookupPlan
  <2>5. ASSUME NEW c \in Calls, CreatePlan(c) PROVE Rows'
    <3> DEFINE t == TaskOf[c]
    <3>1. CASE version[t] = snap[c] /\ state[t] = "created"
      <4>1. state' = [state EXCEPT ![t] = "running"] /\ pc' = [pc EXCEPT ![c] = "approve"]
        BY <2>5, <3>1 DEF CreatePlan, KernelMove
      <4>2. UNCHANGED run
        BY <2>5 DEF CreatePlan
      <4> QED
        BY <3>1, <4>1, <4>2
    <3>2. CASE ~(version[t] = snap[c] /\ state[t] = "created")
      <4>1. UNCHANGED <<state, run>> /\ pc' = [pc EXCEPT ![c] = "refused"]
        BY <2>5, <3>2 DEF CreatePlan
      <4>2. pc[c] = "plan"
        BY <2>5 DEF CreatePlan
      <4> QED
        BY <4>1, <4>2
    <3> QED
      BY <3>1, <3>2
  <2>6. ASSUME NEW c \in Calls, RecordApproval(c) PROVE Rows'
    BY <2>6 DEF RecordApproval
  <2>7. ASSUME NEW c \in Calls, CreateChatRun(c) PROVE Rows'
    <3> DEFINE t == TaskOf[c]
    <3>1. pc[c] = "create" /\ state[t] # "none" /\ RowsAgree(state[t], run[t])
      BY <2>7 DEF CreateChatRun
    <3>2. CASE run[t] # "none"
      <4>1. UNCHANGED <<state, run>> /\ pc' = [pc EXCEPT ![c] = "grants"]
        BY <2>7, <3>2 DEF CreateChatRun
      <4> QED
        BY <3>1, <3>2, <4>1
    <3>3. CASE run[t] = "none" /\ state[t] \in {"paused", "cancelled"}
      <4>1. UNCHANGED <<state, run>> /\ pc' = [pc EXCEPT ![c] = "refused"]
        BY <2>7, <3>3 DEF CreateChatRun
      <4> QED
        BY <3>1, <4>1
    <3>4. CASE run[t] = "none" /\ state[t] \notin {"paused", "cancelled"}
      <4>1. state[t] \in {"created", "running"}
        BY <3>1, <3>4
      <4>2. state' = [state EXCEPT ![t] = "running"]
        BY <2>7, <3>4, <4>1 DEF CreateChatRun, MoveTask
      <4>3. run' = [run EXCEPT ![t] = "created"] /\ pc' = [pc EXCEPT ![c] = "grants"]
        BY <2>7, <3>4 DEF CreateChatRun
      <4> QED
        BY <3>1, <4>1, <4>2, <4>3
    <3> QED
      BY <3>2, <3>3, <3>4
  <2>8. ASSUME NEW c \in Calls, NEW g \in Caps, IssueGrant(c, g) PROVE Rows'
    BY <2>8 DEF IssueGrant
  <2>9. ASSUME NEW c \in Calls, Launch(c) PROVE Rows'
    BY <2>9 DEF Launch
  <2>10. ASSUME NEW c \in Calls, SetActive(c) PROVE Rows'
    BY <2>10 DEF SetActive
  <2>11. ASSUME NEW c \in Calls, MarkRun(c) PROVE Rows'
    BY <2>11 DEF MarkRun
  <2>12. ASSUME NEW c \in Calls, MarkStep(c) PROVE Rows'
    BY <2>12 DEF MarkStep
  <2>13. ASSUME NEW c \in Calls, NEW g \in Caps, CallTool(c, g) PROVE Rows'
    BY <2>13 DEF CallTool
  <2>14. ASSUME NEW c \in Calls, Answer(c) PROVE Rows'
    BY <2>14 DEF Answer
  <2>15. ASSUME NEW c \in Calls, StopTurn(c) PROVE Rows'
    BY <2>15 DEF StopTurn
  <2>16. ASSUME NEW c \in Calls, BreakTurn(c) PROVE Rows'
    BY <2>16 DEF BreakTurn
  <2>17. ASSUME NEW c \in Calls, ReadInterrupt(c) PROVE Rows'
    BY <2>17 DEF ReadInterrupt
  <2>18. ASSUME NEW c \in Calls, CheckComplete(c) PROVE Rows'
    BY <2>18 DEF CheckComplete
  <2>19. ASSUME NEW c \in Calls, CompleteChat(c) PROVE Rows'
    BY <2>19 DEF CompleteChat, MoveTask
  <2>20. ASSUME NEW c \in Calls, CancelChat(c) PROVE Rows'
    BY <2>20 DEF CancelChat
  <2>21. ASSUME NEW c \in Calls, FailChat(c) PROVE Rows'
    <3> DEFINE t == TaskOf[c]
    <3>1. run[t] # "none" /\ state[t] # "none"
      BY <2>21 DEF FailChat
    <3>2. \A u \in Tasks : u # t => state'[u] = state[u] /\ run'[u] = run[u]
      BY <2>21 DEF FailChat, MoveTask
    <3>3. run'[t] = "failed"
      BY <2>21 DEF FailChat
    <3>4. state'[t] = IF state[t] \in {"running", "paused"} THEN "failed" ELSE state[t]
      BY <2>21 DEF FailChat, MoveTask
    <3>5. RowsAgree(state[t], run[t])
      OBVIOUS
    <3>6. TaskRunAgree'
      BY <3>1, <3>2, <3>3, <3>4, <3>5 DEF RunRows, RunStates
    <3>7. pc' = [pc EXCEPT ![c] = "exit"]
      BY <2>21 DEF FailChat
    <3> HIDE DEF t
    <3> QED
      BY <3>1, <3>2, <3>3, <3>4, <3>6, <3>7 DEF t
  <2>22. ASSUME NEW c \in Calls, Exit(c) PROVE Rows'
    BY <2>22 DEF Exit
  <2>23. ASSUME NEW k \in Clients, Look(k) PROVE Rows'
    BY <2>23 DEF Look
  <2>24. ASSUME NEW k \in Clients, NEW verb \in Verbs, ControlTask(k, verb) PROVE Rows'
    BY <2>24 DEF ControlTask, VerbState, VerbNext, TaskTransitions, KernelMove
  <2>25. ASSUME NEW k \in Clients, Interrupt(k) PROVE Rows'
    BY <2>25 DEF Interrupt
  <2>26. ASSUME NEW k \in Clients, RevokeTaskGrants(k) PROVE Rows'
    BY <2>26 DEF RevokeTaskGrants
  <2>27. ASSUME NEW c \in Calls, AbandonStart(c) PROVE Rows'
    BY <2>27 DEF AbandonStart
  <2>28. ASSUME NEW c \in Calls, StorageError(c) PROVE Rows'
    BY <2>28 DEF StorageError, AfterStorageError
  <2>29. ASSUME NEW k \in Clients, RevokeError(k) PROVE Rows'
    BY <2>29 DEF RevokeError
  <2>30. CASE Crash
    BY <2>30 DEF Crash
  <2>99. CASE UNCHANGED vars
    BY <2>99 DEF vars
  <2> QED
    BY <2>1, <2>2, <2>3, <2>4, <2>5, <2>6, <2>7, <2>8, <2>9, <2>10, <2>11, <2>12, <2>13,
         <2>14, <2>15, <2>16, <2>17, <2>18, <2>19, <2>20, <2>21, <2>22, <2>23, <2>24, <2>25,
         <2>26, <2>27, <2>28, <2>29, <2>30, <2>99 DEF Next, Submit, StartChat, ExecuteChat,
         Fault
<1> QED
  BY TypeCorrect, <1>1, <1>2, PTL DEF Spec

\* TaskRunAgree for every set of tasks, submissions and clients.
THEOREM RowsStayTogether == Spec => []TaskRunAgree
BY RowsInvariant, PTL DEF RowsInv

\* A write of one task row moves its version on, so whoever held the old version
\* no longer holds the current one.
LEMMA WriteKeepsVersions ==
  ASSUME TypeOK, TypeOK', VersionInv, NEW t \in Tasks, NEW s \in TaskStates,
         \/ state' = [state EXCEPT ![t] = s] /\ version' = [version EXCEPT ![t] = @ + 1]
         \/ UNCHANGED <<state, version>>,
         UNCHANGED <<seenState, seenVersion, snap>>,
         \A c \in Calls : pc'[c] \in {"auth", "plan"} => pc[c] \in {"auth", "plan"}
  PROVE  VersionInv'
<1> USE DEF TypeOK, VersionInv, VersionTellsState, VersionsKnown, TaskStates
<1>1. CASE UNCHANGED <<state, version>>
  BY <1>1
<1>2. CASE state' = [state EXCEPT ![t] = s] /\ version' = [version EXCEPT ![t] = @ + 1]
  <2>1. VersionsKnown'
    BY <1>2
  <2>2. \A k \in Clients :
          seenVersion[k] = version'[ControlOf[k]] => seenState[k] = state'[ControlOf[k]]
    BY <1>2
  <2>3. ASSUME NEW c \in Calls, pc'[c] \in {"auth", "plan"}, snap[c] = version'[TaskOf[c]]
        PROVE  state'[TaskOf[c]] = "created"
    BY <1>2, <2>3
  <2> QED
    BY <2>1, <2>2, <2>3
<1> QED
  BY <1>1, <1>2

\* The inductive invariant behind VersionTellsState: every write of a task row,
\* by the kernel or by chatsession's own UPDATE, moves its version on.
THEOREM VersionInvariant == Spec => []VersionInv
<1>1. Init => VersionInv
  BY DEF Init, VersionInv, VersionTellsState, VersionsKnown
<1>2. VersionInv /\ TypeOK /\ TypeOK' /\ [Next]_vars => VersionInv'
  <2> SUFFICES ASSUME VersionInv, TypeOK, TypeOK', [Next]_vars PROVE VersionInv'
    OBVIOUS
  <2> USE DEF TypeOK, VersionInv, VersionTellsState, VersionsKnown, StartPcs, TurnPcs,
       taskVars, turnVars, grantVars, callVars, clientVars, Goto
  <2>1. ASSUME NEW c \in Calls, SubmitNew(c) PROVE VersionInv'
    BY <2>1 DEF SubmitNew, KernelMove
  <2>2. ASSUME NEW c \in Calls, SubmitExisting(c) PROVE VersionInv'
    BY <2>2 DEF SubmitExisting
  <2>3. ASSUME NEW c \in Calls, ReuseRun(c) PROVE VersionInv'
    BY <2>3 DEF ReuseRun
  <2>4. ASSUME NEW c \in Calls, LookupPlan(c) PROVE VersionInv'
    BY <2>4 DEF LookupPlan
  <2>5. ASSUME NEW c \in Calls, CreatePlan(c) PROVE VersionInv'
    <3>1. \/ /\ state' = [state EXCEPT ![TaskOf[c]] = "running"]
             /\ version' = [version EXCEPT ![TaskOf[c]] = @ + 1]
          \/ UNCHANGED <<state, version>>
      BY <2>5 DEF CreatePlan, KernelMove
    <3>2. \A d \in Calls : pc'[d] \in {"auth", "plan"} => pc[d] \in {"auth", "plan"}
      BY <2>5 DEF CreatePlan
    <3>3. UNCHANGED <<seenState, seenVersion, snap>>
      BY <2>5 DEF CreatePlan
    <3> QED
      BY <3>1, <3>2, <3>3, WriteKeepsVersions DEF TaskStates
  <2>6. ASSUME NEW c \in Calls, RecordApproval(c) PROVE VersionInv'
    BY <2>6 DEF RecordApproval
  <2>7. ASSUME NEW c \in Calls, CreateChatRun(c) PROVE VersionInv'
    <3>1. \/ /\ state' = [state EXCEPT ![TaskOf[c]] = "running"]
             /\ version' = [version EXCEPT ![TaskOf[c]] = @ + 1]
          \/ UNCHANGED <<state, version>>
      BY <2>7 DEF CreateChatRun, MoveTask
    <3>2. \A d \in Calls : pc'[d] \in {"auth", "plan"} => pc[d] \in {"auth", "plan"}
      BY <2>7 DEF CreateChatRun
    <3>3. UNCHANGED <<seenState, seenVersion, snap>>
      BY <2>7 DEF CreateChatRun
    <3> QED
      BY <3>1, <3>2, <3>3, WriteKeepsVersions DEF TaskStates
  <2>8. ASSUME NEW c \in Calls, NEW g \in Caps, IssueGrant(c, g) PROVE VersionInv'
    BY <2>8 DEF IssueGrant
  <2>9. ASSUME NEW c \in Calls, Launch(c) PROVE VersionInv'
    BY <2>9 DEF Launch
  <2>10. ASSUME NEW c \in Calls, SetActive(c) PROVE VersionInv'
    BY <2>10 DEF SetActive
  <2>11. ASSUME NEW c \in Calls, MarkRun(c) PROVE VersionInv'
    BY <2>11 DEF MarkRun
  <2>12. ASSUME NEW c \in Calls, MarkStep(c) PROVE VersionInv'
    BY <2>12 DEF MarkStep
  <2>13. ASSUME NEW c \in Calls, NEW g \in Caps, CallTool(c, g) PROVE VersionInv'
    BY <2>13 DEF CallTool
  <2>14. ASSUME NEW c \in Calls, Answer(c) PROVE VersionInv'
    BY <2>14 DEF Answer
  <2>15. ASSUME NEW c \in Calls, StopTurn(c) PROVE VersionInv'
    BY <2>15 DEF StopTurn
  <2>16. ASSUME NEW c \in Calls, BreakTurn(c) PROVE VersionInv'
    BY <2>16 DEF BreakTurn
  <2>17. ASSUME NEW c \in Calls, ReadInterrupt(c) PROVE VersionInv'
    BY <2>17 DEF ReadInterrupt
  <2>18. ASSUME NEW c \in Calls, CheckComplete(c) PROVE VersionInv'
    BY <2>18 DEF CheckComplete
  <2>19. ASSUME NEW c \in Calls, CompleteChat(c) PROVE VersionInv'
    <3>1. \/ /\ state' = [state EXCEPT ![TaskOf[c]] = "completed"]
             /\ version' = [version EXCEPT ![TaskOf[c]] = @ + 1]
          \/ UNCHANGED <<state, version>>
      BY <2>19 DEF CompleteChat, MoveTask
    <3>2. \A d \in Calls : pc'[d] \in {"auth", "plan"} => pc[d] \in {"auth", "plan"}
      BY <2>19 DEF CompleteChat
    <3>3. UNCHANGED <<seenState, seenVersion, snap>>
      BY <2>19 DEF CompleteChat
    <3> QED
      BY <3>1, <3>2, <3>3, WriteKeepsVersions DEF TaskStates
  <2>20. ASSUME NEW c \in Calls, CancelChat(c) PROVE VersionInv'
    BY <2>20 DEF CancelChat
  <2>21. ASSUME NEW c \in Calls, FailChat(c) PROVE VersionInv'
    <3>1. \/ /\ state' = [state EXCEPT ![TaskOf[c]] = "failed"]
             /\ version' = [version EXCEPT ![TaskOf[c]] = @ + 1]
          \/ UNCHANGED <<state, version>>
      BY <2>21 DEF FailChat, MoveTask
    <3>2. \A d \in Calls : pc'[d] \in {"auth", "plan"} => pc[d] \in {"auth", "plan"}
      BY <2>21 DEF FailChat
    <3>3. UNCHANGED <<seenState, seenVersion, snap>>
      BY <2>21 DEF FailChat
    <3> QED
      BY <3>1, <3>2, <3>3, WriteKeepsVersions DEF TaskStates
  <2>22. ASSUME NEW c \in Calls, Exit(c) PROVE VersionInv'
    BY <2>22 DEF Exit
  <2>23. ASSUME NEW k \in Clients, Look(k) PROVE VersionInv'
    BY <2>23 DEF Look
  <2>24. ASSUME NEW k \in Clients, NEW verb \in Verbs, ControlTask(k, verb) PROVE VersionInv'
    <3>1. \/ /\ state' = [state EXCEPT ![ControlOf[k]] = VerbState(verb)]
             /\ version' = [version EXCEPT ![ControlOf[k]] = @ + 1]
          \/ UNCHANGED <<state, version>>
      BY <2>24 DEF ControlTask, KernelMove
    <3>2. VerbState(verb) \in TaskStates
      BY DEF VerbState, TaskStates
    <3>3. UNCHANGED <<seenState, seenVersion, snap, pc>>
      BY <2>24 DEF ControlTask
    <3> QED
      BY <3>1, <3>2, <3>3, WriteKeepsVersions
  <2>25. ASSUME NEW k \in Clients, Interrupt(k) PROVE VersionInv'
    BY <2>25 DEF Interrupt
  <2>26. ASSUME NEW k \in Clients, RevokeTaskGrants(k) PROVE VersionInv'
    BY <2>26 DEF RevokeTaskGrants
  <2>27. ASSUME NEW c \in Calls, AbandonStart(c) PROVE VersionInv'
    BY <2>27 DEF AbandonStart
  <2>28. ASSUME NEW c \in Calls, StorageError(c) PROVE VersionInv'
    BY <2>28 DEF StorageError, AfterStorageError
  <2>29. ASSUME NEW k \in Clients, RevokeError(k) PROVE VersionInv'
    BY <2>29 DEF RevokeError
  <2>30. CASE Crash
    BY <2>30 DEF Crash
  <2>99. CASE UNCHANGED vars
    BY <2>99 DEF vars
  <2> QED
    BY <2>1, <2>2, <2>3, <2>4, <2>5, <2>6, <2>7, <2>8, <2>9, <2>10, <2>11, <2>12, <2>13,
         <2>14, <2>15, <2>16, <2>17, <2>18, <2>19, <2>20, <2>21, <2>22, <2>23, <2>24, <2>25,
         <2>26, <2>27, <2>28, <2>29, <2>30, <2>99 DEF Next, Submit, StartChat, ExecuteChat,
         Fault
<1> QED
  BY TypeCorrect, <1>1, <1>2, PTL DEF Spec

\* A version held by a client or by StartChat identifies the state it was read
\* with, so optimistic locking refuses every stale transition.
THEOREM VersionsTellStates == Spec => []VersionTellsState
BY VersionInvariant, PTL DEF VersionInv

\* Only a tool call charges, and only IssueGrant and RevokeTaskGrants touch the
\* grant rows.
LEMMA LedgerWriters ==
  ASSUME [Next]_vars
  PROVE  /\ UNCHANGED used \/ \E c \in Calls, g \in Caps : CallTool(c, g)
         /\ \/ UNCHANGED grant
            \/ \E c \in Calls, g \in Caps : IssueGrant(c, g)
            \/ \E k \in Clients : RevokeTaskGrants(k)
<1> USE DEF grantVars
<1>1. CASE UNCHANGED vars
  BY <1>1 DEF vars
<1>2. ASSUME NEW c \in Calls, Submit(c) \/ StartChat(c) \/ ExecuteChat(c)
      PROVE  UNCHANGED used /\ (UNCHANGED grant \/ \E g \in Caps : IssueGrant(c, g))
  BY <1>2 DEF Submit, StartChat, ExecuteChat,
     SubmitNew, SubmitExisting, ReuseRun, LookupPlan, CreatePlan, RecordApproval,
     CreateChatRun, IssueGrant, Launch, SetActive, MarkRun, MarkStep, Answer, StopTurn,
     BreakTurn, ReadInterrupt, CheckComplete, CompleteChat, CancelChat, FailChat, Exit
<1>3. ASSUME NEW c \in Calls, NEW g \in Caps, CallTool(c, g)
      PROVE  UNCHANGED grant
  BY <1>3 DEF CallTool
<1>4. ASSUME NEW k \in Clients,
             Look(k) \/ Interrupt(k) \/ \E verb \in Verbs : ControlTask(k, verb)
      PROVE  UNCHANGED <<grant, used>>
  BY <1>4 DEF Look, Interrupt, ControlTask
<1>5. ASSUME NEW k \in Clients, RevokeTaskGrants(k)
      PROVE  UNCHANGED used
  BY <1>5 DEF RevokeTaskGrants
<1>6. CASE Fault
  BY <1>6 DEF Fault, AbandonStart, StorageError, RevokeError, Crash
<1> QED
  BY <1>1, <1>2, <1>3, <1>4, <1>5, <1>6 DEF Next

\* No scope is charged beyond MaxCalls, nor before its grant exists.
THEOREM LedgerHolds == Spec => []GrantLedger
<1>1. Init => GrantLedger
  BY DEF Init, GrantLedger
<1>2. GrantLedger /\ TypeOK /\ [Next]_vars => GrantLedger'
  <2> SUFFICES ASSUME GrantLedger, TypeOK, [Next]_vars PROVE GrantLedger'
    OBVIOUS
  <2>1. UNCHANGED used \/ \E c \in Calls, g \in Caps : CallTool(c, g)
    BY LedgerWriters
  <2>2. ASSUME UNCHANGED used
        PROVE  GrantLedger'
    <3>1. \A x \in Tasks \X Caps : grant'[x] = "none" => grant[x] = "none"
      <4>1. ASSUME NEW c \in Calls, NEW g \in Caps, IssueGrant(c, g)
            PROVE  \A x \in Tasks \X Caps : grant'[x] = "none" => grant[x] = "none"
        BY <4>1 DEF IssueGrant, TypeOK
      <4>2. ASSUME NEW k \in Clients, RevokeTaskGrants(k)
            PROVE  \A x \in Tasks \X Caps : grant'[x] = "none" => grant[x] = "none"
        BY <4>2 DEF RevokeTaskGrants, TypeOK
      <4> QED
        BY LedgerWriters, <4>1, <4>2
    <3> QED
      BY <2>2, <3>1 DEF GrantLedger
  <2>3. ASSUME NEW c \in Calls, NEW g \in Caps, CallTool(c, g)
        PROVE  GrantLedger'
    <3>1. UNCHANGED grant /\ used' = [used EXCEPT ![<<TaskOf[c], g>>] = @ + 1]
      BY <2>3 DEF CallTool
    <3>2. grant[<<TaskOf[c], g>>] = "live" /\ used[<<TaskOf[c], g>>] < MaxCalls
      BY <2>3 DEF CallTool
    <3>3. ASSUME NEW x \in Tasks \X Caps
          PROVE  used'[x] <= MaxCalls /\ (grant'[x] = "none" => used'[x] = 0)
      <4>1. used[x] \in Nat /\ used[x] <= MaxCalls /\ (grant[x] = "none" => used[x] = 0)
        BY DEF GrantLedger, TypeOK
      <4>2. CASE x = <<TaskOf[c], g>>
        <5>1. used'[x] = used[x] + 1 /\ grant'[x] = grant[x]
          BY <3>1, <4>2 DEF TypeOK
        <5> QED
          BY <3>2, <4>1, <4>2, <5>1
      <4>3. CASE x # <<TaskOf[c], g>>
        BY <3>1, <4>1, <4>3 DEF TypeOK
      <4> QED
        BY <4>2, <4>3
    <3> QED
      BY <3>3 DEF GrantLedger
  <2> QED
    BY <2>1, <2>2, <2>3
<1> QED
  BY TypeCorrect, <1>1, <1>2, PTL DEF Spec

\* Tools are charged only while the run is open, although failChat and
\* completeChat of another executor may end it at any moment.
THEOREM ChargesStayInside == Spec => ChargedInsideTurn
<1>1. RowsInv /\ [Next]_vars
        => \A x \in Tasks \X Caps : used'[x] # used[x] => run[x[1]] \in OpenRuns
  <2> SUFFICES ASSUME RowsInv, NEW c \in Calls, NEW g \in Caps, CallTool(c, g)
               PROVE  \A x \in Tasks \X Caps : used'[x] # used[x] => run[x[1]] \in OpenRuns
    BY LedgerWriters
  <2>1. used' = [used EXCEPT ![<<TaskOf[c], g>>] = @ + 1]
    BY DEF CallTool
  <2>2. run[TaskOf[c]] \in OpenRuns
    <3>1. run[TaskOf[c]] # "none"
      BY DEF CallTool, RowsInv, RunKnown, TurnPcs
    <3>2. RowsAgree("running", run[TaskOf[c]]) /\ run[TaskOf[c]] \in RunRows
      BY DEF CallTool, RowsInv, TaskRunAgree, TypeOK
    <3> QED
      BY <3>1, <3>2 DEF RowsAgree, RunRows, RunStates, OpenRuns
  <2> QED
    BY <2>1, <2>2 DEF RowsInv, TypeOK
<1> QED
  BY RowsInvariant, <1>1, PTL DEF Spec, ChargedInsideTurn

\* A retried issueChatGrants never revives a revoked grant.
THEOREM RevocationIsFinal == Spec => RevokedForGood
<1>1. TypeOK /\ [Next]_vars
        => \A x \in Tasks \X Caps : grant[x] = "revoked" => grant'[x] = "revoked"
  <2> SUFFICES ASSUME TypeOK, [Next]_vars
               PROVE  \A x \in Tasks \X Caps : grant[x] = "revoked" => grant'[x] = "revoked"
    OBVIOUS
  <2>1. ASSUME NEW c \in Calls, NEW g \in Caps, IssueGrant(c, g)
        PROVE  \A x \in Tasks \X Caps : grant[x] = "revoked" => grant'[x] = "revoked"
    BY <2>1 DEF IssueGrant, TypeOK
  <2>2. ASSUME NEW k \in Clients, RevokeTaskGrants(k)
        PROVE  \A x \in Tasks \X Caps : grant[x] = "revoked" => grant'[x] = "revoked"
    BY <2>2 DEF RevokeTaskGrants, TypeOK
  <2> QED
    BY LedgerWriters, <2>1, <2>2
<1> QED
  BY TypeCorrect, <1>1, PTL DEF Spec, RevokedForGood

-----------------------------------------------------------------------------
(* How the task row moves.                                                 *)

\* Only six actions write the tasks table.
LEMMA TaskWriters ==
  ASSUME [Next]_vars
  PROVE  \/ UNCHANGED taskVars
         \/ \E c \in Calls : SubmitNew(c) \/ CreatePlan(c) \/ CreateChatRun(c)
                             \/ CompleteChat(c) \/ FailChat(c)
         \/ \E k \in Clients, verb \in Verbs : ControlTask(k, verb)
<1> USE DEF taskVars
<1>1. CASE UNCHANGED vars
  BY <1>1 DEF vars
<1>2. ASSUME NEW c \in Calls, Submit(c) \/ StartChat(c) \/ ExecuteChat(c)
      PROVE  \/ UNCHANGED taskVars
             \/ SubmitNew(c) \/ CreatePlan(c) \/ CreateChatRun(c)
             \/ CompleteChat(c) \/ FailChat(c)
  BY <1>2 DEF Submit, StartChat, ExecuteChat,
     SubmitExisting, ReuseRun, LookupPlan, RecordApproval, IssueGrant, Launch,
     SetActive, MarkRun, MarkStep, Answer, StopTurn, BreakTurn, ReadInterrupt,
     CheckComplete, CancelChat, Exit
<1>3. ASSUME NEW c \in Calls, NEW g \in Caps, CallTool(c, g)
      PROVE  UNCHANGED taskVars
  BY <1>3 DEF CallTool
<1>4. ASSUME NEW k \in Clients, Look(k) \/ Interrupt(k) \/ RevokeTaskGrants(k)
      PROVE  UNCHANGED taskVars
  BY <1>4 DEF Look, Interrupt, RevokeTaskGrants
<1>5. CASE Fault
  BY <1>5 DEF Fault, AbandonStart, StorageError, RevokeError, Crash
<1> QED
  BY <1>1, <1>2, <1>3, <1>4, <1>5 DEF Next

\* A cancelled or completed task never moves again.
THEOREM EndsAreFinal == Spec => EndIsFinal
<1>1. TypeOK /\ [Next]_vars
        => \A t \in Tasks : state[t] \in {"cancelled", "completed"} => state'[t] = state[t]
  <2> DEFINE Moved == \A t \in Tasks : state[t] \in {"cancelled", "completed"} => state'[t] = state[t]
  <2> SUFFICES ASSUME TypeOK, [Next]_vars PROVE Moved
    OBVIOUS
  <2> USE DEF TypeOK, taskVars
  <2>1. ASSUME NEW c \in Calls, SubmitNew(c) PROVE Moved
    BY <2>1 DEF SubmitNew, KernelMove
  <2>2. ASSUME NEW c \in Calls, CreatePlan(c) PROVE Moved
    BY <2>2 DEF CreatePlan, KernelMove
  <2>3. ASSUME NEW c \in Calls, CreateChatRun(c) PROVE Moved
    BY <2>3 DEF CreateChatRun, MoveTask
  <2>4. ASSUME NEW c \in Calls, CompleteChat(c) PROVE Moved
    BY <2>4 DEF CompleteChat, MoveTask
  <2>5. ASSUME NEW c \in Calls, FailChat(c) PROVE Moved
    BY <2>5 DEF FailChat, MoveTask
  <2>6. ASSUME NEW k \in Clients, NEW verb \in Verbs, ControlTask(k, verb) PROVE Moved
    BY <2>6 DEF ControlTask, VerbState, TaskTransitions, KernelMove
  <2>20. CASE UNCHANGED state
    BY <2>20
  <2> HIDE DEF Moved
  <2> QED
    BY <2>1, <2>2, <2>3, <2>4, <2>5, <2>6, <2>20, TaskWriters
<1> QED
  BY TypeCorrect, <1>1, PTL DEF Spec, EndIsFinal

\* A created, paused or cancelled task has the event of its version.
THEOREM ControlsAreLogged == Spec => []ControlIsLogged
<1>1. Init => ControlIsLogged
  BY DEF Init, ControlIsLogged
<1>2. ControlIsLogged /\ TypeOK /\ [Next]_vars => ControlIsLogged'
  <2> SUFFICES ASSUME ControlIsLogged, TypeOK, [Next]_vars PROVE ControlIsLogged'
    OBVIOUS
  <2> USE DEF TypeOK, taskVars, ControlIsLogged
  <2>1. ASSUME NEW c \in Calls, SubmitNew(c) PROVE ControlIsLogged'
    BY <2>1 DEF SubmitNew, KernelMove
  <2>2. ASSUME NEW c \in Calls, CreatePlan(c) PROVE ControlIsLogged'
    BY <2>2 DEF CreatePlan, KernelMove
  <2>3. ASSUME NEW c \in Calls, CreateChatRun(c) PROVE ControlIsLogged'
    BY <2>3 DEF CreateChatRun, MoveTask
  <2>4. ASSUME NEW c \in Calls, CompleteChat(c) PROVE ControlIsLogged'
    BY <2>4 DEF CompleteChat, MoveTask
  <2>5. ASSUME NEW c \in Calls, FailChat(c) PROVE ControlIsLogged'
    BY <2>5 DEF FailChat, MoveTask
  <2>6. ASSUME NEW k \in Clients, NEW verb \in Verbs, ControlTask(k, verb)
        PROVE  ControlIsLogged'
    BY <2>6 DEF ControlTask, KernelMove
  <2>7. CASE UNCHANGED taskVars
    BY <2>7
  <2> HIDE DEF ControlIsLogged
  <2> QED
    BY <2>1, <2>2, <2>3, <2>4, <2>5, <2>6, <2>7, TaskWriters
<1> QED
  BY TypeCorrect, <1>1, <1>2, PTL DEF Spec

-----------------------------------------------------------------------------
(* The turn implements the contract.                                       *)

\* A chat's plan exists only for a task that has left created: createChatRun
\* never finds the task in created.
LEMMA PlanInvariant == Spec => []PlanKnown
<1>1. Init => PlanKnown
  BY DEF Init, PlanKnown
<1>2. PlanKnown /\ RowsInv /\ [Next]_vars => PlanKnown'
  <2> SUFFICES ASSUME PlanKnown, RowsInv, [Next]_vars PROVE PlanKnown'
    OBVIOUS
  <2> USE DEF RowsInv, TypeOK, TaskRunAgree, RowsAgree, RunKnown, PlanKnown, OpenRuns,
       StartPcs, TurnPcs, RunRows, RunStates, taskVars, turnVars, grantVars, callVars,
       clientVars, Goto
  <2>1. ASSUME NEW c \in Calls, SubmitNew(c) PROVE PlanKnown'
    BY <2>1 DEF SubmitNew, KernelMove
  <2>2. ASSUME NEW c \in Calls, SubmitExisting(c) PROVE PlanKnown'
    BY <2>2 DEF SubmitExisting
  <2>3. ASSUME NEW c \in Calls, ReuseRun(c) PROVE PlanKnown'
    BY <2>3 DEF ReuseRun
  <2>4. ASSUME NEW c \in Calls, LookupPlan(c) PROVE PlanKnown'
    BY <2>4 DEF LookupPlan
  <2>5. ASSUME NEW c \in Calls, CreatePlan(c) PROVE PlanKnown'
    <3>1. CASE version[TaskOf[c]] = snap[c] /\ state[TaskOf[c]] = "created"
      <4>1. /\ state' = [state EXCEPT ![TaskOf[c]] = "running"]
            /\ step' = [step EXCEPT ![TaskOf[c]] = "approved"]
            /\ pc' = [pc EXCEPT ![c] = "approve"]
        BY <2>5, <3>1 DEF CreatePlan, KernelMove
      <4> QED
        BY <4>1
    <3>2. CASE ~(version[TaskOf[c]] = snap[c] /\ state[TaskOf[c]] = "created")
      <4>1. UNCHANGED <<state, step>> /\ pc' = [pc EXCEPT ![c] = "refused"]
        BY <2>5, <3>2 DEF CreatePlan
      <4> QED
        BY <4>1
    <3> QED
      BY <3>1, <3>2
  <2>6. ASSUME NEW c \in Calls, RecordApproval(c) PROVE PlanKnown'
    BY <2>6 DEF RecordApproval
  <2>7. ASSUME NEW c \in Calls, CreateChatRun(c) PROVE PlanKnown'
    BY <2>7 DEF CreateChatRun, MoveTask
  <2>8. ASSUME NEW c \in Calls, NEW g \in Caps, IssueGrant(c, g) PROVE PlanKnown'
    BY <2>8 DEF IssueGrant
  <2>9. ASSUME NEW c \in Calls, Launch(c) PROVE PlanKnown'
    BY <2>9 DEF Launch
  <2>10. ASSUME NEW c \in Calls, SetActive(c) PROVE PlanKnown'
    BY <2>10 DEF SetActive
  <2>11. ASSUME NEW c \in Calls, MarkRun(c) PROVE PlanKnown'
    BY <2>11 DEF MarkRun
  <2>12. ASSUME NEW c \in Calls, MarkStep(c) PROVE PlanKnown'
    <3>1. state[TaskOf[c]] \notin {"none", "created"}
      BY <2>12 DEF MarkStep
    <3>2. /\ UNCHANGED state
          /\ step' = [step EXCEPT ![TaskOf[c]] = IF cancelled[c] THEN @ ELSE "running"]
          /\ pc' = [pc EXCEPT ![c] = "turn"]
      BY <2>12 DEF MarkStep
    <3>3. \A u \in Tasks : step'[u] # "none" => step[u] # "none" \/ u = TaskOf[c]
      BY <3>2
    <3>4. \A d \in Calls : pc'[d] \in {"approve", "create"} => step'[TaskOf[d]] # "none"
      BY <3>2
    <3> QED
      BY <3>1, <3>2, <3>3, <3>4
  <2>13. ASSUME NEW c \in Calls, NEW g \in Caps, CallTool(c, g) PROVE PlanKnown'
    BY <2>13 DEF CallTool
  <2>14. ASSUME NEW c \in Calls, Answer(c) PROVE PlanKnown'
    BY <2>14 DEF Answer
  <2>15. ASSUME NEW c \in Calls, StopTurn(c) PROVE PlanKnown'
    BY <2>15 DEF StopTurn
  <2>16. ASSUME NEW c \in Calls, BreakTurn(c) PROVE PlanKnown'
    BY <2>16 DEF BreakTurn
  <2>17. ASSUME NEW c \in Calls, ReadInterrupt(c) PROVE PlanKnown'
    BY <2>17 DEF ReadInterrupt
  <2>18. ASSUME NEW c \in Calls, CheckComplete(c) PROVE PlanKnown'
    BY <2>18 DEF CheckComplete
  <2>19. ASSUME NEW c \in Calls, CompleteChat(c) PROVE PlanKnown'
    BY <2>19 DEF CompleteChat, MoveTask
  <2>20. ASSUME NEW c \in Calls, CancelChat(c) PROVE PlanKnown'
    BY <2>20 DEF CancelChat
  <2>21. ASSUME NEW c \in Calls, FailChat(c) PROVE PlanKnown'
    <3>1. run[TaskOf[c]] # "none" /\ state[TaskOf[c]] \notin {"none", "created"}
      BY <2>21 DEF FailChat
    <3>2. /\ step' = [step EXCEPT ![TaskOf[c]] = "failed"]
          /\ pc' = [pc EXCEPT ![c] = "exit"]
      BY <2>21 DEF FailChat
    <3>3. state' = [state EXCEPT ![TaskOf[c]] = "failed"] \/ UNCHANGED state
      BY <2>21 DEF FailChat, MoveTask
    <3>4. \A u \in Tasks : step'[u] # "none" => state'[u] \notin {"none", "created"}
      BY <3>1, <3>2, <3>3
    <3>5. \A d \in Calls : pc'[d] \in {"approve", "create"} => step'[TaskOf[d]] # "none"
      BY <3>2
    <3> QED
      BY <3>4, <3>5
  <2>22. ASSUME NEW c \in Calls, Exit(c) PROVE PlanKnown'
    BY <2>22 DEF Exit
  <2>23. ASSUME NEW k \in Clients, Look(k) PROVE PlanKnown'
    BY <2>23 DEF Look
  <2>24. ASSUME NEW k \in Clients, NEW verb \in Verbs, ControlTask(k, verb) PROVE PlanKnown'
    BY <2>24 DEF ControlTask, VerbState, TaskTransitions, KernelMove
  <2>25. ASSUME NEW k \in Clients, Interrupt(k) PROVE PlanKnown'
    BY <2>25 DEF Interrupt
  <2>26. ASSUME NEW k \in Clients, RevokeTaskGrants(k) PROVE PlanKnown'
    BY <2>26 DEF RevokeTaskGrants
  <2>27. ASSUME NEW c \in Calls, AbandonStart(c) PROVE PlanKnown'
    BY <2>27 DEF AbandonStart
  <2>28. ASSUME NEW c \in Calls, StorageError(c) PROVE PlanKnown'
    BY <2>28 DEF StorageError, AfterStorageError
  <2>29. ASSUME NEW k \in Clients, RevokeError(k) PROVE PlanKnown'
    BY <2>29 DEF RevokeError
  <2>30. CASE Crash
    BY <2>30 DEF Crash
  <2>99. CASE UNCHANGED vars
    BY <2>99 DEF vars
  <2> QED
    BY <2>1, <2>2, <2>3, <2>4, <2>5, <2>6, <2>7, <2>8, <2>9, <2>10, <2>11, <2>12, <2>13,
         <2>14, <2>15, <2>16, <2>17, <2>18, <2>19, <2>20, <2>21, <2>22, <2>23, <2>24, <2>25,
         <2>26, <2>27, <2>28, <2>29, <2>30, <2>99 DEF Next, Submit, StartChat, ExecuteChat,
         Fault
<1> QED
  BY RowsInvariant, <1>1, <1>2, PTL DEF Spec


\* Every step of the turn is a step of the contract or invisible to it.
LEMMA StepKeepsContract ==
  ASSUME RowsInv, PlanKnown, [Next]_vars
  PROVE  [Contract!ContractNext]_<<state, run, used>>
<1> DEFINE Step == [Contract!ContractNext]_<<state, run, used>>
<1> USE DEF taskVars, turnVars, grantVars
<1>0. TypeOK /\ \A t \in Tasks : RowsAgree(state[t], run[t])
  BY DEF RowsInv, TaskRunAgree
<1>1. ASSUME UNCHANGED vars PROVE Step
  BY <1>1 DEF vars
<1>2. ASSUME NEW c \in Calls, SubmitNew(c) PROVE Step
  <2>1. Contract!Create(TaskOf[c])
    BY <1>2 DEF SubmitNew, KernelMove, Contract!Create
  <2> QED
    BY <2>1 DEF Contract!ContractNext
<1>3. ASSUME NEW c \in Calls, CreatePlan(c) PROVE Step
  <2>1. CASE version[TaskOf[c]] = snap[c] /\ state[TaskOf[c]] = "created"
    <3>1. Contract!Steer(TaskOf[c], "running")
      BY <1>3, <2>1 DEF CreatePlan, KernelMove, Contract!Steer, Contract!TaskTransitions
    <3> QED
      BY <3>1 DEF Contract!ContractNext, Contract!TaskStates
  <2>2. CASE ~(version[TaskOf[c]] = snap[c] /\ state[TaskOf[c]] = "created")
    BY <1>3, <2>2 DEF CreatePlan
  <2> QED
    BY <2>1, <2>2
<1>4. ASSUME NEW c \in Calls, CreateChatRun(c) PROVE Step
  <2> DEFINE t == TaskOf[c]
  <2>1. state[t] \notin {"none", "created"}
    BY <1>4 DEF CreateChatRun, PlanKnown
  <2>2. CASE run[t] # "none" \/ state[t] \in {"paused", "cancelled"}
    BY <1>4, <2>2 DEF CreateChatRun
  <2>3. CASE run[t] = "none" /\ state[t] \notin {"paused", "cancelled"}
    <3>1. state[t] = "running"
      BY <1>0, <2>1, <2>3 DEF RowsAgree
    <3>2. state' = state
      <4>1. MoveTask(t, "running")
        BY <1>4, <2>3, <3>1 DEF CreateChatRun
      <4> QED
        BY <1>0, <3>1, <4>1 DEF MoveTask, TypeOK
    <3>3. run' = [run EXCEPT ![t] = "created"] /\ UNCHANGED used
      BY <1>4, <2>3 DEF CreateChatRun
    <3>4. Contract!OpenRun(t)
      BY <2>3, <3>1, <3>2, <3>3 DEF Contract!OpenRun
    <3> QED
      BY <3>4 DEF Contract!ContractNext
  <2> QED
    BY <2>2, <2>3
<1>5. ASSUME NEW c \in Calls, MarkRun(c) PROVE Step
  <2>1. CASE run[TaskOf[c]] = "created" /\ ~cancelled[c]
    <3>1. Contract!StartRun(TaskOf[c])
      BY <1>5, <2>1 DEF MarkRun, Contract!StartRun
    <3> QED
      BY <3>1 DEF Contract!ContractNext
  <2>2. CASE ~(run[TaskOf[c]] = "created" /\ ~cancelled[c])
    BY <1>0, <1>5, <2>2 DEF MarkRun, TypeOK
  <2> QED
    BY <2>1, <2>2
<1>6. ASSUME NEW c \in Calls, NEW g \in Caps, CallTool(c, g) PROVE Step
  <2>1. run[TaskOf[c]] # "none" /\ state[TaskOf[c]] = "running"
    BY <1>6 DEF CallTool, RowsInv, RunKnown, TurnPcs
  <2>2. run[TaskOf[c]] \in OpenRuns
    BY <1>0, <2>1 DEF RowsAgree, TypeOK, RunRows, RunStates, OpenRuns
  <2>3. Contract!Charge(TaskOf[c], g)
    BY <1>6, <2>1, <2>2 DEF CallTool, Contract!Charge, Contract!OpenRuns, OpenRuns
  <2> QED
    BY <2>3 DEF Contract!ContractNext
<1>7. ASSUME NEW c \in Calls, CompleteChat(c) PROVE Step
  <2> DEFINE t == TaskOf[c]
  <2>1. run[t] # "none" /\ run[t] \in RunRows /\ RowsAgree(state[t], run[t])
    BY <1>0, <1>7 DEF CompleteChat, RowsInv, RunKnown, TurnPcs, TypeOK
  <2>2. CASE run[t] \in OpenRuns /\ state[t] \in {"running", "paused"}
    <3>1. Contract!Settle(t, "completed")
      BY <1>7, <2>2 DEF CompleteChat, MoveTask, Contract!Settle, Contract!OpenRuns, OpenRuns
    <3> QED
      BY <3>1 DEF Contract!ContractNext, Contract!TaskStates
  <2>3. CASE run[t] \in OpenRuns /\ state[t] \notin {"running", "paused"}
    <3>1. Contract!SettleCancelled(t, "completed")
      BY <1>7, <2>1, <2>3
         DEF CompleteChat, RowsAgree, Contract!SettleCancelled, Contract!OpenRuns, OpenRuns
    <3> QED
      BY <3>1 DEF Contract!ContractNext, Contract!TaskStates
  <2>4. CASE run[t] \notin OpenRuns
    <3>1. state[t] \notin {"running", "paused"}
      BY <2>1, <2>4 DEF RowsAgree, RunRows, RunStates, OpenRuns
    <3> QED
      BY <1>0, <1>7, <2>4, <3>1 DEF CompleteChat, TypeOK
  <2> QED
    BY <2>2, <2>3, <2>4
<1>8. ASSUME NEW c \in Calls, CancelChat(c) PROVE Step
  <2>1. state[TaskOf[c]] = "cancelled"
    BY <1>8 DEF CancelChat, RowsInv, CancelSeen
  <2>2. CASE run[TaskOf[c]] \in OpenRuns
    <3>1. Contract!SettleCancelled(TaskOf[c], "cancelled")
      BY <1>8, <2>1, <2>2 DEF CancelChat, Contract!SettleCancelled, Contract!OpenRuns, OpenRuns
    <3> QED
      BY <3>1 DEF Contract!ContractNext, Contract!TaskStates
  <2>3. CASE run[TaskOf[c]] \notin OpenRuns
    BY <1>0, <1>8, <2>3 DEF CancelChat, TypeOK
  <2> QED
    BY <2>2, <2>3
<1>9. ASSUME NEW c \in Calls, FailChat(c) PROVE Step
  <2> DEFINE t == TaskOf[c]
  <2>1. run[t] # "none" /\ run[t] \in RunRows /\ RowsAgree(state[t], run[t])
    BY <1>0, <1>9 DEF FailChat, RowsInv, RunKnown, TurnPcs, TypeOK
  <2>2. CASE run[t] \in OpenRuns /\ state[t] \in {"running", "paused"}
    <3>1. Contract!Settle(t, "failed")
      BY <1>9, <2>2 DEF FailChat, MoveTask, Contract!Settle, Contract!OpenRuns, OpenRuns
    <3> QED
      BY <3>1 DEF Contract!ContractNext, Contract!TaskStates
  <2>3. CASE run[t] \in OpenRuns /\ state[t] \notin {"running", "paused"}
    <3>1. Contract!SettleCancelled(t, "failed")
      BY <1>9, <2>1, <2>3
         DEF FailChat, RowsAgree, Contract!SettleCancelled, Contract!OpenRuns, OpenRuns
    <3> QED
      BY <3>1 DEF Contract!ContractNext, Contract!TaskStates
  <2>4. CASE run[t] \notin OpenRuns
    <3>1. state[t] \notin {"running", "paused"}
      BY <2>1, <2>4 DEF RowsAgree, RunRows, RunStates, OpenRuns
    <3>2. UNCHANGED <<state, used>> /\ run' = [run EXCEPT ![t] = "failed"]
      BY <1>9, <3>1 DEF FailChat
    <3>3. CASE run[t] = "failed"
      BY <1>0, <3>2, <3>3 DEF TypeOK
    <3>4. CASE run[t] # "failed"
      <4>1. run[t] \in {"completed", "cancelled"}
        BY <2>1, <2>4, <3>4 DEF RunRows, RunStates, OpenRuns
      <4>2. Contract!Overrule(t)
        BY <3>2, <4>1 DEF Contract!Overrule
      <4> QED
        BY <4>2 DEF Contract!ContractNext
    <3> QED
      BY <3>3, <3>4
  <2> QED
    BY <2>2, <2>3, <2>4
<1>10. ASSUME NEW k \in Clients, NEW verb \in Verbs, ControlTask(k, verb) PROVE Step
  <2>1. CASE <<state[ControlOf[k]], VerbState(verb)>> \in TaskTransitions
             /\ version[ControlOf[k]] = seenVersion[k]
    <3>1. VerbState(verb) \in {"running", "paused", "cancelled"}
      BY DEF VerbState
    <3>2. Contract!Steer(ControlOf[k], VerbState(verb))
      BY <1>10, <2>1, <3>1
         DEF ControlTask, KernelMove, Contract!Steer, Contract!TaskTransitions, TaskTransitions
    <3> QED
      BY <3>1, <3>2 DEF Contract!ContractNext, Contract!TaskStates
  <2>2. CASE ~(<<state[ControlOf[k]], VerbState(verb)>> \in TaskTransitions
               /\ version[ControlOf[k]] = seenVersion[k])
    BY <1>10, <2>2 DEF ControlTask
  <2> QED
    BY <2>1, <2>2
<1>11. ASSUME NEW c \in Calls, Submit(c) \/ StartChat(c) \/ ExecuteChat(c)
       PROVE  Step
  <2>1. \/ UNCHANGED <<state, run, used>>
        \/ SubmitNew(c) \/ CreatePlan(c) \/ CreateChatRun(c) \/ MarkRun(c)
        \/ CompleteChat(c) \/ CancelChat(c) \/ FailChat(c)
    BY <1>11 DEF Submit, StartChat, ExecuteChat,
       SubmitExisting, ReuseRun, LookupPlan, RecordApproval, IssueGrant, Launch,
       SetActive, MarkStep, Answer, StopTurn, BreakTurn, ReadInterrupt, CheckComplete, Exit
  <2> HIDE DEF Step
  <2>2. CASE UNCHANGED <<state, run, used>>
    BY <2>2 DEF Step
  <2> QED
    BY <2>1, <2>2, <1>2, <1>3, <1>4, <1>5, <1>7, <1>8, <1>9
<1>12. ASSUME NEW k \in Clients, Look(k) \/ Interrupt(k) \/ RevokeTaskGrants(k)
       PROVE  Step
  BY <1>12 DEF Look, Interrupt, RevokeTaskGrants
<1>13. ASSUME Fault PROVE Step
  BY <1>13 DEF Fault, AbandonStart, StorageError, RevokeError, Crash
<1> HIDE DEF Step
<1>14. Step
  <2>1. CASE \E c \in Calls : \/ Submit(c) \/ StartChat(c) \/ ExecuteChat(c)
                             \/ \E g \in Caps : CallTool(c, g)
    BY <1>6, <1>11, <2>1
  <2>2. CASE \E k \in Clients : \/ Look(k) \/ Interrupt(k) \/ RevokeTaskGrants(k)
                               \/ \E verb \in Verbs : ControlTask(k, verb)
    BY <1>10, <1>12, <2>2
  <2>3. CASE Next
    BY <1>13, <2>1, <2>2, <2>3 DEF Next
  <2> QED
    BY <1>1, <2>3
<1> QED
  BY <1>14 DEF Step

\* A chat turn keeps the contract, for any number of submissions, clients, tasks
\* and scopes, with every fault: how it ends is told once, tools are charged
\* only inside it.
THEOREM TurnKeepsContract == Spec => KeepsContract
<1>1. Init => Contract!ContractInit
  BY DEF Init, Contract!ContractInit
<1>2. RowsInv /\ PlanKnown /\ [Next]_vars => [Contract!ContractNext]_<<state, run, used>>
  BY StepKeepsContract
<1> QED
  BY RowsInvariant, PlanInvariant, <1>1, <1>2, PTL
     DEF Spec, KeepsContract, Contract!ContractSpec, Contract!contractVars

-----------------------------------------------------------------------------
(* A task that is submitted once, whatever is paused, cancelled, lost or   *)
(* crashed: the executor owns its entry in Service.active, the run stays   *)
(* open under it, the step of the plan tells how the run ended, and how it *)
(* ended is never overwritten.                                             *)

\* No submission is retried.
OneSubmission == \A c, d \in Calls : TaskOf[c] = TaskOf[d] => c = d

\* The places before the run is created, and those at which it is open.
Before == {"idle", "reuse", "auth", "plan", "approve", "create"}
Working == {"grants", "launched", "runRow", "stepRow", "turn", "interrupted",
            "check", "complete", "cancel", "fail"}

SoloInv ==
  /\ \A c \in Calls : pc[c] \in Before => run[TaskOf[c]] = "none"
  /\ \A c \in Calls : pc[c] \in Working => run[TaskOf[c]] \in OpenRuns
  /\ InterruptReaches
  /\ StepTellsRun


\* Nobody but the only submission of a task touches its run.
LEMMA StepSolo ==
  ASSUME OneSubmission, TypeOK, SoloInv, [Next]_vars
  PROVE  SoloInv'
<1> USE DEF TypeOK, SoloInv, InterruptReaches, StepTellsRun, Before, Working, OpenRuns,
     RegisteredPcs, TurnPcs, StartPcs, taskVars, turnVars, grantVars, callVars, clientVars, Goto,
     OneSubmission
<1>1. ASSUME NEW c \in Calls, SubmitNew(c) PROVE SoloInv'
  BY <1>1 DEF SubmitNew, KernelMove
<1>2. ASSUME NEW c \in Calls, SubmitExisting(c) PROVE SoloInv'
  BY <1>2 DEF SubmitExisting
<1>3. ASSUME NEW c \in Calls, ReuseRun(c) PROVE SoloInv'
  BY <1>3 DEF ReuseRun
<1>4. ASSUME NEW c \in Calls, LookupPlan(c) PROVE SoloInv'
  BY <1>4 DEF LookupPlan
<1>5. ASSUME NEW c \in Calls, CreatePlan(c) PROVE SoloInv'
  <2>1. pc[c] = "plan" /\ run[TaskOf[c]] = "none" /\ UNCHANGED <<run, active>>
    BY <1>5 DEF CreatePlan
  <2>2. pc' = [pc EXCEPT ![c] = "approve"] \/ pc' = [pc EXCEPT ![c] = "refused"]
    BY <1>5 DEF CreatePlan
  <2>3. step' = [step EXCEPT ![TaskOf[c]] = "approved"] \/ UNCHANGED step
    BY <1>5 DEF CreatePlan
  <2>4. StepTellsRun'
    BY <2>1, <2>3
  <2>5. InterruptReaches'
    <3>1. \A d \in Calls : pc'[d] \in RegisteredPcs => pc[d] \in RegisteredPcs
      BY <2>2
    <3> QED
      BY <2>1, <3>1
  <2>6. \A d \in Calls : (pc'[d] \in Before => run'[TaskOf[d]] = "none")
                          /\ (pc'[d] \in Working => run'[TaskOf[d]] \in OpenRuns)
    BY <2>1, <2>2
  <2> QED
    BY <2>4, <2>5, <2>6
<1>6. ASSUME NEW c \in Calls, RecordApproval(c) PROVE SoloInv'
  BY <1>6 DEF RecordApproval
<1>7. ASSUME NEW c \in Calls, CreateChatRun(c) PROVE SoloInv'
  <2> DEFINE t == TaskOf[c]
  <2>1. pc[c] = "create" /\ run[t] = "none" /\ t \in Tasks /\ step[t] \notin {"completed", "failed"}
    BY <1>7 DEF CreateChatRun
  <2>2. CASE state[t] \in {"paused", "cancelled"}
    <3>1. pc' = [pc EXCEPT ![c] = "refused"] /\ UNCHANGED <<run, step, active>>
      BY <1>7, <2>1, <2>2 DEF CreateChatRun
    <3> QED
      BY <3>1
  <2>3. CASE state[t] \notin {"paused", "cancelled"}
    <3>1. /\ pc' = [pc EXCEPT ![c] = "grants"] /\ run' = [run EXCEPT ![t] = "created"]
          /\ step' = [step EXCEPT ![t] = IF @ = "pending" THEN "approved" ELSE @]
          /\ UNCHANGED active
      BY <1>7, <2>1, <2>3 DEF CreateChatRun
    <3>2. \A d \in Calls : d # c => TaskOf[d] # t /\ pc'[d] = pc[d]
      BY <3>1
    <3>3. \A d \in Calls : (pc'[d] \in Before => run'[TaskOf[d]] = "none")
                            /\ (pc'[d] \in Working => run'[TaskOf[d]] \in OpenRuns)
      BY <3>1, <3>2
    <3>4. InterruptReaches'
      BY <3>1, <3>2
    <3>5. StepTellsRun'
      <4>1. step'[t] \notin {"completed", "failed"} /\ run'[t] = "created"
        BY <2>1, <3>1
      <4>2. \A u \in Tasks : u # t => step'[u] = step[u] /\ run'[u] = run[u]
        BY <3>1
      <4> QED
        BY <4>1, <4>2
    <3> QED
      BY <3>3, <3>4, <3>5
  <2> QED
    BY <2>2, <2>3
<1>8. ASSUME NEW c \in Calls, Launch(c) PROVE SoloInv'
  BY <1>8 DEF Launch
<1>9. ASSUME NEW c \in Calls, SetActive(c) PROVE SoloInv'
  <2>1. /\ pc[c] = "launched" /\ pc' = [pc EXCEPT ![c] = "runRow"]
        /\ active' = [active EXCEPT ![TaskOf[c]] = c] /\ UNCHANGED <<run, step>>
    BY <1>9 DEF SetActive
  <2>2. \A d \in Calls : d # c => TaskOf[d] # TaskOf[c] /\ pc'[d] = pc[d]
    BY <2>1
  <2>3. InterruptReaches'
    BY <2>1, <2>2
  <2> QED
    BY <2>1, <2>2, <2>3
<1>10. ASSUME NEW c \in Calls, MarkRun(c) PROVE SoloInv'
  BY <1>10 DEF MarkRun
<1>11. ASSUME NEW c \in Calls, MarkStep(c) PROVE SoloInv'
  BY <1>11 DEF MarkStep
<1>12. ASSUME NEW c \in Calls, Answer(c) PROVE SoloInv'
  BY <1>12 DEF Answer
<1>13. ASSUME NEW c \in Calls, StopTurn(c) PROVE SoloInv'
  BY <1>13 DEF StopTurn
<1>14. ASSUME NEW c \in Calls, BreakTurn(c) PROVE SoloInv'
  BY <1>14 DEF BreakTurn
<1>15. ASSUME NEW c \in Calls, ReadInterrupt(c) PROVE SoloInv'
  BY <1>15 DEF ReadInterrupt
<1>16. ASSUME NEW c \in Calls, CheckComplete(c) PROVE SoloInv'
  BY <1>16 DEF CheckComplete
<1>17. ASSUME NEW c \in Calls, CompleteChat(c) PROVE SoloInv'
  BY <1>17 DEF CompleteChat, MoveTask
<1>18. ASSUME NEW c \in Calls, CancelChat(c) PROVE SoloInv'
  BY <1>18 DEF CancelChat
<1>19. ASSUME NEW c \in Calls, FailChat(c) PROVE SoloInv'
  BY <1>19 DEF FailChat, MoveTask
<1>20. ASSUME NEW c \in Calls, Exit(c) PROVE SoloInv'
  BY <1>20 DEF Exit
<1>21. ASSUME NEW c \in Calls, AbandonStart(c) PROVE SoloInv'
  BY <1>21 DEF AbandonStart
<1>22. ASSUME NEW c \in Calls, StorageError(c) PROVE SoloInv'
  BY <1>22 DEF StorageError, AfterStorageError
<1>23. ASSUME NEW c \in Calls, NEW g \in Caps, IssueGrant(c, g) PROVE SoloInv'
  BY <1>23 DEF IssueGrant
<1>24. ASSUME NEW c \in Calls, NEW g \in Caps, CallTool(c, g) PROVE SoloInv'
  BY <1>24 DEF CallTool
<1>25. ASSUME NEW k \in Clients, Look(k) PROVE SoloInv'
  BY <1>25 DEF Look
<1>26. ASSUME NEW k \in Clients, Interrupt(k) PROVE SoloInv'
  BY <1>26 DEF Interrupt
<1>27. ASSUME NEW k \in Clients, RevokeTaskGrants(k) PROVE SoloInv'
  BY <1>27 DEF RevokeTaskGrants
<1>28. ASSUME NEW k \in Clients, RevokeError(k) PROVE SoloInv'
  BY <1>28 DEF RevokeError
<1>29. ASSUME NEW k \in Clients, NEW verb \in Verbs, ControlTask(k, verb) PROVE SoloInv'
  BY <1>29 DEF ControlTask
<1>30. CASE Crash
  BY <1>30 DEF Crash
<1>31. CASE UNCHANGED vars
  BY <1>31 DEF vars
<1> HIDE DEF SoloInv
<1> QED
  BY <1>1, <1>2, <1>3, <1>4, <1>5, <1>6, <1>7, <1>8, <1>9, <1>10, <1>11, <1>12, <1>13, <1>14, <1>15, <1>16, <1>17, <1>18, <1>19, <1>20, <1>21, <1>22, <1>23, <1>24, <1>25, <1>26, <1>27, <1>28, <1>29, <1>30, <1>31
     DEF Next, Submit, StartChat, ExecuteChat, Fault

\* Places and run of the only submission of a task fit together.
THEOREM SoloInvariant == OneSubmission => (Spec => []SoloInv)
<1> SUFFICES ASSUME OneSubmission PROVE Spec => []SoloInv
  OBVIOUS
<1>1. Init => SoloInv
  <2> SUFFICES ASSUME Init PROVE SoloInv
    OBVIOUS
  <2>1. /\ \A c \in Calls : pc[c] = "idle" /\ TaskOf[c] \in Tasks
        /\ \A t \in Tasks : run[t] = "none" /\ step[t] = "none"
    BY DEF Init
  <2> QED
    BY <2>1 DEF SoloInv, Before, Working, InterruptReaches, RegisteredPcs, TurnPcs, StepTellsRun
<1>2. TypeOK /\ SoloInv /\ [Next]_vars => SoloInv'
  BY StepSolo
<1> QED
  BY TypeCorrect, <1>1, <1>2, PTL DEF Spec

\* setActive and clearActive: an interrupt reaches the executor of the task.
THEOREM InterruptsReach == OneSubmission => (Spec => []InterruptReaches)
<1>1. SoloInv => InterruptReaches
  BY DEF SoloInv
<1> QED
  BY SoloInvariant, <1>1, PTL

\* completeChat, failChat and cancelChat leave the plan's step and the run in
\* agreement.
THEOREM StepsTellRuns == OneSubmission => (Spec => []StepTellsRun)
<1>1. SoloInv => StepTellsRun
  BY DEF SoloInv
<1> QED
  BY SoloInvariant, <1>1, PTL

\* While the executor is in the agent loop nobody settles its run.
THEOREM LoopsKeepRunsOpen == OneSubmission => (Spec => []LoopKeepsRunOpen)
<1>1. SoloInv => LoopKeepsRunOpen
  BY DEF SoloInv, LoopKeepsRunOpen, Working
<1> QED
  BY SoloInvariant, <1>1, PTL

-----------------------------------------------------------------------------
(* The stricter contract.                                                  *)

\* An ending is never overwritten.
LEMMA EndingsStay ==
  ASSUME TypeOK, SoloInv, [Next]_vars
  PROVE  \A t \in Tasks : run[t] \in {"completed", "cancelled"} => run'[t] = run[t]
<1> USE DEF TypeOK, SoloInv, Before, Working, OpenRuns
<1> DEFINE Stays == \A t \in Tasks : run[t] \in {"completed", "cancelled"} => run'[t] = run[t]
<1>1. ASSUME NEW c \in Calls, Submit(c) \/ StartChat(c) \/ ExecuteChat(c) PROVE Stays
  <2>1. \/ UNCHANGED run
        \/ CreateChatRun(c) \/ MarkRun(c) \/ CompleteChat(c) \/ CancelChat(c) \/ FailChat(c)
    BY <1>1 DEF Submit, StartChat, ExecuteChat, turnVars,
       SubmitNew, SubmitExisting, ReuseRun, LookupPlan, CreatePlan, RecordApproval, IssueGrant,
       Launch, SetActive, MarkStep, Answer, StopTurn, BreakTurn, ReadInterrupt, CheckComplete, Exit
  <2>2. CASE UNCHANGED run
    BY <2>2
  <2>3. CASE CreateChatRun(c)
    BY <2>3 DEF CreateChatRun
  <2>4. CASE MarkRun(c)
    BY <2>4 DEF MarkRun
  <2>5. CASE CompleteChat(c)
    BY <2>5 DEF CompleteChat
  <2>6. CASE CancelChat(c)
    BY <2>6 DEF CancelChat
  <2>7. CASE FailChat(c)
    BY <2>7 DEF FailChat
  <2> QED
    BY <2>1, <2>2, <2>3, <2>4, <2>5, <2>6, <2>7
<1>2. ASSUME NEW c \in Calls, NEW g \in Caps, CallTool(c, g) PROVE UNCHANGED run
  BY <1>2 DEF CallTool, turnVars
<1>3. ASSUME NEW k \in Clients, Look(k) \/ Interrupt(k) \/ RevokeTaskGrants(k) PROVE UNCHANGED run
  BY <1>3 DEF Look, Interrupt, RevokeTaskGrants, turnVars
<1>4. ASSUME NEW k \in Clients, NEW verb \in Verbs, ControlTask(k, verb) PROVE UNCHANGED run
  BY <1>4 DEF ControlTask, turnVars
<1>5. Fault => UNCHANGED run
  BY DEF Fault, AbandonStart, StorageError, RevokeError, Crash, turnVars
<1>6. UNCHANGED vars => UNCHANGED run
  BY DEF vars, turnVars
<1> QED
  BY <1>1, <1>2, <1>3, <1>4, <1>5, <1>6 DEF Next

\* A step of the contract that overrules nobody is one of the stricter contract.
LEMMA ContractIsStrict ==
  ASSUME TypeOK, [Contract!ContractNext]_<<state, run, used>>,
         \A t \in Tasks : run[t] \in {"completed", "cancelled"} => run'[t] = run[t]
  PROVE  [StrictContract!ContractNext]_<<state, run, used>>
<1>1. CASE UNCHANGED <<state, run, used>>
  BY <1>1
<1>2. ASSUME NEW t \in Tasks, Contract!Overrule(t) PROVE FALSE
  BY <1>2 DEF Contract!Overrule, TypeOK
<1>3. ASSUME NEW t \in Tasks,
             \/ Contract!Create(t) \/ Contract!OpenRun(t) \/ Contract!StartRun(t)
             \/ \E s \in Contract!TaskStates :
                  Contract!Steer(t, s) \/ Contract!Settle(t, s) \/ Contract!SettleCancelled(t, s)
             \/ \E k \in Caps : Contract!Charge(t, k)
      PROVE  StrictContract!ContractNext
  <2>1. Contract!Create(t) => StrictContract!Create(t)
    BY DEF Contract!Create, StrictContract!Create
  <2>2. Contract!OpenRun(t) => StrictContract!OpenRun(t)
    BY DEF Contract!OpenRun, StrictContract!OpenRun
  <2>3. Contract!StartRun(t) => StrictContract!StartRun(t)
    BY DEF Contract!StartRun, StrictContract!StartRun
  <2>4. \A s : Contract!Steer(t, s) => StrictContract!Steer(t, s)
    BY DEF Contract!Steer, StrictContract!Steer, Contract!TaskTransitions,
           StrictContract!TaskTransitions
  <2>5. \A s : Contract!Settle(t, s) => StrictContract!Settle(t, s)
    BY DEF Contract!Settle, StrictContract!Settle, Contract!OpenRuns, StrictContract!OpenRuns
  <2>6. \A s : Contract!SettleCancelled(t, s) => StrictContract!SettleCancelled(t, s)
    BY DEF Contract!SettleCancelled, StrictContract!SettleCancelled, Contract!OpenRuns,
           StrictContract!OpenRuns
  <2>7. \A k : Contract!Charge(t, k) => StrictContract!Charge(t, k)
    BY DEF Contract!Charge, StrictContract!Charge, Contract!OpenRuns, StrictContract!OpenRuns
  <2>8. Contract!TaskStates = StrictContract!TaskStates
    BY DEF Contract!TaskStates, StrictContract!TaskStates
  <2> QED
    BY <1>3, <2>1, <2>2, <2>3, <2>4, <2>5, <2>6, <2>7, <2>8 DEF StrictContract!ContractNext
<1> QED
  BY <1>1, <1>2, <1>3 DEF Contract!ContractNext

\* A chat turn submitted once keeps the stricter contract: how its run ended is
\* told once and for all.
THEOREM SingleTurnKeepsContract == OneSubmission => (Spec => KeepsStrictContract)
<1> SUFFICES ASSUME OneSubmission PROVE Spec => KeepsStrictContract
  OBVIOUS
<1>1. Init => StrictContract!ContractInit
  BY DEF Init, StrictContract!ContractInit
<1>2. RowsInv /\ PlanKnown /\ SoloInv /\ [Next]_vars
        => [StrictContract!ContractNext]_<<state, run, used>>
  <2> SUFFICES ASSUME RowsInv, PlanKnown, SoloInv, [Next]_vars
               PROVE  [StrictContract!ContractNext]_<<state, run, used>>
    OBVIOUS
  <2>1. TypeOK
    BY DEF RowsInv
  <2>2. [Contract!ContractNext]_<<state, run, used>>
    BY StepKeepsContract
  <2>3. \A t \in Tasks : run[t] \in {"completed", "cancelled"} => run'[t] = run[t]
    BY <2>1, EndingsStay
  <2> QED
    BY <2>1, <2>2, <2>3, ContractIsStrict
<1> QED
  BY RowsInvariant, PlanInvariant, SoloInvariant, <1>1, <1>2, PTL
     DEF Spec, KeepsStrictContract, StrictContract!ContractSpec, StrictContract!contractVars

=============================================================================
