------------------------------ MODULE ChatTurn ------------------------------
(***************************************************************************)
(* One chat turn of a task, from its submission to the end of its run:     *)
(* tasksubmission.Submit, chatsession.StartChat and its goroutine          *)
(* executeChat, taskcontrol.ControlTask, and the rows of core.db they      *)
(* share.  core.db has a single connection, so each transaction or single  *)
(* statement is one action; goroutines interleave between them.            *)
(*                                                                         *)
(* A call c \in Calls is one submission of the task TaskOf[c], together    *)
(* with the goroutine it may start; a client k \in Clients controls the    *)
(* task ControlOf[k].                                                      *)
(***************************************************************************)
EXTENDS KernelStates, Naturals

CONSTANTS
  Tasks, Calls, Clients,
  Caps,        \* capability scopes the turn's plan pre-authorizes
  NoCall,      \* no entry in Service.active
  TaskOf, ControlOf,
  Verbs,       \* the task actions clients use
  Faults,      \* the faults that may happen
  MaxVersion,  \* bound: clients stop controlling a task at this version
  MaxCalls     \* CapabilityScope.MaxCalls

ASSUME ChatTurnAssumption ==
  /\ TaskOf \in [Calls -> Tasks]
  /\ ControlOf \in [Clients -> Tasks]
  /\ NoCall \notin Calls
  /\ Verbs \subseteq {"pause", "resume", "cancel"}
  /\ Faults \subseteq {"crash", "storage", "disconnect"}
  /\ MaxVersion \in Nat /\ MaxCalls \in Nat

VARIABLES
  state, version,      \* tasks rows
  logged,              \* versions with a task event in the event store
  step,                \* the plan's only step; "none" until the plan exists
  approved,            \* the system approval of the plan is recorded
  run,                 \* runs rows
  grant, used,         \* capability_grants rows: status and used_calls
  active,              \* Service.active: the call an Interrupt reaches
  pc, snap, todo,      \* a call's place, task snapshot, scopes still to issue
  cancelled,           \* the call's context has been cancelled
  cpc, seenState, seenVersion  \* a client's place and what it last read

taskVars == <<state, version, logged>>
turnVars == <<step, approved, run>>
grantVars == <<grant, used>>
callVars == <<pc, snap, todo>>
clientVars == <<cpc, seenState, seenVersion>>
vars == <<taskVars, turnVars, grantVars, active, callVars, cancelled, clientVars>>

-----------------------------------------------------------------------------
(* Places of a call.                                                       *)

\* StartChat still runs inside the caller's request.
StartPcs == {"reuse", "auth", "plan", "approve", "create", "grants"}

\* The goroutine is scheduled or running executeChat.
TurnPcs == {"launched", "runRow", "stepRow", "turn", "interrupted",
            "check", "complete", "cancel", "fail", "exit"}

\* "lost": the process died under the call.
EndPcs == {"refused", "reused", "done", "lost"}

CallPcs == {"idle"} \cup StartPcs \cup TurnPcs \cup EndPcs

\* Registered in Service.active by setActive and not yet removed.
RegisteredPcs == TurnPcs \ {"launched"}

\* Places of a client of taskcontrol.
ClientPcs == {"idle", "decided", "pausing", "cancelling", "revoking"}

GrantRows == {"none", "live", "revoked"}

Init ==
  /\ state = [t \in Tasks |-> "none"]
  /\ version = [t \in Tasks |-> 0]
  /\ logged = [t \in Tasks |-> {}]
  /\ step = [t \in Tasks |-> "none"]
  /\ approved = [t \in Tasks |-> FALSE]
  /\ run = [t \in Tasks |-> "none"]
  /\ grant = [x \in Tasks \X Caps |-> "none"]
  /\ used = [x \in Tasks \X Caps |-> 0]
  /\ active = [t \in Tasks |-> NoCall]
  /\ pc = [c \in Calls |-> "idle"]
  /\ snap = [c \in Calls |-> 0]
  /\ todo = [c \in Calls |-> Caps]
  /\ cancelled = [c \in Calls |-> FALSE]
  /\ cpc = [k \in Clients |-> "idle"]
  /\ seenState = [k \in Clients |-> "none"]
  /\ seenVersion = [k \in Clients |-> 0]

-----------------------------------------------------------------------------
(* Writes to the tasks table.                                              *)

\* Mutant: the version is not moved on.
MoveTaskUnversioned(t, s) ==
  /\ state' = [state EXCEPT ![t] = s]
  /\ UNCHANGED <<version, logged>>

\* UPDATE tasks SET state = s, version = version + 1, without an event.
MoveTask(t, s) ==
  /\ state' = [state EXCEPT ![t] = s]
  /\ version' = [version EXCEPT ![t] = @ + 1]
  /\ UNCHANGED logged

\* Mutant: a transition without its event.
KernelMoveSilent(t, s) ==
  /\ state' = [state EXCEPT ![t] = s]
  /\ version' = [version EXCEPT ![t] = @ + 1]
  /\ UNCHANGED logged

\* The kernel's versioned transition: the row and its event in one transaction.
KernelMove(t, s) ==
  /\ state' = [state EXCEPT ![t] = s]
  /\ version' = [version EXCEPT ![t] = @ + 1]
  /\ logged' = [logged EXCEPT ![t] = @ \cup {version[t] + 1}]

\* Call c moves on and keeps its snapshot and its scopes.
Goto(c, place) ==
  /\ pc' = [pc EXCEPT ![c] = place]
  /\ UNCHANGED <<snap, todo>>

-----------------------------------------------------------------------------
(* tasksubmission.Submit                                                   *)

\* No such task: create it and start its chat with the fresh snapshot.
SubmitNew(c) ==
  LET t == TaskOf[c] IN
  /\ pc[c] = "idle" /\ state[t] = "none"
  /\ KernelMove(t, "created")
  /\ pc' = [pc EXCEPT ![c] = "auth"]
  /\ snap' = [snap EXCEPT ![c] = 1]
  /\ UNCHANGED <<turnVars, grantVars, active, todo, cancelled, clientVars>>

\* The task exists and AllowExisting holds: StartChat gets what the row says
\* now; a paused or cancelled task is a conflict.
SubmitExisting(c) ==
  LET t == TaskOf[c] IN
  /\ pc[c] = "idle" /\ state[t] # "none"
  /\ pc' = [pc EXCEPT ![c] =
       CASE state[t] = "created" -> "auth"
         [] state[t] \in {"running", "completed", "failed"} -> "reuse"
         [] OTHER -> "refused"]
  /\ snap' = [snap EXCEPT ![c] = version[t]]
  /\ UNCHANGED <<taskVars, turnVars, grantVars, active, todo, cancelled, clientVars>>

-----------------------------------------------------------------------------
(* chatsession.StartChat                                                   *)

\* A snapshot past created: answer with the existing run, or a conflict.
ReuseRun(c) ==
  /\ pc[c] = "reuse"
  /\ Goto(c, IF run[TaskOf[c]] # "none" THEN "reused" ELSE "refused")
  /\ UNCHANGED <<taskVars, turnVars, grantVars, active, cancelled, clientVars>>

\* ensureChatWorkspaceAuth looks the plan up.
LookupPlan(c) ==
  /\ pc[c] = "auth"
  /\ Goto(c, IF step[TaskOf[c]] # "none" THEN "approve" ELSE "plan")
  /\ UNCHANGED <<taskVars, turnVars, grantVars, active, cancelled, clientVars>>

\* CreateApprovedWorkspacePlan: the snapshot's version must still be current.
CreatePlan(c) ==
  LET t == TaskOf[c] IN
  /\ pc[c] = "plan"
  /\ IF version[t] = snap[c] /\ state[t] = "created"
     THEN /\ KernelMove(t, "running")
          /\ step' = [step EXCEPT ![t] = "approved"]
          /\ Goto(c, "approve")
     ELSE Goto(c, "refused") /\ UNCHANGED <<taskVars, step>>
  /\ UNCHANGED <<approved, run, grantVars, active, cancelled, clientVars>>

\* recordSystemApproval: an approval recorded earlier is kept.
RecordApproval(c) ==
  /\ pc[c] = "approve"
  /\ approved' = [approved EXCEPT ![TaskOf[c]] = TRUE]
  /\ Goto(c, "create")
  /\ UNCHANGED <<taskVars, step, run, grantVars, active, cancelled, clientVars>>

\* createChatRun: an existing run is returned; otherwise the run is inserted
\* unless the task was paused or cancelled meanwhile.
CreateChatRun(c) ==
  LET t == TaskOf[c] IN
  /\ pc[c] = "create"
  /\ IF run[t] # "none"
     THEN Goto(c, "grants") /\ UNCHANGED <<taskVars, step, run>>
     ELSE IF state[t] \in {"paused", "cancelled"}
     THEN Goto(c, "refused") /\ UNCHANGED <<taskVars, step, run>>
     ELSE /\ IF state[t] \in {"running", "created"}
             THEN MoveTask(t, "running") ELSE UNCHANGED taskVars
          /\ step' = [step EXCEPT ![t] = IF @ = "pending" THEN "approved" ELSE @]
          /\ run' = [run EXCEPT ![t] = "created"]
          /\ Goto(c, "grants")
  /\ UNCHANGED <<approved, grantVars, active, cancelled, clientVars>>

\* Mutant: the grant is upserted.
UpsertGrant(c, k) ==
  LET t == TaskOf[c] IN
  /\ pc[c] = "grants" /\ k \in todo[c] /\ approved[t]
  /\ grant' = [grant EXCEPT ![<<t, k>>] = "live"]
  /\ todo' = [todo EXCEPT ![c] = @ \ {k}]
  /\ UNCHANGED <<taskVars, turnVars, used, active, pc, snap, cancelled, clientVars>>

\* issueChatGrants, one IssueGrant: a grant that exists is left as it is.
IssueGrant(c, k) ==
  LET t == TaskOf[c] IN
  /\ pc[c] = "grants" /\ k \in todo[c] /\ approved[t]
  /\ grant' = [grant EXCEPT ![<<t, k>>] = IF @ = "none" THEN "live" ELSE @]
  /\ todo' = [todo EXCEPT ![c] = @ \ {k}]
  /\ UNCHANGED <<taskVars, turnVars, used, active, pc, snap, cancelled, clientVars>>

\* go executeChat; StartChat returns the run.
Launch(c) ==
  /\ pc[c] = "grants" /\ todo[c] = {}
  /\ Goto(c, "launched")
  /\ UNCHANGED <<taskVars, turnVars, grantVars, active, cancelled, clientVars>>

-----------------------------------------------------------------------------
(* chatsession.executeChat                                                 *)

\* setActive: the previous entry of the task, if any, is cancelled.
SetActive(c) ==
  LET t == TaskOf[c] IN
  /\ pc[c] = "launched"
  /\ cancelled' = [d \in Calls |-> cancelled[d] \/ d = active[t]]
  /\ active' = [active EXCEPT ![t] = c]
  /\ Goto(c, "runRow")
  /\ UNCHANGED <<taskVars, turnVars, grantVars, clientVars>>

\* UPDATE runs ... WHERE state = created, under the call's own context.
MarkRun(c) ==
  LET t == TaskOf[c] IN
  /\ pc[c] = "runRow"
  /\ run' = [run EXCEPT ![t] = IF @ = "created" /\ ~cancelled[c] THEN "running" ELSE @]
  /\ Goto(c, "stepRow")
  /\ UNCHANGED <<taskVars, step, approved, grantVars, active, cancelled, clientVars>>

\* UPDATE plan_steps, whatever the step's state, under the same context.
MarkStep(c) ==
  LET t == TaskOf[c] IN
  /\ pc[c] = "stepRow"
  /\ step' = [step EXCEPT ![t] = IF cancelled[c] THEN @ ELSE "running"]
  /\ Goto(c, "turn")
  /\ UNCHANGED <<taskVars, run, approved, grantVars, active, cancelled, clientVars>>

\* Mutant: the budget check is off by one.
CallToolOnceMore(c, k) ==
  LET t == TaskOf[c] IN
  /\ pc[c] = "turn" /\ ~cancelled[c]
  /\ grant[<<t, k>>] = "live" /\ used[<<t, k>>] <= MaxCalls
  /\ state[t] = "running"
  /\ used' = [used EXCEPT ![<<t, k>>] = @ + 1]
  /\ UNCHANGED <<taskVars, turnVars, grant, active, callVars, cancelled, clientVars>>

\* Mutant: the task's state is not part of the authorization.
CallToolOfAnyTask(c, k) ==
  LET t == TaskOf[c] IN
  /\ pc[c] = "turn" /\ ~cancelled[c]
  /\ grant[<<t, k>>] = "live" /\ used[<<t, k>>] < MaxCalls
  /\ used' = [used EXCEPT ![<<t, k>>] = @ + 1]
  /\ UNCHANGED <<taskVars, turnVars, grant, active, callVars, cancelled, clientVars>>

\* A tool call of the turn: AuthorizeAndConsumeTx.  A refused call changes
\* nothing; the model sees the refusal and goes on.
CallTool(c, k) ==
  LET t == TaskOf[c] IN
  /\ pc[c] = "turn" /\ ~cancelled[c]
  /\ grant[<<t, k>>] = "live" /\ used[<<t, k>>] < MaxCalls
  /\ state[t] = "running"
  /\ used' = [used EXCEPT ![<<t, k>>] = @ + 1]
  /\ UNCHANGED <<taskVars, turnVars, grant, active, callVars, cancelled, clientVars>>

\* agent.Run returns an answer; it may do so although a cancellation arrived.
Answer(c) ==
  /\ pc[c] = "turn"
  /\ Goto(c, "check")
  /\ UNCHANGED <<taskVars, turnVars, grantVars, active, cancelled, clientVars>>

\* agent.Run returns context.Canceled.
StopTurn(c) ==
  /\ pc[c] = "turn" /\ cancelled[c]
  /\ Goto(c, "interrupted")
  /\ UNCHANGED <<taskVars, turnVars, grantVars, active, cancelled, clientVars>>

\* Any other error: context view, provider, budget, deadline.
BreakTurn(c) ==
  /\ pc[c] = "turn"
  /\ Goto(c, "fail")
  /\ UNCHANGED <<taskVars, turnVars, grantVars, active, cancelled, clientVars>>

\* After a cancellation the task's state says who asked for it.
ReadInterrupt(c) ==
  /\ pc[c] = "interrupted"
  /\ Goto(c, CASE state[TaskOf[c]] = "cancelled" -> "cancel"
               [] state[TaskOf[c]] = "paused" -> "exit"
               [] OTHER -> "fail")
  /\ UNCHANGED <<taskVars, turnVars, grantVars, active, cancelled, clientVars>>

\* Mutant: an answer that arrives after a cancel is treated like a pause.
CheckPausedOnly(c) ==
  /\ pc[c] = "check"
  /\ Goto(c, IF state[TaskOf[c]] \in {"cancelled", "paused"} THEN "exit" ELSE "complete")
  /\ UNCHANGED <<taskVars, turnVars, grantVars, active, cancelled, clientVars>>

\* completeChat first reads the task's state.
CheckComplete(c) ==
  /\ pc[c] = "check"
  /\ Goto(c, CASE state[TaskOf[c]] = "cancelled" -> "cancel"
               [] state[TaskOf[c]] = "paused" -> "exit"
               [] OTHER -> "complete")
  /\ UNCHANGED <<taskVars, turnVars, grantVars, active, cancelled, clientVars>>

\* Mutant: only a running task is completed, as the kernel's table has it.
CompleteRunningOnly(c) ==
  LET t == TaskOf[c] IN
  /\ pc[c] = "complete"
  /\ run' = [run EXCEPT ![t] = IF @ \in OpenRuns THEN "completed" ELSE @]
  /\ step' = [step EXCEPT ![t] = "completed"]
  /\ IF state[t] = "running"
     THEN MoveTask(t, "completed") ELSE UNCHANGED taskVars
  /\ Goto(c, "exit")
  /\ UNCHANGED <<approved, grantVars, active, cancelled, clientVars>>

\* Mutant: the run is completed whatever its state.
CompleteAnyRun(c) ==
  LET t == TaskOf[c] IN
  /\ pc[c] = "complete"
  /\ run' = [run EXCEPT ![t] = "completed"]
  /\ step' = [step EXCEPT ![t] = "completed"]
  /\ IF state[t] \in {"running", "paused"}
     THEN MoveTask(t, "completed") ELSE UNCHANGED taskVars
  /\ Goto(c, "exit")
  /\ UNCHANGED <<approved, grantVars, active, cancelled, clientVars>>

\* Mutant: the plan's step is forgotten.
CompleteWithoutStep(c) ==
  LET t == TaskOf[c] IN
  /\ pc[c] = "complete"
  /\ run' = [run EXCEPT ![t] = IF @ \in OpenRuns THEN "completed" ELSE @]
  /\ IF state[t] \in {"running", "paused"}
     THEN MoveTask(t, "completed") ELSE UNCHANGED taskVars
  /\ Goto(c, "exit")
  /\ UNCHANGED <<step, approved, grantVars, active, cancelled, clientVars>>

\* completeChat's transaction, which trusts that read.
CompleteChat(c) ==
  LET t == TaskOf[c] IN
  /\ pc[c] = "complete"
  /\ run' = [run EXCEPT ![t] = IF @ \in OpenRuns THEN "completed" ELSE @]
  /\ step' = [step EXCEPT ![t] = "completed"]
  /\ IF state[t] \in {"running", "paused"}
     THEN MoveTask(t, "completed") ELSE UNCHANGED taskVars
  /\ Goto(c, "exit")
  /\ UNCHANGED <<approved, grantVars, active, cancelled, clientVars>>

\* cancelChat: the task is already cancelled; the run follows.
CancelChat(c) ==
  LET t == TaskOf[c] IN
  /\ pc[c] = "cancel"
  /\ run' = [run EXCEPT ![t] = IF @ \in OpenRuns THEN "cancelled" ELSE @]
  /\ Goto(c, "exit")
  /\ UNCHANGED <<taskVars, step, approved, grantVars, active, cancelled, clientVars>>

\* Mutant: the task fails whatever its state.
FailAnyTask(c) ==
  LET t == TaskOf[c] IN
  /\ pc[c] = "fail"
  /\ run' = [run EXCEPT ![t] = "failed"]
  /\ step' = [step EXCEPT ![t] = "failed"]
  /\ MoveTask(t, "failed")
  /\ Goto(c, "exit")
  /\ UNCHANGED <<approved, grantVars, active, cancelled, clientVars>>

\* Mutant: no return after failChat.
FailAndGoOn(c) ==
  LET t == TaskOf[c] IN
  /\ pc[c] = "fail"
  /\ run' = [run EXCEPT ![t] = "failed"]
  /\ step' = [step EXCEPT ![t] = "failed"]
  /\ IF state[t] \in {"running", "paused"}
     THEN MoveTask(t, "failed") ELSE UNCHANGED taskVars
  /\ Goto(c, "check")
  /\ UNCHANGED <<approved, grantVars, active, cancelled, clientVars>>

\* failChat: the run fails whatever its state, the task if it is not settled.
FailChat(c) ==
  LET t == TaskOf[c] IN
  /\ pc[c] = "fail"
  /\ run' = [run EXCEPT ![t] = "failed"]
  /\ step' = [step EXCEPT ![t] = "failed"]
  /\ IF state[t] \in {"running", "paused"}
     THEN MoveTask(t, "failed") ELSE UNCHANGED taskVars
  /\ Goto(c, "exit")
  /\ UNCHANGED <<approved, grantVars, active, cancelled, clientVars>>

\* The deferred clearActive removes the task's entry, whoever registered it.
Exit(c) ==
  /\ pc[c] = "exit"
  /\ active' = [active EXCEPT ![TaskOf[c]] = NoCall]
  /\ Goto(c, "done")
  /\ UNCHANGED <<taskVars, turnVars, grantVars, cancelled, clientVars>>

-----------------------------------------------------------------------------
(* taskcontrol.ControlTask                                                 *)

\* The client reads the task it will act on.
Look(k) ==
  LET t == ControlOf[k] IN
  /\ cpc[k] = "idle" /\ state[t] # "none" /\ version[t] < MaxVersion
  /\ cpc' = [cpc EXCEPT ![k] = "decided"]
  /\ seenState' = [seenState EXCEPT ![k] = state[t]]
  /\ seenVersion' = [seenVersion EXCEPT ![k] = version[t]]
  /\ UNCHANGED <<taskVars, turnVars, grantVars, active, callVars, cancelled>>

VerbState(verb) ==
  CASE verb = "pause" -> "paused" [] verb = "resume" -> "running" [] OTHER -> "cancelled"

VerbNext(verb) ==
  CASE verb = "pause" -> "pausing" [] verb = "resume" -> "idle" [] OTHER -> "cancelling"

\* The versioned transition; a stale version or a forbidden move is a conflict.
ControlTask(k, verb) ==
  LET t == ControlOf[k] IN
  /\ cpc[k] = "decided"
  /\ IF version[t] = seenVersion[k] /\ <<state[t], VerbState(verb)>> \in TaskTransitions
     THEN KernelMove(t, VerbState(verb)) /\ cpc' = [cpc EXCEPT ![k] = VerbNext(verb)]
     ELSE UNCHANGED taskVars /\ cpc' = [cpc EXCEPT ![k] = "idle"]
  /\ UNCHANGED <<turnVars, grantVars, active, callVars, cancelled, seenState, seenVersion>>

\* Mutant: an interrupt also takes the entry out of the map.
InterruptOnce(k) ==
  LET t == ControlOf[k] IN
  /\ cpc[k] \in {"pausing", "cancelling"}
  /\ cancelled' = [d \in Calls |-> cancelled[d] \/ d = active[t]]
  /\ active' = [active EXCEPT ![t] = NoCall]
  /\ cpc' = [cpc EXCEPT ![k] = IF @ = "pausing" THEN "idle" ELSE "revoking"]
  /\ UNCHANGED <<taskVars, turnVars, grantVars, callVars, seenState, seenVersion>>

\* Interrupt: cancel the context registered for the task, if there is one.
Interrupt(k) ==
  /\ cpc[k] \in {"pausing", "cancelling"}
  /\ cancelled' = [d \in Calls |-> cancelled[d] \/ d = active[ControlOf[k]]]
  /\ cpc' = [cpc EXCEPT ![k] = IF @ = "pausing" THEN "idle" ELSE "revoking"]
  /\ UNCHANGED <<taskVars, turnVars, grantVars, active, callVars, seenState, seenVersion>>

\* Mutant: the task's state is written into the grant.
CancelTaskGrants(k) ==
  /\ cpc[k] = "revoking"
  /\ grant' = [x \in Tasks \X Caps |->
       IF x[1] = ControlOf[k] /\ grant[x] = "live" THEN "cancelled" ELSE grant[x]]
  /\ cpc' = [cpc EXCEPT ![k] = "idle"]
  /\ UNCHANGED <<taskVars, turnVars, used, active, callVars, cancelled, seenState, seenVersion>>

\* RevokeTaskGrants, after a cancel.
RevokeTaskGrants(k) ==
  /\ cpc[k] = "revoking"
  /\ grant' = [x \in Tasks \X Caps |->
       IF x[1] = ControlOf[k] /\ grant[x] = "live" THEN "revoked" ELSE grant[x]]
  /\ cpc' = [cpc EXCEPT ![k] = "idle"]
  /\ UNCHANGED <<taskVars, turnVars, used, active, callVars, cancelled, seenState, seenVersion>>

-----------------------------------------------------------------------------
(* Faults.                                                                 *)

\* The submitting request ends early (its context is cancelled) or a
\* statement of StartChat fails: StartChat returns the error where it stands.
AbandonStart(c) ==
  /\ "disconnect" \in Faults
  /\ pc[c] \in StartPcs
  /\ Goto(c, "refused")
  /\ UNCHANGED <<taskVars, turnVars, grantVars, active, cancelled, clientVars>>

\* Where executeChat goes when the statement of that place fails.
AfterStorageError(place) ==
  CASE place = "runRow" -> "stepRow"
    [] place = "stepRow" -> "turn"
    [] place = "interrupted" -> "fail"
    [] place = "check" -> "complete"
    [] OTHER -> "exit"

\* A statement of executeChat fails and its error is dropped or only reported.
StorageError(c) ==
  /\ "storage" \in Faults
  /\ pc[c] \in {"runRow", "stepRow", "interrupted", "check", "complete", "cancel", "fail"}
  /\ Goto(c, AfterStorageError(pc[c]))
  /\ UNCHANGED <<taskVars, turnVars, grantVars, active, cancelled, clientVars>>

\* RevokeTaskGrants fails: the cancel is reported as an error.
RevokeError(k) ==
  /\ "storage" \in Faults
  /\ cpc[k] = "revoking"
  /\ cpc' = [cpc EXCEPT ![k] = "idle"]
  /\ UNCHANGED <<taskVars, turnVars, grantVars, active, callVars, cancelled, seenState, seenVersion>>

\* The daemon dies and restarts: rows stay, goroutines and maps are gone.
Crash ==
  /\ "crash" \in Faults
  /\ pc' = [c \in Calls |-> IF pc[c] \in StartPcs \cup TurnPcs THEN "lost" ELSE pc[c]]
  /\ active' = [t \in Tasks |-> NoCall]
  /\ cancelled' = [c \in Calls |-> FALSE]
  /\ cpc' = [k \in Clients |-> "idle"]
  /\ UNCHANGED <<taskVars, turnVars, grantVars, snap, todo, seenState, seenVersion>>

-----------------------------------------------------------------------------

Submit(c) == SubmitNew(c) \/ SubmitExisting(c)

StartChat(c) ==
  \/ ReuseRun(c) \/ LookupPlan(c) \/ CreatePlan(c) \/ RecordApproval(c)
  \/ CreateChatRun(c) \/ Launch(c)
  \/ \E k \in Caps : IssueGrant(c, k)

ExecuteChat(c) ==
  \/ SetActive(c) \/ MarkRun(c) \/ MarkStep(c)
  \/ Answer(c) \/ StopTurn(c) \/ BreakTurn(c)
  \/ ReadInterrupt(c) \/ CheckComplete(c)
  \/ CompleteChat(c) \/ CancelChat(c) \/ FailChat(c) \/ Exit(c)

Fault ==
  \/ \E c \in Calls : AbandonStart(c) \/ StorageError(c)
  \/ \E k \in Clients : RevokeError(k)
  \/ Crash

Next ==
  \/ \E c \in Calls : Submit(c) \/ StartChat(c) \/ ExecuteChat(c)
                        \/ \E k \in Caps : CallTool(c, k)
  \/ \E k \in Clients : Look(k) \/ Interrupt(k) \/ RevokeTaskGrants(k)
                        \/ \E verb \in Verbs : ControlTask(k, verb)
  \/ Fault

Spec == Init /\ [][Next]_vars

\* A handler that has started runs on, and a turn ends within its plan's
\* Budget.MaxDurationMillis; nobody has to submit, look or press a key.
Fairness ==
  /\ \A c \in Calls : WF_vars(StartChat(c)) /\ WF_vars(ExecuteChat(c))
  /\ \A k \in Clients : WF_vars(Interrupt(k)) /\ WF_vars(RevokeTaskGrants(k))

FairSpec == Spec /\ Fairness

=============================================================================
