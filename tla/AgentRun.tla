------------------------------ MODULE AgentRun ------------------------------
(***************************************************************************)
(* The agent loop and the messages users steer it with: Runner.Run over    *)
(* the durable log of its run, chatsession.Steer, the process-local Inbox  *)
(* of the session, and how executeChat and Interrupt open and close a turn *)
(* around them.  All turns belong to one session.                          *)
(*                                                                         *)
(* An executor e \in Executors is one Runner.Run of the run RunOf[e]; two  *)
(* executors of a run come from two submissions (see ChatTurn), and the    *)
(* executor ChildOf[<<r, c>>] is the sub-agent of the task call c of run r.  *)
(***************************************************************************)
EXTENDS RunRecords

CONSTANTS
  Runs, Executors, RunOf, NoOne,
  Steers,         \* calls of Steer
  Calls,          \* tool calls the model may make
  Advertised,     \* those naming an advertised tool
  ReadOnly,       \* those naming a tool that may run in parallel
  ToolOf,         \* what a step signature sees of a call: tool and arguments
  ChildOf,        \* the sub-agent a call of a run starts, or NoOne
  Responses,      \* batches of calls the model may answer with
  MaxIterations,  \* Config.MaxIterations
  LoopWindow, LoopRepeats  \* loopDetectionWindowSize, loopDetectionMaxRepeats

ASSUME AgentRunAssumption ==
  /\ RunOf \in [Executors -> Runs]
  /\ NoOne \notin Executors \cup Runs
  /\ Steers \cap {"prompt", "model", "tool", "repair", "notice"} = {}
  /\ Advertised \subseteq Calls /\ ReadOnly \subseteq Calls
  /\ ChildOf \in [Runs \X Calls -> Executors \cup {NoOne}]
  /\ Responses \subseteq Seq(Calls)
  /\ MaxIterations \in Nat \ {0} /\ LoopWindow \in Nat /\ LoopRepeats \in Nat

VARIABLES
  turn, opened, latest,   \* the run's task, whether its runs row exists, last task written
  log, row,               \* agent_run_records and tool_calls
  inbox,                  \* Inbox.next: steers in the order they were enqueued
  active, cancelled,      \* Service.active and the cancelled contexts
  pc, view, outcome,      \* an executor's place, provider view and result
  said, batch, rejects,   \* the response at work; positions still to run and to reject
  iterations, steps, disabled,  \* iterations, step signatures, toolsDisabled
  spc, target,            \* a steer's place and the run it was recorded in
  kpc, victim             \* an interrupt of the run's turn, and whom it cancels

turnVars == <<turn, opened, latest>>
storeVars == <<log, row>>
activeVars == <<active, cancelled>>
loopVars == <<said, batch, rejects, iterations, steps, disabled>>
execVars == <<pc, view, outcome, loopVars>>
steerVars == <<spc, target>>
stopVars == <<kpc, victim>>
vars == <<turnVars, storeVars, inbox, activeVars, execVars, steerVars, stopVars>>

-----------------------------------------------------------------------------

LoopPcs == {"ask", "final", "calls", "tools", "reject", "claimFinal", "claimStep"}

ExecPcs == {"idle", "started", "restore", "recover", "settle", "leave", "left", "clear", "done"}
             \cup LoopPcs

SteerPcs == {"idle", "found", "checked", "stored", "acked", "refused"}

StopPcs == {"idle", "clear", "signal", "done"}

Outcomes == {"none", "answer", "error", "conflict", "corrupt", "blocked", "duplicate"}

RowStates == {"none", "running", "succeeded", "failed"}

Children == { ChildOf[rc] : rc \in Runs \X Calls } \ {NoOne}

Init ==
  /\ turn = [r \in Runs |-> "none"]
  /\ opened = [r \in Runs |-> FALSE]
  /\ latest = NoOne
  /\ log = [r \in Runs |-> <<>>]
  /\ row = [r \in Runs |-> [c \in Calls |-> "none"]]
  /\ inbox = <<>>
  /\ active = [r \in Runs |-> NoOne]
  /\ cancelled = [e \in Executors |-> FALSE]
  /\ pc = [e \in Executors |-> "idle"]
  /\ view = [e \in Executors |-> <<>>]
  /\ outcome = [e \in Executors |-> "none"]
  /\ said = [e \in Executors |-> <<>>]
  /\ batch = [e \in Executors |-> {}]
  /\ rejects = [e \in Executors |-> {}]
  /\ iterations = [e \in Executors |-> 0]
  /\ steps = [e \in Executors |-> <<>>]
  /\ disabled = [e \in Executors |-> FALSE]
  /\ spc = [s \in Steers |-> "idle"]
  /\ target = [s \in Steers |-> NoOne]
  /\ kpc = [r \in Runs |-> "idle"]
  /\ victim = [r \in Runs |-> NoOne]

-----------------------------------------------------------------------------
(* The turn around the loop: submission, registration, end.                *)

\* The plan of the turn is created and its task runs.
Begin(r) ==
  /\ turn[r] = "none" /\ \E e \in Executors \ Children : RunOf[e] = r
  /\ turn' = [turn EXCEPT ![r] = "running"]
  /\ latest' = r
  /\ UNCHANGED <<opened, storeVars, inbox, activeVars, execVars, steerVars, stopVars>>

\* createChatRun inserts the runs row.
Open(r) ==
  /\ turn[r] = "running" /\ ~opened[r]
  /\ opened' = [opened EXCEPT ![r] = TRUE]
  /\ latest' = r
  /\ UNCHANGED <<turn, storeVars, inbox, activeVars, execVars, steerVars, stopVars>>

\* Cancelling a context cancels the sub-agents under it.
Cancel(S) ==
  cancelled' = [e \in Executors |-> cancelled[e] \/ e \in S \/
    (S # {} /\ \E c \in Calls, d \in S : ChildOf[<<RunOf[d], c>>] = e /\ row[RunOf[d]][c] = "running")]

\* Mutant: a registered executor is replaced, not cancelled.
StartBeside(e) ==
  LET r == RunOf[e] IN
  /\ pc[e] = "idle" /\ e \notin Children /\ opened[r]
  /\ active' = [active EXCEPT ![r] = e]
  /\ pc' = [pc EXCEPT ![e] = "started"]
  /\ UNCHANGED <<cancelled, turnVars, storeVars, inbox, view, outcome, loopVars, steerVars, stopVars>>

\* executeChat registers its executor and cancels the one registered before.
Start(e) ==
  LET r == RunOf[e] IN
  /\ pc[e] = "idle" /\ e \notin Children /\ opened[r]
  /\ Cancel({active[r]} \ {NoOne})
  /\ active' = [active EXCEPT ![r] = e]
  /\ pc' = [pc EXCEPT ![e] = "started"]
  /\ UNCHANGED <<turnVars, storeVars, inbox, view, outcome, loopVars, steerVars, stopVars>>

\* The loop is over: completeChat, failChat or cancelChat end the task.  A
\* sub-agent only returns to the tool call that started it.
Settle(e) ==
  /\ pc[e] = "settle"
  /\ IF e \in Children
     THEN pc' = [pc EXCEPT ![e] = "done"] /\ UNCHANGED turn
     ELSE pc' = [pc EXCEPT ![e] = "leave"] /\ turn' = [turn EXCEPT ![RunOf[e]] = "ended"]
  /\ UNCHANGED <<opened, latest, storeVars, inbox, activeVars, view, outcome, loopVars,
                 steerVars, stopVars>>

\* clearActive, deferred.
Leave(e) ==
  /\ pc[e] = "leave"
  /\ active' = [active EXCEPT ![RunOf[e]] = NoOne]
  /\ pc' = [pc EXCEPT ![e] = "left"]
  /\ UNCHANGED <<turnVars, storeVars, inbox, cancelled, view, outcome, loopVars, steerVars, stopVars>>

\* sessionHasActive: another turn of the session keeps the inbox.
CheckSession(e) ==
  /\ pc[e] = "left"
  /\ pc' = [pc EXCEPT ![e] = IF \E r \in Runs : active[r] # NoOne THEN "done" ELSE "clear"]
  /\ UNCHANGED <<turnVars, storeVars, inbox, activeVars, view, outcome, loopVars, steerVars, stopVars>>

ClearInbox(e) ==
  /\ pc[e] = "clear"
  /\ inbox' = <<>>
  /\ pc' = [pc EXCEPT ![e] = "done"]
  /\ UNCHANGED <<turnVars, storeVars, activeVars, view, outcome, loopVars, steerVars, stopVars>>

-----------------------------------------------------------------------------
(* Runner.Run: history                                                     *)

\* The loop returns.
Return(e, how) ==
  /\ pc' = [pc EXCEPT ![e] = "settle"]
  /\ outcome' = [outcome EXCEPT ![e] = how]

\* Mutant: the records are repaired as they are read.
PrepareRepaired(e) ==
  LET r == RunOf[e] IN
  /\ pc[e] = "started" /\ ~cancelled[e]
  /\ log' = [log EXCEPT ![r] = IF @ = <<>> THEN <<Prompt>> ELSE @]
  /\ view' = [view EXCEPT ![e] = Repaired(log'[r])]
  /\ pc' = [pc EXCEPT ![e] = "restore"]
  /\ UNCHANGED <<outcome, turnVars, row, inbox, activeVars, loopVars, steerVars, stopVars>>

\* RecordStore.Prepare: write the initial messages or verify them, read all.
Prepare(e) ==
  LET r == RunOf[e] IN
  /\ pc[e] = "started" /\ ~cancelled[e]
  /\ IF log[r] # <<>> /\ Head(log[r]) # Prompt
     THEN Return(e, "conflict") /\ UNCHANGED <<log, view>>
     ELSE /\ log' = [log EXCEPT ![r] = IF @ = <<>> THEN <<Prompt>> ELSE @]
          /\ view' = [view EXCEPT ![e] = log'[r]]
          /\ pc' = [pc EXCEPT ![e] = "restore"]
          /\ UNCHANGED outcome
  /\ UNCHANGED <<turnVars, row, inbox, activeVars, loopVars, steerVars, stopVars>>

\* Runner.restore over the records read by Prepare.  The view stays what
\* Prepare read, also when results are recovered afterwards.
Restore(e) ==
  LET past == Restored(view[e], row[RunOf[e]]) IN
  /\ pc[e] = "restore"
  /\ CASE past.verdict = "completed" -> Return(e, "answer")
       [] past.verdict \in {"corrupt", "blocked"} -> Return(e, past.verdict)
       [] OTHER -> /\ pc' = [pc EXCEPT ![e] = IF past.pending = <<>> THEN "ask" ELSE "recover"]
                   /\ UNCHANGED outcome
  /\ said' = [said EXCEPT ![e] = past.pending]
  /\ batch' = [batch EXCEPT ![e] = 1 .. Len(past.pending)]
  /\ iterations' = [iterations EXCEPT ![e] = past.answers]
  /\ UNCHANGED <<turnVars, storeVars, inbox, activeVars, view, rejects, steps, disabled,
                 steerVars, stopVars>>

\* A pending call whose tool succeeded gets its result now, if it has none under
\* the table's unique index; any other blocks.
Recover(e) ==
  LET r == RunOf[e]
      i == Min(batch[e])
      c == said[e][i]
  IN
  /\ pc[e] = "recover" /\ ~cancelled[e]
  /\ CASE row[r][c] # "succeeded" -> Return(e, "blocked") /\ UNCHANGED <<log, batch>>
       [] row[r][c] = "succeeded" /\ c \in Told(log[r]) ->
            Return(e, "duplicate") /\ UNCHANGED <<log, batch>>
       [] OTHER ->
            /\ log' = [log EXCEPT ![r] = Append(@, Result(c, TRUE))]
            /\ batch' = [batch EXCEPT ![e] = @ \ {i}]
            /\ pc' = [pc EXCEPT ![e] = IF batch[e] = {i} THEN "ask" ELSE @]
            /\ UNCHANGED outcome
  /\ UNCHANGED <<turnVars, row, inbox, activeVars, view, said, rejects, iterations, steps, disabled,
                 steerVars, stopVars>>

-----------------------------------------------------------------------------
(* Runner.Run: the loop                                                    *)

Capped(e) == iterations[e] >= MaxIterations   \* after the iteration was counted

\* classifyToolCalls: the positions of a response that may be executed, when some
\* calls were asked before.
Executable(asked, resp) ==
  { i \in 1 .. Len(resp) :
      /\ resp[i] \in Advertised
      /\ resp[i] \notin asked
      /\ \A j \in 1 .. i - 1 : resp[j] # resp[i] }

\* The calls of a response at some of its positions, in order.
At(resp, positions) ==
  LET kept == SelectSeq([i \in 1 .. Len(resp) |-> i], LAMBDA i : i \in positions)
  IN [j \in 1 .. Len(kept) |-> resp[kept[j]]]

Signature(calls) == [i \in 1 .. Len(calls) |-> ToolOf[calls[i]]]

\* hasRepeatedToolSteps: within the window a signature occurs too often.
HasRepeatedSteps(sigs) ==
  LET from == Len(sigs) - LoopWindow + 1 IN
  /\ LoopWindow >= 1 /\ LoopRepeats >= 1 /\ from >= 1
  /\ \E i \in from .. Len(sigs) :
       Cardinality({ j \in from .. Len(sigs) : sigs[j] = sigs[i] }) > LoopRepeats

\* Mutant: the cap is checked after the request, and disabled tools come back.
AskUncapped(e, resp) ==
  LET positions == Executable(Asked(view[e]), resp)
      exec == At(resp, positions)
      sigs == IF exec = <<>> THEN steps[e] ELSE Append(steps[e], Signature(exec))
      final == resp = <<>> \/ iterations[e] >= MaxIterations
      looping == ~final /\ exec # <<>> /\ HasRepeatedSteps(sigs)
  IN
  /\ pc[e] = "ask" /\ ~cancelled[e]
  /\ iterations' = [iterations EXCEPT ![e] = @ + 1]
  /\ steps' = [steps EXCEPT ![e] = IF final THEN @ ELSE sigs]
  /\ disabled' = [disabled EXCEPT ![e] = @ \/ looping]
  /\ view' = [view EXCEPT ![e] = IF looping THEN Append(@, User("notice")) ELSE @]
  /\ said' = [said EXCEPT ![e] = IF final \/ looping THEN <<>> ELSE resp]
  /\ batch' = [batch EXCEPT ![e] = IF final \/ looping THEN {} ELSE positions]
  /\ rejects' = [rejects EXCEPT ![e] =
       IF final \/ looping THEN {} ELSE (1 .. Len(resp)) \ positions]
  /\ pc' = [pc EXCEPT ![e] = CASE final -> "final" [] looping -> "ask" [] OTHER -> "calls"]
  /\ UNCHANGED <<turnVars, storeVars, inbox, activeVars, outcome, steerVars, stopVars>>

\* One provider request and its response.  Without advertised tools the calls of
\* the response are ignored; a repeated batch is neither recorded nor executed.
Ask(e, resp) ==
  LET positions == Executable(Asked(view[e]), resp)
      exec == At(resp, positions)
      sigs == IF exec = <<>> THEN steps[e] ELSE Append(steps[e], Signature(exec))
      final == resp = <<>> \/ disabled[e] \/ iterations[e] + 1 >= MaxIterations
      looping == ~final /\ exec # <<>> /\ HasRepeatedSteps(sigs)
  IN
  /\ pc[e] = "ask" /\ ~cancelled[e]
  /\ iterations' = [iterations EXCEPT ![e] = @ + 1]
  /\ steps' = [steps EXCEPT ![e] = IF final THEN @ ELSE sigs]
  /\ disabled' = [disabled EXCEPT ![e] = @ \/ looping]
  /\ view' = [view EXCEPT ![e] = IF looping THEN Append(@, User("notice")) ELSE @]
  /\ said' = [said EXCEPT ![e] = IF final \/ looping THEN <<>> ELSE resp]
  /\ batch' = [batch EXCEPT ![e] = IF final \/ looping THEN {} ELSE positions]
  /\ rejects' = [rejects EXCEPT ![e] =
       IF final \/ looping THEN {} ELSE (1 .. Len(resp)) \ positions]
  /\ pc' = [pc EXCEPT ![e] = CASE final -> "final" [] looping -> "ask" [] OTHER -> "calls"]
  /\ UNCHANGED <<turnVars, storeVars, inbox, activeVars, outcome, steerVars, stopVars>>

\* The request fails, the answer is empty, or a budget is exhausted, which restore
\* sees as well.
FailLoop(e) ==
  /\ pc[e] \in {"restore", "ask"}
  /\ Return(e, "error")
  /\ UNCHANGED <<turnVars, storeVars, inbox, activeVars, view, loopVars, steerVars, stopVars>>

\* AppendAssistant of a final answer.
AppendFinal(e) ==
  /\ pc[e] = "final" /\ ~cancelled[e]
  /\ log' = [log EXCEPT ![RunOf[e]] = Append(@, Final)]
  /\ view' = [view EXCEPT ![e] = Append(@, Final)]
  /\ \/ pc' = [pc EXCEPT ![e] = "claimFinal"] /\ UNCHANGED outcome
     \/ Return(e, "error")   \* budgetExceeded
  /\ UNCHANGED <<turnVars, row, inbox, activeVars, loopVars, steerVars, stopVars>>

\* AppendAssistant of a batch of tool calls, before any of them runs.
AppendCalls(e) ==
  /\ pc[e] = "calls" /\ ~cancelled[e]
  /\ log' = [log EXCEPT ![RunOf[e]] = Append(@, Assistant(said[e]))]
  /\ view' = [view EXCEPT ![e] = Append(@, Assistant(said[e]))]
  /\ \/ /\ pc' = [pc EXCEPT ![e] = IF batch[e] # {} THEN "tools" ELSE "reject"]
        /\ UNCHANGED outcome
     \/ Return(e, "error")   \* budgetExceeded
  /\ UNCHANGED <<turnVars, row, inbox, activeVars, loopVars, steerVars, stopVars>>

\* The calls of the step that have no result yet.
Waiting(e) == { said[e][i] : i \in batch[e] }

\* allReadOnlyParallel: the calls of the step that are executed are all read-only.
Parallel(e) == { said[e][i] : i \in (1 .. Len(said[e])) \ rejects[e] } \subseteq ReadOnly

\* The broker starts a call; a task call starts its sub-agent.
StartTool(e, i) ==
  LET r == RunOf[e]
      c == said[e][i]
  IN
  /\ pc[e] = "tools" /\ ~cancelled[e]
  /\ i = Min(batch[e]) \/ Parallel(e)
  /\ row[r][c] = "none"
  /\ row' = [row EXCEPT ![r][c] = "running"]
  /\ pc' = [d \in Executors |-> IF d = ChildOf[<<r, c>>] THEN "started" ELSE pc[d]]
  /\ UNCHANGED <<turnVars, log, inbox, activeVars, view, outcome, loopVars, steerVars, stopVars>>

\* The broker records how the call ended, also under a cancelled context.
FinishTool(r, c) ==
  /\ row[r][c] = "running"
  /\ ChildOf[<<r, c>>] # NoOne => pc[ChildOf[<<r, c>>]] = "done"
  /\ \E how \in {"succeeded", "failed"} : row' = [row EXCEPT ![r][c] = how]
  /\ UNCHANGED <<turnVars, log, inbox, activeVars, execVars, steerVars, stopVars>>

RowEnded(r, c) == row[r][c] \in {"succeeded", "failed"}

\* AppendToolResult, in the order of the batch; a parallel batch ends first.
AppendResult(e) ==
  LET r == RunOf[e]
      i == Min(batch[e])
      c == said[e][i]
      rec == Result(c, row[r][c] = "succeeded")
  IN
  /\ pc[e] = "tools" /\ ~cancelled[e]
  /\ RowEnded(r, c)
  /\ Parallel(e) => \A d \in Waiting(e) : RowEnded(r, d)
  /\ log' = [log EXCEPT ![r] = Append(@, rec)]
  /\ view' = [view EXCEPT ![e] = Append(@, rec)]
  /\ batch' = [batch EXCEPT ![e] = @ \ {i}]
  /\ pc' = [pc EXCEPT ![e] = IF batch[e] = {i} THEN "reject" ELSE @]
  /\ UNCHANGED <<turnVars, row, inbox, activeVars, outcome, said, rejects, iterations, steps,
                 disabled, steerVars, stopVars>>

\* appendRejectedToolCalls: one observation after the other; a call that has a
\* result already violates the table's unique index.
AppendRejected(e) ==
  LET r == RunOf[e]
      i == Min(rejects[e])
      c == said[e][i]
      rec == Result(c, FALSE)
  IN
  /\ pc[e] = "reject" /\ rejects[e] # {} /\ ~cancelled[e]
  /\ IF c \in Told(log[r])
     THEN Return(e, "duplicate") /\ UNCHANGED <<log, view, rejects>>
     ELSE /\ log' = [log EXCEPT ![r] = Append(@, rec)]
          /\ view' = [view EXCEPT ![e] = Append(@, rec)]
          /\ rejects' = [rejects EXCEPT ![e] = @ \ {i}]
          /\ UNCHANGED <<pc, outcome>>
  /\ UNCHANGED <<turnVars, row, inbox, activeVars, said, batch, iterations, steps, disabled,
                 steerVars, stopVars>>

\* All results are there.
EndStep(e) ==
  /\ pc[e] = "reject" /\ rejects[e] = {}
  /\ pc' = [pc EXCEPT ![e] = "claimStep"]
  /\ UNCHANGED <<turnVars, storeVars, inbox, activeVars, view, outcome, loopVars, steerVars, stopVars>>

\* Mutant: the claimed items stay queued.
ClaimKeeping(e) ==
  /\ view' = [view EXCEPT ![e] = @ \o [i \in 1 .. Len(inbox) |-> User(inbox[i])]]
  /\ UNCHANGED inbox

\* Inbox.ClaimStep: everything queued for the session moves into the view.
Claim(e) ==
  /\ inbox' = <<>>
  /\ view' = [view EXCEPT ![e] = @ \o [i \in 1 .. Len(inbox) |-> User(inbox[i])]]

ClaimStep(e) ==
  /\ pc[e] = "claimStep"
  /\ Claim(e)
  /\ pc' = [pc EXCEPT ![e] = "ask"]
  /\ UNCHANGED <<turnVars, storeVars, activeVars, outcome, loopVars, steerVars, stopVars>>

\* Mutant: a steer that arrives with the answer is claimed and forgotten.
AnswerAnyway(e) ==
  /\ pc[e] = "claimFinal"
  /\ Claim(e)
  /\ Return(e, "answer")
  /\ UNCHANGED <<turnVars, storeVars, activeVars, loopVars, steerVars, stopVars>>

\* After a final answer: go on if there was a steer and iterations are left.
ClaimFinal(e) ==
  /\ pc[e] = "claimFinal"
  /\ Claim(e)
  /\ IF inbox # <<>> /\ ~Capped(e)
     THEN pc' = [pc EXCEPT ![e] = "ask"] /\ UNCHANGED outcome
     ELSE Return(e, "answer")
  /\ UNCHANGED <<turnVars, storeVars, activeVars, loopVars, steerVars, stopVars>>

\* Mutant: the running tools are not waited for.
NoticeAtOnce(e) ==
  /\ cancelled[e]
  /\ pc[e] \in {"started", "restore", "recover", "ask", "final", "calls", "tools", "reject"}
  /\ Return(e, "error")
  /\ UNCHANGED <<turnVars, storeVars, inbox, activeVars, view, loopVars, steerVars, stopVars>>

\* Mutant: the tool loop does not look at the context.
NoticeBetweenSteps(e) ==
  /\ cancelled[e]
  /\ pc[e] \in {"started", "restore", "recover", "ask", "final", "calls", "reject"}
  /\ Return(e, "error")
  /\ UNCHANGED <<turnVars, storeVars, inbox, activeVars, view, loopVars, steerVars, stopVars>>

\* A cancelled context: the next request or write of the loop returns the error,
\* once the tools that run have returned.
Notice(e) ==
  /\ cancelled[e]
  /\ pc[e] \in {"started", "restore", "recover", "ask", "final", "calls", "tools", "reject"}
  /\ pc[e] = "tools" => \A c \in Waiting(e) : row[RunOf[e]][c] # "running"
  /\ Return(e, "error")
  /\ UNCHANGED <<turnVars, storeVars, inbox, activeVars, view, loopVars, steerVars, stopVars>>

-----------------------------------------------------------------------------
(* chatsession.Steer                                                       *)

\* runningTaskID: the session's running task that was written last.
SteerLook(s) ==
  LET running == { r \in Runs : turn[r] = "running" } IN
  /\ spc[s] = "idle"
  /\ IF running = {} THEN spc' = [spc EXCEPT ![s] = "refused"] /\ UNCHANGED target
     ELSE \E r \in running :
            /\ latest \in running => r = latest
            /\ target' = [target EXCEPT ![s] = r]
            /\ spc' = [spc EXCEPT ![s] = "found"]
  /\ UNCHANGED <<turnVars, storeVars, inbox, activeVars, execVars, stopVars>>

\* The task's run has to exist.
SteerCheck(s) ==
  /\ spc[s] = "found"
  /\ spc' = [spc EXCEPT ![s] = IF opened[target[s]] THEN "checked" ELSE "refused"]
  /\ UNCHANGED <<turnVars, storeVars, inbox, activeVars, execVars, target, stopVars>>

\* Mutant: the message is enqueued before it is recorded.
SteerAppendLate(s) ==
  /\ spc[s] = "checked"
  /\ inbox' = Append(inbox, s)
  /\ spc' = [spc EXCEPT ![s] = "stored"]
  /\ UNCHANGED <<turnVars, storeVars, activeVars, execVars, target, stopVars>>

\* AppendUser: the message is recorded in the run's log.
SteerAppend(s) ==
  /\ spc[s] = "checked"
  /\ log' = [log EXCEPT ![target[s]] = Append(@, User(s))]
  /\ spc' = [spc EXCEPT ![s] = "stored"]
  /\ UNCHANGED <<turnVars, row, inbox, activeVars, execVars, target, stopVars>>

\* Inbox.Enqueue; the caller is told that the message was accepted.
Enqueue(s) ==
  /\ spc[s] = "stored"
  /\ inbox' = Append(inbox, s)
  /\ spc' = [spc EXCEPT ![s] = "acked"]
  /\ UNCHANGED <<turnVars, storeVars, activeVars, execVars, target, stopVars>>

-----------------------------------------------------------------------------
(* Interrupt: a pause or cancel of the run's task                          *)

\* The task leaves running.
Stop(r) ==
  /\ kpc[r] = "idle" /\ turn[r] = "running"
  /\ turn' = [turn EXCEPT ![r] = "ended"]
  /\ kpc' = [kpc EXCEPT ![r] = "clear"]
  /\ UNCHANGED <<opened, latest, storeVars, inbox, activeVars, execVars, steerVars, victim>>

\* Interrupt looks the executor up and clears the session's inbox.
StopClear(r) ==
  /\ kpc[r] = "clear"
  /\ inbox' = <<>>
  /\ victim' = [victim EXCEPT ![r] = active[r]]
  /\ kpc' = [kpc EXCEPT ![r] = "signal"]
  /\ UNCHANGED <<turnVars, storeVars, activeVars, execVars, steerVars>>

StopSignal(r) ==
  /\ kpc[r] = "signal"
  /\ Cancel({victim[r]} \ {NoOne})
  /\ kpc' = [kpc EXCEPT ![r] = "done"]
  /\ UNCHANGED <<turnVars, storeVars, inbox, active, execVars, steerVars, victim>>

-----------------------------------------------------------------------------

Loop(e) ==
  \/ Prepare(e) \/ Restore(e) \/ Recover(e)
  \/ \E resp \in Responses : Ask(e, resp)
  \/ FailLoop(e) \/ AppendFinal(e) \/ AppendCalls(e)
  \/ \E i \in batch[e] : StartTool(e, i)
  \/ AppendResult(e) \/ AppendRejected(e) \/ EndStep(e)
  \/ ClaimStep(e) \/ ClaimFinal(e) \/ Notice(e)

Exit(e) == Settle(e) \/ Leave(e) \/ CheckSession(e) \/ ClearInbox(e)

Steer(s) == SteerLook(s) \/ SteerCheck(s) \/ SteerAppend(s) \/ Enqueue(s)

Interrupt(r) == StopClear(r) \/ StopSignal(r)

Next ==
  \/ \E r \in Runs : Begin(r) \/ Open(r) \/ Stop(r) \/ Interrupt(r)
                       \/ \E c \in Calls : FinishTool(r, c)
  \/ \E e \in Executors : Start(e) \/ Loop(e) \/ Exit(e)
  \/ \E s \in Steers : Steer(s)

Spec == Init /\ [][Next]_vars

\* Started goroutines run on; requests end with the budget of the turn, tools
\* with their timeout.  Nobody has to submit, steer or interrupt.
Fairness ==
  /\ \A e \in Executors : WF_vars(Loop(e)) /\ WF_vars(Exit(e))
  /\ \A r \in Runs, c \in Calls : WF_vars(FinishTool(r, c))
  /\ \A s \in Steers : WF_vars(SteerCheck(s) \/ SteerAppend(s) \/ Enqueue(s))

FairSpec == Spec /\ Fairness

=============================================================================
