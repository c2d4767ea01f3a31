# AutoZeAgent: a TLA+ development of the core

AutoZeAgent is a Go agent: a terminal client (`ymz`) and a daemon (`ymzd`)
that share one SQLite file, `core.db`.  The daemon runs one goroutine per chat
turn; every turn calls a language model in a loop, executes the tools the
model asks for, and is paused, cancelled, steered, asked and permitted from
other goroutines.  `core.db` is opened with a single connection
(`src/internal/store/sqlite/db.go:57`), so a transaction or a single statement
is atomic, and what is hard is what happens *between* two of them.

## 1. Inventory

Paths are below `src/internal/`.

| Component | State it keeps | Operations | Talks to | Hard part | Correct when |
|---|---|---|---|---|---|
| `tasksubmission` | none (rows) | Submit | kernel, chatsession | retries, stale snapshots | a turn starts once |
| `chatsession` | `Service.active` (task to cancel function), rows | StartChat, executeChat, Interrupt, Steer | kernel, approval, agent, taskcontrol | goroutine against control | task, run and step settle together |
| `taskcontrol` | none | pause, resume, cancel | kernel, chatsession, approval | three steps, no transaction around them | nothing is charged after a cancel |
| `kernel` | tasks, runs, plans | versioned transitions | events | optimistic locking | version tells state |
| `approval` | approvals, capability_grants | RecordSystemApproval, IssueGrant, AuthorizeAndConsumeTx, RevokeTaskGrants | tools | budgets, revocation | used never exceeds max |
| `agent` | run_records, loop state, `Inbox` | Prepare, Run, AppendAssistant, AppendTool | providers, tools | restore after a break, inbox | record log is a legal conversation |
| `tools` | tool_calls | Broker.Execute, CancelIncompleteToolCalls | approval, toolpermission | late result against cancel | a call ends once |
| `toolpermission`, `userquestion` | pending rows, in-memory waiters | CreatePending, Wait, Decide / Answer | broker, gateway | decision before, during, after the wait | the waiter gets the recorded decision |
| `scheduler`, `scheduledtasks` | schedules, claims with leases | ClaimDue, Acknowledge, RunOnce | tasksubmission | lease expiry, retry | every due time is settled |
| `events` | events | Append, List | everybody | duplicate keys | append is idempotent |
| `modelstream` | debounced deltas, subscribers | Publish, flush, PublishTerminal | agent, gateway | timer against terminal | each delta is shown once, none is left behind |
| `providerruntime`, `configreload` | live endpoint, fingerprint | ReloadFromDisk, SelectModel, watch | providers | reload races | endpoint matches the recorded config |
| `editrev` | file snapshots | SnapshotBeforeWrite, Rewind | tools | partial rewind | rewind restores the first content |
| `contextpack`, `agent/trim`, `agent/loop_detection` | none | pack, repair, trim, detect | agent | boundaries | a packed view keeps calls with their results |
| `kernel` sessions | the metadata column | bind workspace, set model, set stance | tasksubmission, gateway | read and rewrite without a transaction | a request changes its own field only |
| `gateway`, `tui`, `cmd`, `mcp`, `providers`, `memory`, `skill*`, others | connections, files, presentation | | | I/O | not modelled, see section 7 |

## 2. How the development is laid out

One module per component, its properties in `<Component>Properties`, its
instance for TLC in `MC<Component>`, its theorems in `<Component>Proofs`.

1. **ChatTurn**: one turn across tasksubmission, chatsession, taskcontrol,
   kernel and approval; it implements the abstract **TurnContract**.
2. **RunRecords**: the record log of a run, what restore accepts and what the
   repair of a provider view yields, on bounded inputs.
3. **AgentRun**: the agent loop over that log, with restarts, tools,
   sub-agents, the inbox, Steer and Interrupt.
4. **ToolCall**: one call of the broker, composed of **ToolPermission** and
   **UserQuestion**; both implement the abstract **AskContract**.  It is the
   detail behind AgentRun's `StartTool` and `FinishTool` and ChatTurn's
   `CallTool`.
5. **Scheduler**: claims under leases, composed with the submission of tasks.
6. **ModelStream**: debounced deltas against the terminal event.
7. **ConfigReload**: the watcher and the runtime that reload or switch models.
8. **SessionMetadata**: the one column several requests rewrite.

No module that is proved about declares a RECURSIVE operator.

Next, if the development is extended: MCP sessions (a call against the close
of its session), the byte boundaries of trimming and context packing as pure
operators, and one composition of ChatTurn with AgentRun in which the tool
steps are those of ToolCall.

## 3. What is modelled

| Module | Contents |
|---|---|
| `KernelStates` | tasks, runs and plan steps: the states and the kernel's table of task transitions |
| `TurnContract` | abstract: what a watcher of task, run and charged calls may rely on |
| `ChatTurn` | submission, StartChat, executeChat, control, grants, faults |
| `RunRecords` | records of a run, `Restored` (Runner.restore), `Repaired` (RepairToolMessages) |
| `AgentRun` | Runner.Run, Inbox, Steer, sub-agents, and the ends of a turn around them |
| `AskContract` | abstract: what asking a person promises |
| `ToolPermission`, `UserQuestion` | the two ways of asking: row, waiter, the people who decide |
| `ToolCall` | Broker.Execute around them, the tool_calls row, the sweep, control of the task |
| `Scheduler` | jobs, runs, leases, two runners, the clock |
| `ModelStream` | the hub, its timers, publishers and subscriptions |
| `ConfigReload` | agent.json, watcher, runtime, the copies of agent, chat and gateway |
| `SessionMetadata` | the metadata of a session and the statements of the requests about it |
| `...Properties`, `MC...`, `...Proofs` | what is claimed, the instances, the theorems |
| `RecordLog` | a log or view that grows record by record, and restore and repair against their reference definitions on it |

### ChatTurn

`Calls` are submissions of a task together with the goroutine they may start;
`Clients` pause, resume and cancel.  A call's `pc` is the place between two
database statements.

| Variables | Code |
|---|---|
| `state`, `version`, `logged` | the tasks row and the task events of its versions |
| `step`, `approved`, `run` | the one step of the turn's plan, its system approval, the runs row |
| `grant`, `used` | capability_grants: status and used_calls |
| `active`, `cancelled` | `Service.active` and the contexts its cancel functions cancel |
| `pc`, `snap`, `todo` | a submission's place, its task snapshot, the scopes it still has to grant |
| `cpc`, `seenState`, `seenVersion` | a control client's place and what GetTask told it |

Each action is one transaction or one statement outside a transaction:
`SubmitNew`/`SubmitExisting` (tasksubmission), `ReuseRun`, `LookupPlan`,
`CreatePlan`, `RecordApproval`, `CreateChatRun`, `IssueGrant`, `Launch`
(StartChat), `SetActive`, `MarkRun`, `MarkStep`, `CallTool`, `Answer`,
`StopTurn`, `BreakTurn`, `ReadInterrupt`, `CheckComplete`, `CompleteChat`,
`CancelChat`, `FailChat`, `Exit` (executeChat), `Look`, `ControlTask`,
`Interrupt`, `RevokeTaskGrants` (taskcontrol).  Faults: `AbandonStart` (the
request's context ends), `StorageError` and `RevokeError` (a statement fails;
most of executeChat's errors are dropped or logged), `Crash`.

Abstractions.  A scope is a model value: path and argument matching of grants
is left out.  A failing statement of a transaction fails the transaction:
failChat and cancelChat, which drop the errors of single statements, could
commit a part of theirs after a statement-level error; that is not modelled.
The agent loop is `CallTool` any number of times, then an answer or an error.
A retry whose content differs from the stored task is refused by the code
before anything is read; it is not modelled.  ADR-038:76 allows a paused task
to complete when the answer was already there: `CompleteChat` does the same.

### TurnContract

The abstract specification knows only `state`, `run` and `used`.  It says that
a run opens under a running task, task and run settle in one step, only a run
that is open is charged, a cancelled task's run may only end, and nothing
settled moves.  With `Overruled` a second executor may overwrite the run's
ending by `failed`, which the code allows when a submission is retried
concurrently; without it (one submission) it may not.  `ChatTurn` implements
the first for every constant and the second with one submission; both are proved
with every fault, and the second is model-checked without one.

### RunRecords

A record keeps its type (`input`, `assistant`, `result`), the calls it asks for
or answers, whether the result is a success, and where it comes from.
`Replayed` folds one record after the other like the loop of `Runner.restore`:
verdict, pending calls, answers counted; `Restored` adds that a final answer at
the end completes the run.  `Repaired` folds like
`RepairToolMessages`: results without a call are dropped, calls without a
result get an invented one.  What the two are meant to do is stated beside them without a
fold (`RestoreIsExact`, `RepairIsExact`).  Contents, usage and costs are left out; a result
whose content differs from its tool_calls row is one whose success differs.
The code also refuses a log with a blank final answer or with a result it cannot
decode, which the loop never writes, and gives up when the restored usage exceeds
the budget: in AgentRun that is `FailLoop`.

### AgentRun

An executor is one `Runner.Run`; `RunOf` says of which run.  Two executors of a
run are what `StartIsIdempotent` (section 6) shows to be possible.

| Variables | Code |
|---|---|
| `turn`, `opened`, `latest` | the run's task, whether its runs row exists, the task written last (what runningTaskID finds) |
| `log`, `row` | agent_run_records and tool_calls |
| `inbox` | `Inbox.next` of the session |
| `active`, `cancelled` | `Service.active` and the contexts |
| `pc`, `view`, `outcome` | an executor's place, its message list, what Run returned |
| `said`, `batch`, `rejects` | the response at work, the positions still to run, to reject |
| `iterations`, `steps`, `disabled` | result.Iterations, stepSigs, toolsDisabled |
| `spc`, `target` | a Steer call's place and the run it found |
| `kpc`, `victim` | an Interrupt's place and the executor it found |

Actions: `Prepare`, `Restore`, `Recover` (history); `Ask`, `AppendFinal`,
`AppendCalls`, `StartTool`, `FinishTool`, `AppendResult`, `AppendRejected`,
`EndStep`, `ClaimStep`, `ClaimFinal`, `FailLoop`, `Notice` (loop); `SteerLook`,
`SteerCheck`, `SteerAppend`, `Enqueue`; `Stop`, `StopClear`, `StopSignal`
(pause or cancel, Interrupt); `Begin`, `Open`, `Start`, `Settle`, `Leave`,
`CheckSession`, `ClearInbox` (the turn).

Abstractions.  All turns belong to one session.  The initial messages are one
record that is the same for every executor of a run.  `MaxIterations` is
positive (0 means no cap in the code), which also bounds the model.  Provider
retries, the overflow retry, compaction and token accounting are not state: a
budget or a provider that gives up is `FailLoop` or the error branch of an
append.  A call that is denied before it has a tool_calls row ends like one
that failed.  A sub-agent has a run of its own and calls no sub-agent in the
instances.  Inbox items that were never persisted are left out: nothing in the
daemon enqueues one.

### ToolCall, ToolPermission, UserQuestion

An attempt is one `Broker.Execute`; two attempts may carry the same call id,
because two executors may run one run and a model may repeat an id.

| Variables | Code |
|---|---|
| `perm`, `question` | tool_permission_requests and user_questions rows |
| `waiter`, `qwaiter` | the channel of a Waiter: not registered, empty, or what it holds |
| `grant`, `used` | capability_grants of the turn's plan and of permissions |
| `decider`, `answerer` | a request to decide or to answer: its place, what it is about, what it says |
| `pc`, `tool`, `got`, `heard`, `outcome`, `ctxDone` | an attempt's place, tool, what it was told, how its tool ended, its context |
| `callState`, `charged`, `swept` | the tool_calls row, the grant it was charged to, whether a sweep touched it |
| `task` | the state of the task |

Execute authorizes (`StartFree`, `StartGranted`, `AskOrDeny`), asks
(`RegisterWaiter`, `CreatePending`, `LookAtRow`, `OpenWaiter`,
`ReceiveDecision`, `GiveUpWaiting`), runs (`RunTool`, or `AskUser` to
`CloseQuestion`) and settles its row (`Finish`).  A decision is four steps of a
request (`IssueGrant`, `AppendTrust`, `MarkDecided`, `Notify`), so two requests
about one permission interleave; `GiveUpWaiting` is the 15-minute timer as well
as an interrupt.  `Sweep` is CancelIncompleteToolCalls of any executor.
Left out: the matching of grants to arguments, artifacts, audit, and the body
of a tool, which is one of four outcomes.

### AskContract

Knows what is recorded of an ask and what its asker was told: recorded once,
told what is recorded or giving up.  `RecordStart` charges and inserts the row
in one transaction, which is why the ledger of ToolCall is exact.

### Scheduler

`next`, `retry`, `lease`, `status`, `policy`, `pinned` are columns of a job,
`run` maps a delivery key (job, due time, attempt) to the state of its row,
`started` is when an attempt was
claimed, `batch` and `current` are what a runner has in memory, `coreTasks` what Core
accepted, whose id is derived from job and due time.  `ClaimDue` (which also
expires leases, plans retries and moves the due time on) and `Acknowledge` are
one transaction each; `Submit`, `Crash` and `Tick` interleave with them.  An
acknowledgement may fail in the store while the runner goes on with its batch.

### ModelStream

A delta is `<<run, number, kind>>`.  It is in `pending`, then in the `work` of
the goroutine that took the batch, then in `emitted`.  `PublishDelta`,
`PublishEvent` and `TimerFires`/`FlushByTimer` race for the mutex; `StartEmit`,
`Send`, `EndEmit` run without it; `Subscribe`, `Receive`, `Unsubscribe` are the
request handlers.  A timer that has fired and waits for the mutex cannot be
stopped any more: that is `flusher`.

### ConfigReload

`file` is what agent.json says, a pair of model and version of its provider's
settings, or Broken.  `event`, `armed`, `dirty`, `reloader` are the watcher,
`mu` is Runtime.mu with the stage its holder has reached, `main`,
`fingerprint`, `failed` the runtime, `agentProvider`, `agentModel`,
`chatModel`, `shown` the copies.  A switch of the model reads the file, renames a
changed copy over it (an edit in between is lost), then walks through provider,
model and record; `suppressed` is the 1.5 s window in
which the reload ignores the write.  `missed` marks the changes the code
ignores on purpose or before it watches.

### SessionMetadata

One action per statement.  A request reads the row (`FindSession`,
`ReadToBind`, `ReadToSet`) and later writes the whole column (`CreateSession`,
`WriteWorkspace`, `WriteModel`, `WriteStance`).  Two ghosts say what the
session would be if only this request had changed it (`expected`) and whether
another one did (`overlapped`).

## 4. Runs

| Run | Instance | States | Shows |
|---|---|---|---|
| `ChatTurnRetried` | 2 submissions, 1 client, 1 scope, all verbs, all faults | 208,646 | types, row agreement, versions and their events, ledger, charging, revocation, final ends, `KeepsContract` |
| `ChatTurnSingle` | 1 submission, 2 clients, 2 scopes, no faults, fairness | 72,538 | interrupts reach the executor, step and run agree, the loop runs on an open run, `KeepsStrictContract`, every run ends |
| `RunRecordsAgree` | all sequences of up to 5 records over 2 calls | 444,444 | restore accepts exactly the legal logs; the repaired view is legal and changes nothing else |
| `AgentRunRestarted` | 2 executors of 1 run, 1 steer, interrupt, rejected calls, cap 2 | 1,334,197 | types, restore refuses only disturbed logs, nothing but what a user asks for follows an answer |
| `AgentRunSteered` | 1 executor, 2 steers, interrupt, repeated tool, cap 4 | 1,092,936 | steers recorded before seen and seen once, no answer with a claimed steer open, a detected loop ends tools |
| `AgentRunChild` | a parent with a sub-agent, 1 steer, interrupts, fairness | 225,098 | the sub-agent ends inside its step, every executor leaves |
| `ToolCall` | 2 attempts with one id, 2 deciders, 1 answerer, grants of one call, control, storage errors, crash | 769,437 | calls run as allowed, are charged once, rows tell outcomes, decisions arrive, both ways of asking keep `AskContract` |
| `Scheduler` | 1 job of interval 2, 2 runners, 1 retry, lease and backoff 1, clock to 5 | 1,050,879 | due jobs are claimable, no due time is lost, each policy chooses the due time that follows a claimed one |
| `ModelStream` | 1 run, 3 deltas, 1 other event, 2 timers, 1 subscription, fairness | 151,972 | each delta is in one place, and emitted |
| `ConfigReload` | 2 models in 2 versions, 2 switches at once, 3 edits | 134,271 | endpoints agree, no notice is lost |
| `SessionMetadata` | 2 requests of every kind, 2 workspaces, 1 model | 1,156,563 | a request nobody interferes with does what it asks for |
| `ModelStreamUnsubscribed` | 1 delta, 1 subscription | | refuted: publishing never panics (section 6) |

Bounds of ChatTurn.  `MaxVersion` stops clients from looking at a task once its
version is 5 (6): submission uses versions 1 to 3, so pause, resume and a
cancel or a second pause still fit at every place of the executor.
`MaxCalls = 1` is enough to exhaust a budget.  Tasks do not interact except
through constants, so one task is checked; the proofs cover any number.  Two
submissions cover every pair race; three at once are left to the proofs.

Bounds of AgentRun.  `AgentRunRestarted` has one tool step and the step at the
cap, which offers no tools: a rejected call stands before or after an executed
one, the steer comes anywhere, and two executors that are symmetric (nothing but
their names tells them apart) replace each other between any two appends.  Logs
of several batches are those of `RunRecordsAgree`, and the proofs have no bound.
In `AgentRunSteered` two calls with one signature meet a window of 2 below a cap
of 4.  `LoopWindow` and `LoopRepeats` are 10 and 5 in the code; 2 and 1 make the
window full and the repeat exceeded in as few steps as possible, and the tests
are on `>` and `>=` of the same expressions.  Two steers suffice for one that is
claimed while the other is being recorded.

Bounds of ToolCall.  The first attempt asks for a permission or asks a person,
the second runs a tool the plan granted, with the same call id: the smallest
instance in which charge, row and sweep collide.  `SessionCalls = 1` exhausts a
grant that is not one-time.  "similar" behaves like "permanent" without the
trust file, so the run leaves it out.  Two deciders cover every pair of
decisions.  The proofs cover any number of all of these, and all decisions.

Bounds of Scheduler.  Interval 2 with a clock that reaches 5 lets a poll be on
time, late and late by several intervals under each policy; one retry is enough
for "failed, retried, given up".  A second runner stands for the daemon that is
going down while its successor polls.

Bounds of ModelStream.  Three deltas of two kinds give two batches and both
kinds in one; two timers are the fired one and its successor.  `Buffer = 1` is
the smallest channel that can be full.

Bounds of ConfigReload and SessionMetadata.  Three edits are one before the
watcher, one during a reload and one after it; two requests at once are every
pair, and requests may begin again any number of times.

Symmetry is used where only names differ: executors of one run, deciders,
runners, models, versions, requests and workspaces; never together with
liveness.  Deadlock checking is off: a turn ends, and a system whose
submissions, edits or requests are over really stops.

Fairness.  It is weak fairness of each started handler: a goroutine that can
take its next step takes it, the Go scheduler sees to that.  In ChatTurn, that
`turn` ends is justified by `Budget.MaxDurationMillis`, which bounds agent.Run
by a deadline.  In AgentRun, `Loop` and `Exit` are the goroutine of the turn,
`FinishTool` is the tool's timeout, and the later steps of Steer are one request
handler.  In ModelStream an armed timer fires, and the goroutine that took a
batch emits it: `Send` never blocks, a full channel drops.  Nothing obliges
anybody to submit, to steer, to look, to publish, to listen or to press a key.
RunEnds excludes pauses (a paused run is left open by design) and faults.

## 5. Theorems

All proofs are from the named assumption of the module's constants, which only
types them, and for any number of tasks, calls, clients, runners and so on.

`ChatTurnProofs` (`ChatTurnAssumption`), with every fault:

- `TypeCorrect`: `Spec => []TypeOK`, needed by every other proof.
- `RowsStayTogether` (`TaskRunAgree`).  Not inductive: an executor at
  `grants` or later must already have a run, one at `cancel` must have seen a
  cancelled task (and cancelled is final), and an accepted call must have a
  task.  `RowsInv` adds these as `RunKnown`, `CancelSeen`, `TaskKnown`.
- `VersionsTellStates` (`VersionTellsState`), from `VersionInv`: nobody holds a
  version the row has not had yet.
- `ControlsAreLogged` (`ControlIsLogged`): every move into created, paused or
  cancelled writes the event of its version; one lemma about the writers of the
  tasks table carries it.
- `LedgerHolds` (`GrantLedger`), inductive with types.
- `ChargesStayInside`, `RevocationIsFinal`, `EndsAreFinal`: action properties,
  from the invariants above and one lemma per step.
- `TurnKeepsContract`: the initial states map to initial states, each action of
  `ChatTurn` is a step of `TurnContract` or a stutter (`StepKeepsContract`),
  given the invariants; `PlanInvariant` supplies that a run opens only under a
  task whose plan has made it running.

Of a task that is submitted once (`OneSubmission`, about constants: no two calls
are about one task), the same module proves with every fault what the run
`ChatTurnSingle` checks without one:

- `InterruptsReach`, `StepsTellRuns`, `LoopsKeepRunsOpen`, from `SoloInv`: a
  call that has not created its run finds none, and one that works finds it
  open, because nobody else can touch it.
- `SingleTurnKeepsContract` (`KeepsStrictContract`): a step of the contract
  that changes no ending is a step of the stricter one.

`RunRecordsProofs` (`RecordLogAssumption`): `RestoreExact` says of any sequence
of records and any outcome of the tools that restore accepts exactly the logs
that are in order and agree with their rows, and leaves pending the unanswered
rest of the last batch; `RestoreAgreesAlways` (`RestoreAgrees`) is the same of a
log that grows, for any calls, records and length.  `RepairExact` says of any
view that its repair is one a provider accepts, has the same messages but
results, and is the view itself if nothing was wrong with it; `RepairPairsAlways`
(`RepairPairs`) is that of a view that grows.

All are inductions over the records.  The induction theorems of the library take
a predicate as a parameter, so the lemma `Induction` says it of a set of
naturals, from the library's `NatLessThanWellFounded`; and because a fold recurs
over sets of positions, `FoldTable` first shows that there is a table of its
values, `FoldRun` that its values for the first positions follow one another
like the steps of a loop, and `RunAppend` that one more element is one more
step.  What every other proof uses is an instance: `ReplayAppend` (restore), `MendedAppend` (repair),
`OthersAppend`, `UnrepeatedIs`.

The invariant of restore is `Exact`.  That of the repair is `Mends`: what it
has built is legal (`Legal`: each result is one of the calls missing there, and
another message comes only when none is), the calls missing at its end are the
pending ones, without repetition, the messages but results are the same, and it
is the view itself if that was legal.  `PairedIs` ties this to `Paired`, which
counts: a view is paired exactly if it is legal and nothing is missing at its
end (`NamesOnce`: as many results as calls that name all of them name each once).

`AgentRunProofs` (`AgentRunAssumption`):

- `TypeCorrect` (`TypeOK`), with the records of logs and views, the signatures
  and the positions of batches.  `TypeInv` adds `Places`: what a place of the
  loop has at hand lies inside the response it works on.
- `PersistedBeforeSeen` (`PersistedFirst`), for any number of runs, executors
  of a run and steers.  `SteerInv` follows a steer through log, inbox and
  views: wherever its record or its inbox item is, the Steer call has passed
  its append.
- `DetectedLoopEndsTools` (`LoopEndsTools`), assuming `OneExecutorPerRun`: an
  executor with disabled tools never has a batch at hand (`LoopInv`), and
  nobody else writes batches to its run (`WriteOfRun`).
- `SubAgentEndsInStep` (`ChildEndsFirst`), assuming `OneExecutorPerRun` and
  `OneParent`: a running tool_calls row is one the executor waits for in its
  tool step, a sub-agent that works has a running row, and one that has
  started has a row that is never `none` again (`StepInv`).  So no step but the
  end of the tool lets the parent go on.
- `AnswerIsLast` (`AnswerComesLast`) and `ShownOnce` (`DeliveredOnce`), under
  the same two assumptions.  `AnswerInv`: the last claim of a turn still has
  its answer last in the view.  `OnceInv`: a steer is queued once or shown once,
  and an executor that has not read its log yet (`Fresh`) will find no prompt in
  a log that already has something else, so that nobody restores a steer that
  is still in the inbox.
- `UndisturbedIsRestorable` (`RefusedOnlyDisturbed`): for any number of
  executors, steers and rejected calls, and however the tools end, a log that
  restore refuses has a user's message inside a batch (`SteeredInside`) or a
  rejected call before an executed one (`RejectedEarly`).  These two are the
  orders in which the code really leaves logs that it refuses afterwards
  (`SteeredIsRestorable`, `RejectedIsRestorable`, section 6); the theorem says
  that they are the only ones, so no crash, cancellation, replacement or recovery
  adds a third.  `RestoreInv` says of an undisturbed log: it replays without
  a complaint, every call that was asked for has a result or is pending, no call
  with a result is running (`RunInv`), and what the writer knows agrees with that,
  the positions it has still to answer being the pending calls, in their order
  (`AtHand`).
- `AnswerIsFinal` (`AnswerEndsTurn`): what follows a final answer in a log is a
  user's message, or comes from an executor whose own view ends with such a
  message after that answer.  `EndInv`: the last assistant record of the log is
  the last one of the writer's view (`Knows`).

Both are about behaviours in which `OneWriter` holds: of the executors of a run
at most one can write at any moment.  `OneWriterOfTwo` proves that of turns that
are submitted at most twice (`AtMostTwo`) and whose sub-agents have one executor
(`ChildrenApart`): the other executor has not started, has left or is cancelled,
and the registration that makes the cancelling possible survives (`Alone`).  So
`TwoSubmissionsRestorable` states both properties without a condition on the
behaviour, and the run `AgentRunRestarted` checks such an instance.  With a third
submission `OneWriter` may fail (section 6).

`OneSubmission`, `OneExecutorPerRun` and `OneParent` are about constants:
submissions that race (section 6) are excluded, because with two executors of a
run the statements fail.

`ToolCallProofs` (`PermissionAssumption`, `QuestionAssumption`,
`ToolCallAssumption`): `TypeCorrect`, `RunsOnlyAsAllowed`, `RowsTellOutcomes`,
`DecisionsArrive`, `ChargedOnce`, and `AskingIsKept`, the refinement of `AskContract` by both ways of asking.  The invariant has four
parts: what an attempt knows of its permission and who may still notify it
(`AskInv`), the same of questions (`QuestionInv`), how the row follows the
attempt that holds it (`RowInv`), and which grant a started call was charged to
(`ChargeInv`).  `ChargedOnce` counts: a charge adds exactly one call id to the
ids of its grant.

`SchedulerProofs` (`SchedulerAssumption`): `TypeCorrect`, `NeverStuck`
(`DueIsClaimable`), `DueTimesSettled` (`NoDueTimeLost`), `PoliciesKept`
(`MisfirePolicyKept`).  `JobOk` says of one job how runs, retry, lease and due
time fit together: its keys are used in order of attempts, the retry and the
lease belong to the last due time claimed, and everything at the next due time
is unused (`Fresh`).  `MisfirePolicyKept` says what follows a due time that was
claimed at a moment: the next interval (catch_up), the first one that lies after
the claim, so that one due at the claim itself is left out (skip), or one interval
after the claim if the next has passed (run_once).  Together with
`JobOk` this is inductive.

`ModelStreamProofs` (`StreamAssumption`): `TypeCorrect`, `DeltasOnce`
(`EveryDeltaOnce`) and `NoBatchForgotten` (`PendingIsWatched`).  `Once` says
that batches, hands and emitted deltas are disjoint and make up what was
published; `Numbered`, that a new delta is new; `Apart`, that no two events of
a goroutine share a delta, which the end of an emission needs.

`ConfigReloadProofs` (`ConfigAssumption`): `TypeCorrect`, `CopiesAgree`
(`EndpointsAgree`), `NoNoticeLost` (`QuietMeansCurrent`).  `LockInv`: who holds
the mutex and how far it got; `CopyInv`: which copies its stage has already
changed; `NoticeInv`: as long as file and runtime differ, some place of the
watcher still knows.

`SessionMetadataProofs`: `RequestsDoWhatIsAsked` (`DoesWhatIsAsked`).
`OnTrack` says for each place of a request what it has still to do; done to the
session as it is, that yields what is expected.

Only model-checked: liveness (`RunEnds`, `TurnCloses`, `EveryDeltaEmitted`),
which rests on fairness and on ENABLED, both out of the provers' reach.

## 6. What the code does not keep

`NeverPanics` is refuted by the run `ModelStreamUnsubscribed`: emit copies the
subscribers under the mutex and sends without it, so a client that leaves in
between closes the channel that emit is about to send to, and the daemon dies
(`src/internal/modelstream/hub.go:184`).

The statements below are definitions of the property modules which TLC refutes
in seconds when they are named in a configuration: that of the run in the second
column, with the constants changed that stand beside it.

| Definition | Configuration | What the code does |
|---|---|---|
| `StartIsIdempotent` | `ChatTurnRetried` | two submissions that both read the task as created both launch a goroutine for its run (`chatsession/service.go:456`) |
| `RetriedCancelRevokes` | `ChatTurnRetried` | cancelling a task that is cancelled is an invalid transition, and returns before the revocation that was to be retried (`taskcontrol/service.go:95`, `approval/grant.go:279`) |
| `RejectedIsRestorable` | `AgentRunRestarted`, `Steers = {}` | results of rejected calls are appended before those of the calls beside them, an order restore refuses (`agent/runner_run.go:273`) |
| `SteeredIsRestorable` | `AgentRunSteered` | Steer appends a user record between an assistant and its results (`chatsession/steer.go:71`, `agent/inbox.go:21`) |
| `RecoveredIsTold` | `AgentRunRestarted`, `Responses <- Pair` | the provider is shown the records read before the recovery; the recovered results are not among them, and the repair invents others (`agent/runner_run.go:58`) |
| `AnswerIsOnItsWay` | `ToolCall` | ask_user inserts its row before it registers its waiter: an answer in between is recorded and never heard |
| `SimilarIsRemembered` | `ToolCall`, `Offered = {"similar"}`, `SessionCalls = 2`, `CallIds = {c1, c2}`, `CallOf <- OwnCallOf`, `MayCall <- BothExec`, `Interactive = {a1, a2}` | the grant is tried by the call that was asked about only (`tools/broker.go:447`; ADR-043:88 says the session) |
| `FirstBindWins` | `SessionMetadata` | EnsureSessionWorkspace reads and writes in two statements (`kernel/repository_session.go:76`) |
| `TerminalIsLast` | `ModelStream` | a timer that took its batch emits it after the terminal event (`modelstream/hub.go:73`) |
| `ShownIsMain` | `ConfigReload` | the reply of a switch is stored after the mutex, over a newer one (`gateway/handlers_config.go:114`) |
| `NeverTorn` | `ConfigReload` | provider and model of the runner are set one after the other |

Seen while modelling, without a definition of their own:

- createChatRun, completeChat and failChat move a task's version without an
  event (ADR-010 has one event per version).
- A cancel before setActive reaches no executor; grants issued after a cancel
  stay live, though a task that is not running charges none.
- A retry may be answered with a run that nobody executes; open runs are taken
  up neither after a restart nor after a resume, and cancelling a paused task
  leaves its run open.
- A steer recorded before Prepare makes Prepare fail with a conflict; one
  recorded after the last claim is accepted and never shown.
- The inbox belongs to the session: a steer of a turn that ended can be claimed
  by the next turn, and a sub-agent claims the steer meant for its parent.
- A call ID that repeats in one run violates the unique index of
  agent_run_records and fails the turn.
- The permanent trust file is written and never read back.  A permission that
  timed out keeps its pending row; deciding it later issues a grant for a call
  that was denied.  Of two people who decide at once the one who denies does
  not take back the grant the other one issued.
- When finishToolCall fails, the row stays running until somebody sweeps it.
- `clearActive` deletes by task (`chatsession/lifecycle.go:530`): of two executors
  the first one to leave removes the registration of the second, and an interrupt
  reaches nobody.  A third submission then starts beside the second and both write
  the log: `OneWriter` fails.  (The append of an executed call's result meets the
  unique index only in that case; its error is left out of the model.)
- A runner that submits slowly may submit a task whose job has given it up; it
  is accepted, and the job's row says failed.
- The scheduler compares RFC3339Nano timestamps as strings, which orders
  fractions of a second wrongly when one of them is zero; the model's clock has
  no fractions.
- A reload is ignored for 1.5 s after a switch, and edits made before the
  watcher starts are not seen; NoteFingerprint then records the fingerprint of
  the file and not of the endpoint in use (`missed`).
- Two requests that rewrite a session's metadata lose one of the updates.

## 7. Not modelled

Presentation and I/O (`tui`, `cmd/ymz`, `gateway` routing, provider wire
formats, built-in tools), text heuristics (memory, skills, injection scan), and
read-only queries: their state is outside the core or their behaviour is
formatting, and they make up most of the repository's lines.

- Event store: append-only under a unique key; what others rely on is
  `ControlIsLogged`.
- Edit revisions: the state is the file system, which other programs change.
- Context packing and trimming: sequential functions of message sizes; the
  repair they share is RunRecords.
- MCP sessions: pending calls, readers and reconnection form a state machine of
  their own on which no modelled component depends; a tool is one of four
  outcomes for ToolCall.
- CloseSession of the kernel: nothing in the daemon calls it.
- Of modelled components: the matching of grants to paths and arguments, retries
  of providers, compaction, token accounting, role endpoints and the
  texts of jobs.

The composition is by contract and not in one module: ChatTurn sees the loop as
tool calls and an answer, AgentRun sees a tool as its row, ToolCall sees the
task as its state.  One module of all three exceeds what TLC can enumerate.
