------------------------- MODULE ChatTurnProperties -------------------------
(***************************************************************************)
(* What is claimed of ChatTurn: the type invariant, the safety invariants, *)
(* the action properties, the contract it implements and its liveness.     *)
(* Properties that hold only when no submission is retried are gathered    *)
(* under "One submission per task".                                        *)
(***************************************************************************)
EXTENDS ChatTurn, FiniteSets

\* Every variable keeps its type.
TypeOK ==
  /\ state \in [Tasks -> TaskRows]
  /\ version \in [Tasks -> Nat]
  /\ logged \in [Tasks -> SUBSET Nat]
  /\ step \in [Tasks -> StepRows]
  /\ approved \in [Tasks -> BOOLEAN]
  /\ run \in [Tasks -> RunRows]
  /\ grant \in [Tasks \X Caps -> GrantRows]
  /\ used \in [Tasks \X Caps -> Nat]
  /\ active \in [Tasks -> Calls \cup {NoCall}]
  /\ pc \in [Calls -> CallPcs]
  /\ snap \in [Calls -> Nat]
  /\ todo \in [Calls -> SUBSET Caps]
  /\ cancelled \in [Calls -> BOOLEAN]
  /\ cpc \in [Clients -> ClientPcs]
  /\ seenState \in [Clients -> TaskRows]
  /\ seenVersion \in [Clients -> Nat]

-----------------------------------------------------------------------------
(* Whatever is retried, paused, cancelled, lost or crashed.                *)

\* The task row and the run row, written by different transactions of
\* different goroutines, always make sense together: an open run belongs to a
\* task that may still end, and a settled task to a run that has ended.
RowsAgree(s, r) ==
  /\ r = "none" => s \in {"none", "created", "running", "paused", "cancelled"}
  /\ r \in OpenRuns => s \in {"running", "paused", "cancelled"}
  /\ r = "completed" => s \in {"completed", "cancelled"}
  /\ r = "cancelled" => s = "cancelled"
  /\ r = "failed" => s \in {"completed", "failed", "cancelled"}
  /\ s = "failed" => r = "failed"

TaskRunAgree == \A t \in Tasks : RowsAgree(state[t], run[t])

\* Optimistic locking is sound: whoever holds a version of a task holds its
\* state, because every write of the row, logged or not, moves the version on
\* (ADR-010).  Without it a pause could hit a task that already ended.
VersionTellsState ==
  /\ \A k \in Clients :
       seenVersion[k] = version[ControlOf[k]] => seenState[k] = state[ControlOf[k]]
  /\ \A c \in Calls :
       (pc[c] \in {"auth", "plan"} /\ snap[c] = version[TaskOf[c]])
         => state[TaskOf[c]] = "created"

\* ADR-010 in the part the code keeps: nobody who follows the task events misses
\* a pause, a cancel or a creation, although the chat session moves versions on
\* without an event.
ControlIsLogged ==
  \A t \in Tasks : state[t] \in {"created", "paused", "cancelled"} => version[t] \in logged[t]

\* A scope's call budget survives concurrent executors and reissued grants, and
\* nothing is charged before its grant row exists.
GrantLedger ==
  \A x \in Tasks \X Caps : used[x] <= MaxCalls /\ (grant[x] = "none" => used[x] = 0)

\* A turn is charged for tools only between the insertion of its run and the
\* end of that run: a late tool call of a settled turn is refused although its
\* executor is still in the loop.
ChargedInsideTurn ==
  [][\A x \in Tasks \X Caps : used'[x] # used[x] => run[x[1]] \in OpenRuns]_vars

\* A retried StartChat, which issues the same deterministic grants again, never
\* brings a revoked grant back.
RevokedForGood ==
  [][\A x \in Tasks \X Caps : grant[x] = "revoked" => grant'[x] = "revoked"]_vars

\* A cancelled or completed task is never moved again by a late executor, a
\* retry or a client.
EndIsFinal ==
  [][\A t \in Tasks : state[t] \in {"cancelled", "completed"} => state'[t] = state[t]]_vars

\* The lifecycle a watcher of task, run and charges can rely on.
Contract == INSTANCE TurnContract WITH Overruled <- TRUE
KeepsContract == Contract!ContractSpec

-----------------------------------------------------------------------------
(* One submission per task.                                                *)

\* The stricter lifecycle: how a run ended is never overwritten.
StrictContract == INSTANCE TurnContract WITH Overruled <- FALSE
KeepsStrictContract == StrictContract!ContractSpec

\* From setActive to clearActive an interrupt reaches the executor: the entry
\* of the task is its own.
InterruptReaches ==
  \A c \in Calls : pc[c] \in RegisteredPcs => active[TaskOf[c]] = c

\* The plan's step tells how the run ended, unless it ended by cancellation.
StepTellsRun ==
  \A t \in Tasks :
    /\ run[t] \in {"completed", "failed"} => step[t] = run[t]
    /\ step[t] \in {"completed", "failed"} => run[t] = step[t]

\* A run is settled only by an executor that goes away: while the executor is
\* in the loop the run is open, so no tool result lands on a settled run.
LoopKeepsRunOpen ==
  \A c \in Calls :
    pc[c] \in {"runRow", "stepRow", "turn", "interrupted", "check", "complete", "cancel", "fail"}
      => run[TaskOf[c]] \in OpenRuns

-----------------------------------------------------------------------------
(* Liveness, under FairSpec.                                               *)

\* Without faults, every executor that is started settles its run and leaves
\* Service.active empty behind it, whatever is cancelled meanwhile; a task that
\* gets paused, and so waits for a resume, is left out.
RunEnds ==
  \A t \in Tasks :
    [](state[t] # "paused") =>
      /\ run[t] \in OpenRuns ~> run[t] \notin OpenRuns
      /\ \A c \in Calls :
           (TaskOf[c] = t /\ pc[c] \in TurnPcs) ~> (pc[c] \in EndPcs /\ active[t] # c)

-----------------------------------------------------------------------------
(* What the documents and comments of the repository say, and the code does *)
(* not do: TLC refutes each where it is named in a configuration.          *)

\* StartChat's comment: a retry of an already started turn is idempotent, so at
\* most one goroutine ever executes the run of a task.
StartIsIdempotent ==
  \A t \in Tasks : Cardinality({c \in Calls : TaskOf[c] = t /\ pc[c] \in TurnPcs \cup {"done"}}) <= 1

\* RevokeTaskGrants' comment: a cancel request can be safely retried; once a
\* cancel of an already cancelled task has returned, no grant is live.
RetriedCancelRevokes ==
  [][\A k \in Clients :
       (/\ cpc[k] = "decided" /\ cpc'[k] = "idle"
        /\ seenState[k] = "cancelled"
        /\ \A c \in Calls : pc[c] \notin StartPcs)
       => \A g \in Caps : grant'[<<ControlOf[k], g>>] # "live"]_vars

=============================================================================
