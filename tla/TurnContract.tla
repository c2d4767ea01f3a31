---------------------------- MODULE TurnContract ----------------------------
(***************************************************************************)
(* What a chat turn promises to whoever watches a task, its run and the    *)
(* calls charged to its grants: a task and its run settle together, tools  *)
(* are charged only inside the open turn of a running task, a cancelled or *)
(* completed task never moves again.  ChatTurn implements it.              *)
(***************************************************************************)
EXTENDS KernelStates, Naturals

CONSTANTS
  Tasks,
  Caps,       \* capability scopes granted to a turn
  Overruled   \* BOOLEAN: may a second executor of the run overwrite how it ended?

VARIABLES state, run, used

contractVars == <<state, run, used>>

ContractInit ==
  /\ state = [t \in Tasks |-> "none"]
  /\ run = [t \in Tasks |-> "none"]
  /\ used = [x \in Tasks \X Caps |-> 0]

\* A submission creates the task.
Create(t) ==
  /\ state[t] = "none"
  /\ state' = [state EXCEPT ![t] = "created"]
  /\ UNCHANGED <<run, used>>

\* Pause, resume and cancel, and the first start: what the kernel's table
\* allows except an ending, which belongs to the run.
Steer(t, s) ==
  /\ s \in {"running", "paused", "cancelled"}
  /\ <<state[t], s>> \in TaskTransitions
  /\ state' = [state EXCEPT ![t] = s]
  /\ UNCHANGED <<run, used>>

\* A running task gets its only run.
OpenRun(t) ==
  /\ run[t] = "none" /\ state[t] = "running"
  /\ run' = [run EXCEPT ![t] = "created"]
  /\ UNCHANGED <<state, used>>

StartRun(t) ==
  /\ run[t] = "created"
  /\ run' = [run EXCEPT ![t] = "running"]
  /\ UNCHANGED <<state, used>>

\* A tool call is charged: the task runs and its turn is open.
Charge(t, k) ==
  /\ state[t] = "running" /\ run[t] \in OpenRuns
  /\ used' = [used EXCEPT ![<<t, k>>] = @ + 1]
  /\ UNCHANGED <<state, run>>

\* The turn ends: task and run take the same ending in one step.
Settle(t, s) ==
  /\ s \in {"completed", "failed"}
  /\ run[t] \in OpenRuns /\ state[t] \in {"running", "paused"}
  /\ run' = [run EXCEPT ![t] = s]
  /\ state' = [state EXCEPT ![t] = s]
  /\ UNCHANGED used

\* The task was cancelled first: only the run still ends.
SettleCancelled(t, s) ==
  /\ s \in {"completed", "failed", "cancelled"}
  /\ run[t] \in OpenRuns /\ state[t] = "cancelled"
  /\ run' = [run EXCEPT ![t] = s]
  /\ UNCHANGED <<state, used>>

\* A second executor of a settled run reports a failure.
Overrule(t) ==
  /\ Overruled
  /\ run[t] \in {"completed", "cancelled"}
  /\ run' = [run EXCEPT ![t] = "failed"]
  /\ UNCHANGED <<state, used>>

ContractNext ==
  \E t \in Tasks :
    \/ Create(t) \/ OpenRun(t) \/ StartRun(t) \/ Overrule(t)
    \/ \E s \in TaskStates : Steer(t, s) \/ Settle(t, s) \/ SettleCancelled(t, s)
    \/ \E k \in Caps : Charge(t, k)

ContractSpec == ContractInit /\ [][ContractNext]_contractVars

=============================================================================
