---------------------------- MODULE KernelStates ----------------------------
(***************************************************************************)
(* The state machines of internal/kernel/model.go: the states of a Task, a *)
(* Run and a plan step, and the transitions the kernel's tables allow.     *)
(* "none" stands for a row that has not been inserted yet.                 *)
(***************************************************************************)

\* TaskState, without and with the missing row.
TaskStates == {"created", "running", "paused", "completed", "failed", "cancelled"}
TaskRows == TaskStates \cup {"none"}

\* taskTransitions: what Task.Transition accepts.
TaskTransitions ==
  {<<"created", "running">>, <<"created", "cancelled">>,
   <<"running", "paused">>, <<"running", "completed">>,
   <<"running", "failed">>, <<"running", "cancelled">>,
   <<"paused", "running">>, <<"paused", "cancelled">>,
   <<"failed", "cancelled">>}

\* RunState, without and with the missing row.
RunStates == {"created", "running", "completed", "failed", "cancelled"}
RunRows == RunStates \cup {"none"}

\* The runs that have not finished yet.
OpenRuns == {"created", "running"}

\* runTransitions: what Run.Transition accepts.
RunTransitions ==
  {<<"created", "running">>, <<"created", "cancelled">>,
   <<"running", "completed">>, <<"running", "failed">>, <<"running", "cancelled">>}

\* StepState of the only step of a session chat's plan; "none" before the plan.
StepRows == {"none", "pending", "approved", "running", "completed", "failed", "skipped"}

=============================================================================
