------------------------ MODULE SchedulerProperties ------------------------
(***************************************************************************)
(* What is claimed of Scheduler: its type invariant, that a job never gets *)
(* stuck on a delivery key it has used, that every due time that was       *)
(* claimed is accepted, retried or given up for good, and that the misfire *)
(* policies hold.                                                          *)
(***************************************************************************)
EXTENDS Scheduler

\* Every variable keeps its type.
TypeOK ==
  /\ now \in Times
  /\ status \in [Jobs -> {"none", "active", "paused", "archived"}]
  /\ policy \in [Jobs -> Policies] /\ pinned \in [Jobs -> BOOLEAN]
  /\ next \in [Jobs -> Nat]
  /\ retry \in [Jobs -> {NoRetry} \cup
                 [n : 1..MaxRetries, at : Nat \cup {Never}, origin : Times]]
  /\ run \in [Keys -> RunStates] /\ started \in [Keys -> Times \cup {Never}]
  /\ lease \in [Jobs -> {NoLease} \cup [key : Keys, expires : Nat]]
  /\ batch \in [Runners -> SUBSET Keys]
  /\ current \in [Runners -> {Nothing} \cup (Keys \X {"task_created", "failed"})]
  /\ coreTasks \subseteq Jobs \X Times

-----------------------------------------------------------------------------

\* A job that is due can be claimed: its delivery key was never used, so the
\* claim that skips a taken key without moving the job on - which would leave it
\* due and unclaimable for ever - never happens, whatever expired or failed before.
DueIsClaimable ==
  \A j \in Jobs : Due(j) => run[DeliveryKey(j)] = "none"

\* A job has a lease exactly while one of its runs is claimed, and only that one.
LeaseTellsClaim ==
  \A j \in Jobs : \A k \in Keys :
    k[1] = j => (run[k] = "claimed" <=> lease[j] # NoLease /\ lease[j].key = k)

\* Attempt n of a due time was claimed.
Tried(j, t, n) == run[<<j, t, n>>] # "none"

\* Every due time that was claimed is settled: Core accepted its last attempt and
\* has its task, or all its attempts are used up, or its job still holds a lease
\* or a pending retry for it.  A lease that expires under a slow runner, a crash
\* between submission and acknowledgement, and a late acknowledgement lose none;
\* and what Core accepted is not tried again.
NoDueTimeLost ==
  \A j \in Jobs, t \in Times, n \in 1..(MaxRetries + 1) :
    Tried(j, t, n) =>
      \/ /\ run[<<j, t, n>>] = "task_created" /\ <<j, t>> \in coreTasks
         /\ n <= MaxRetries => ~Tried(j, t, n + 1)
      \/ run[<<j, t, n>>] = "claimed"
      \/ /\ run[<<j, t, n>>] \in {"failed", "timed_out"}
         /\ \/ n = MaxRetries + 1
            \/ Tried(j, t, n + 1)
            \/ retry[j].origin = t /\ retry[j].n = n /\ retry[j].at # Never

\* u is the first due time of j after t: one that was claimed since, or the next.
ComesAfter(j, t, u) ==
  /\ u = next[j] \/ (u \in Times /\ Tried(j, u, 1))
  /\ \A v \in Times : Tried(j, v, 1) /\ v > t => u <= v

\* The due time the policy of j wants after one due at t and claimed at s: the next
\* interval, or the first multiple of it that lies after s, or the next one unless
\* it has passed, and then an interval from s.
Wanted(j, t, s, u) ==
  CASE policy[j] = "catch_up" -> u = t + Interval[j]
    [] policy[j] = "skip" -> s < u /\ u <= s + Interval[j] /\ (u - t) % Interval[j] = 0
    [] policy[j] = "run_once" ->
         IF t + Interval[j] < s THEN u = s + Interval[j] ELSE u = t + Interval[j]

\* Misfires: what ran after a due time, or is to run, is what the policy wanted when
\* that due time was claimed, however late the poll was and whatever expiries,
\* retries and late answers came since.  So catch_up leaves out no interval, skip
\* none that lay ahead and every one that was past or due at the claim, and
\* run_once makes one run of all that were missed.
MisfirePolicyKept ==
  \A j \in Jobs, t \in Times :
    Tried(j, t, 1) =>
      \E u \in Times \cup {next[j]} :
        ComesAfter(j, t, u) /\ Wanted(j, t, started[<<j, t, 1>>], u)

=============================================================================
