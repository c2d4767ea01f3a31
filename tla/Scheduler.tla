----------------------------- MODULE Scheduler -----------------------------
(***************************************************************************)
(* Jobs that submit a Core task at every interval: scheduler.Store claims  *)
(* the due jobs under a lease and retries what was not acknowledged, the   *)
(* runner of scheduledtasks submits each claimed task and acknowledges it. *)
(* ClaimDue and Acknowledge are one transaction each, so one action each.  *)
(*                                                                         *)
(* The daemon starts one runner; a second stands for the one of a daemon   *)
(* that is going down while its successor polls.  The clock is shared.     *)
(***************************************************************************)
EXTENDS Integers, FiniteSets

CONSTANTS
  Jobs, Runners,
  Interval,       \* interval_seconds of a job
  FirstRuns,      \* bound: the next_run_at a request to create a job may name
  MaxRetries, Backoff, LeaseTime, Limit,
  MaxTime         \* bound: the clock stops there

Policies == {"run_once", "skip", "catch_up"}

ASSUME SchedulerAssumption ==
  /\ Interval \in [Jobs -> Nat \ {0}]
  /\ FirstRuns \subseteq Nat
  /\ MaxRetries \in Nat /\ Backoff \in Nat
  /\ LeaseTime \in Nat \ {0} /\ Limit \in Nat \ {0} /\ MaxTime \in Nat

VARIABLES
  now,
  status,               \* jobs: "none", "active", "paused" or "archived"
  policy, pinned,       \* jobs: misfire_policy, and whether model_ref is set
  next,                 \* jobs.next_run_at
  retry,                \* jobs: [n: retry_attempt, at: retry_at, origin: retry_origin_at]
  run,                  \* job_runs by delivery key <<job, due time, attempt>>
  started,              \* job_runs.started_at: when the attempt was claimed
  lease,                \* job_leases: [key, expires]
  batch,                \* what a runner has claimed and not looked at yet
  current,              \* <<key, verdict>> it is about to acknowledge
  coreTasks             \* <<job, due time>> of the Core tasks that exist

jobVars == <<status, policy, pinned, next, retry>>
storeVars == <<jobVars, run, started, lease>>
runnerVars == <<batch, current>>
vars == <<now, storeVars, runnerVars, coreTasks>>

-----------------------------------------------------------------------------

Never == -1
Times == 0..MaxTime
Keys == Jobs \X Times \X (1..(MaxRetries + 1))
RunStates == {"none", "claimed", "timed_out", "failed", "task_created"}

NoRetry == [n |-> 0, at |-> Never, origin |-> Never]
NoLease == [key |-> <<"none">>, expires |-> Never]
Nothing == <<"none">>

Init ==
  /\ now = 0
  /\ status = [j \in Jobs |-> "none"]
  /\ policy = [j \in Jobs |-> "run_once"]
  /\ pinned = [j \in Jobs |-> TRUE]
  /\ next = [j \in Jobs |-> 0]
  /\ retry = [j \in Jobs |-> NoRetry]
  /\ run = [k \in Keys |-> "none"]
  /\ started = [k \in Keys |-> Never]
  /\ lease = [j \in Jobs |-> NoLease]
  /\ batch = [r \in Runners |-> {}]
  /\ current = [r \in Runners |-> Nothing]
  /\ coreTasks = {}

\* A job is created once for its idempotency key.  Create pins the main model;
\* jobs of older versions have none.
Create(j) ==
  /\ status[j] = "none"
  /\ status' = [status EXCEPT ![j] = "active"]
  /\ \E t \in FirstRuns : next' = [next EXCEPT ![j] = t]
  /\ \E p \in Policies : policy' = [policy EXCEPT ![j] = p]
  /\ \E b \in BOOLEAN : pinned' = [pinned EXCEPT ![j] = b]
  /\ UNCHANGED <<now, retry, run, started, lease, runnerVars, coreTasks>>

\* Pause, resume and archive.
ChangeState(j) ==
  /\ status[j] \notin {"none", "archived"}
  /\ \E s \in {"active", "paused", "archived"} : status' = [status EXCEPT ![j] = s]
  /\ UNCHANGED <<now, policy, pinned, next, retry, run, started, lease, runnerVars,
                 coreTasks>>

-----------------------------------------------------------------------------
(* ClaimDue.                                                               *)

\* Mutant: the due time that is retried is forgotten.
RetryAfterForgetful(k) ==
  IF k[3] <= MaxRetries
    THEN [n |-> k[3], at |-> now + Backoff * k[3], origin |-> Never]
    ELSE NoRetry

\* What becomes of a job whose attempt k timed out or failed.
RetryAfter(k) ==
  IF k[3] <= MaxRetries
    THEN [n |-> k[3], at |-> now + Backoff * k[3], origin |-> k[2]]
    ELSE NoRetry

Leased(j) == lease[j] # NoLease
Expired(j) == Leased(j) /\ lease[j].expires <= now

\* A job's retry columns once expired leases are dealt with.
RetryNow(j) == IF Expired(j) THEN RetryAfter(lease[j].key) ELSE retry[j]

\* A pending retry comes before the next regular run.
DueAt(j) == IF RetryNow(j).at # Never THEN RetryNow(j).at ELSE next[j]

Due(j) ==
  /\ status[j] = "active" /\ DueAt(j) <= now
  /\ ~Leased(j) \/ Expired(j)

\* The due time a claim of j is for, and its delivery key.
ScheduledAt(j) ==
  IF RetryNow(j).n > 0 /\ RetryNow(j).origin # Never THEN RetryNow(j).origin ELSE next[j]
DeliveryKey(j) == <<j, ScheduledAt(j), RetryNow(j).n + 1>>

\* Mutant: skip takes a time that is due right now for one that lies ahead.
AdvanceNextRunDueNow(j, at) ==
  CASE policy[j] = "catch_up" -> at + Interval[j]
    [] policy[j] = "skip" ->
         IF at + Interval[j] >= now THEN at + Interval[j]
         ELSE at + Interval[j] * ((now - at) \div Interval[j] + 1)
    [] policy[j] = "run_once" ->
         IF at + Interval[j] < now THEN now + Interval[j] ELSE at + Interval[j]

\* advanceNextRun: skip goes to the first multiple of the interval after now.
AdvanceNextRun(j, at) ==
  CASE policy[j] = "catch_up" -> at + Interval[j]
    [] policy[j] = "skip" ->
         IF at + Interval[j] > now THEN at + Interval[j]
         ELSE at + Interval[j] * ((now - at) \div Interval[j] + 1)
    [] policy[j] = "run_once" ->
         IF at + Interval[j] < now THEN now + Interval[j] ELSE at + Interval[j]

\* The jobs a poll takes: the earliest due ones, at most Limit of them.
Selection(C) ==
  LET D == {j \in Jobs : Due(j)} IN
  /\ C \subseteq D
  /\ C = D \/ Cardinality(C) = Limit
  /\ Cardinality(C) <= Limit
  /\ \A j \in C, i \in D \ C : DueAt(j) <= DueAt(i)

\* Expired claims are timed out, then every selected job gets a run and a
\* lease; a delivery key that is taken leaves its job as it is.
ClaimDue(r) ==
  /\ batch[r] = {} /\ current[r] = Nothing
  /\ \E C \in SUBSET Jobs :
       /\ Selection(C)
       /\ LET taken == {j \in C : run[DeliveryKey(j)] # "none"}
              claimed == C \ taken
              late == {lease[j].key : j \in {i \in Jobs : Expired(i)}}
          IN
          /\ run' = [k \in Keys |->
               IF \E j \in claimed : k = DeliveryKey(j) THEN "claimed"
               ELSE IF k \in late /\ run[k] = "claimed" THEN "timed_out"
               ELSE run[k]]
          /\ started' = [k \in Keys |->
               IF \E j \in claimed : k = DeliveryKey(j) THEN now ELSE started[k]]
          /\ lease' = [j \in Jobs |->
               IF j \in claimed THEN [key |-> DeliveryKey(j), expires |-> now + LeaseTime]
               ELSE IF Expired(j) THEN NoLease ELSE lease[j]]
          /\ retry' = [j \in Jobs |->
               IF j \in claimed /\ RetryNow(j).n > 0
                 THEN [RetryNow(j) EXCEPT !.at = Never] ELSE RetryNow(j)]
          /\ next' = [j \in Jobs |->
               IF j \in claimed /\ RetryNow(j).n = 0
                 THEN AdvanceNextRun(j, ScheduledAt(j)) ELSE next[j]]
          /\ batch' = [batch EXCEPT ![r] = {DeliveryKey(j) : j \in claimed}]
  /\ UNCHANGED <<now, status, policy, pinned, current, coreTasks>>

-----------------------------------------------------------------------------
(* The runner.                                                             *)

\* accept: the task of a due time has one id, and submitting it again returns
\* the one that exists.  A failed submission may have left its task behind.
Submit(r) ==
  /\ current[r] = Nothing
  /\ \E k \in batch[r] :
       /\ batch' = [batch EXCEPT ![r] = @ \ {k}]
       /\ \/ /\ pinned[k[1]]
             /\ current' = [current EXCEPT ![r] = <<k, "task_created">>]
             /\ coreTasks' = coreTasks \cup {<<k[1], k[2]>>}
          \/ /\ current' = [current EXCEPT ![r] = <<k, "failed">>]
             /\ \/ UNCHANGED coreTasks
                \/ /\ pinned[k[1]]
                   /\ coreTasks' = coreTasks \cup {<<k[1], k[2]>>}
  /\ UNCHANGED <<now, storeVars>>

\* Mutant: an acknowledgement counts whatever became of its lease.
HoldsLeaseAnyhow(k) == TRUE

\* The lease of the claim is still there, expired or not.
HoldsLease(k) == lease[k[1]].key = k

\* The acknowledgement of a lost lease is refused, and any may fail in the store:
\* the runner reports the error and goes on with its batch.
Acknowledge(r) ==
  /\ current[r] # Nothing
  /\ current' = [current EXCEPT ![r] = Nothing]
  /\ LET k == current[r][1]
         verdict == current[r][2]
     IN
     \/ /\ HoldsLease(k)
        /\ run' = [run EXCEPT ![k] = verdict]
        /\ lease' = [lease EXCEPT ![k[1]] = NoLease]
        /\ retry' = [retry EXCEPT ![k[1]] =
             IF verdict = "failed" THEN RetryAfter(k) ELSE NoRetry]
     \/ UNCHANGED <<run, lease, retry>>
  /\ UNCHANGED <<now, status, policy, pinned, next, started, batch, coreTasks>>

\* The daemon of a runner dies, or its context is cancelled at shutdown.
Crash(r) ==
  /\ batch[r] # {} \/ current[r] # Nothing
  /\ batch' = [batch EXCEPT ![r] = {}]
  /\ current' = [current EXCEPT ![r] = Nothing]
  /\ UNCHANGED <<now, storeVars, coreTasks>>

Tick ==
  /\ now < MaxTime
  /\ now' = now + 1
  /\ UNCHANGED <<storeVars, runnerVars, coreTasks>>

Next ==
  \/ \E j \in Jobs : Create(j) \/ ChangeState(j)
  \/ \E r \in Runners : ClaimDue(r) \/ Submit(r) \/ Acknowledge(r) \/ Crash(r)
  \/ Tick

Spec == Init /\ [][Next]_vars

=============================================================================
