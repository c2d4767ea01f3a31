-------------------------- MODULE SchedulerProofs --------------------------
(***************************************************************************)
(* Proofs about Scheduler, for any jobs, runners, intervals and retries:   *)
(* a due job is claimable, no claimed due time is lost and the misfire     *)
(* policies hold.  The invariant of a job (JobOk) is stated of values, so  *)
(* that a claim, which times an expired lease out and takes a new one in a *)
(* single transaction, is proved as the two changes it consists of.        *)
(***************************************************************************)
EXTENDS SchedulerProperties, TLAPS

Tries == 1..(MaxRetries + 1)
RetryValues ==
  {NoRetry} \cup [n : 1..MaxRetries, at : Nat \cup {Never}, origin : Times]
LeaseValues == {NoLease} \cup [key : Keys, expires : Nat]

\* What the runs rn, next due time nx, retry rt and lease ls of job j and the
\* Core tasks ct have to do with each other.
JobOk(j, rn, nx, rt, ls, ct) ==
  /\ \A t \in Times, n \in Tries : rn[<<j, t, n>>] # "none" => t < nx
  /\ \A t \in Times, n \in Tries : rn[<<j, t, n>>] = "claimed" <=> ls.key = <<j, t, n>>
  /\ ls # NoLease => rt.at = Never /\ ls.key[1] = j
  /\ ls # NoLease =>
       \A m \in Tries : m > ls.key[3] => rn[<<j, ls.key[2], m>>] = "none"
  /\ rt # NoRetry /\ ls = NoLease => rt.at # Never
  /\ rt.at # Never =>
       /\ rn[<<j, rt.origin, rt.n>>] \in {"failed", "timed_out"}
       /\ \A m \in Tries : m > rt.n => rn[<<j, rt.origin, m>>] = "none"
  /\ \A t \in Times, n \in Tries : rn[<<j, t, n>>] # "none" =>
       \/ /\ rn[<<j, t, n>>] = "task_created" /\ <<j, t>> \in ct
          /\ n <= MaxRetries => rn[<<j, t, n + 1>>] = "none"
       \/ rn[<<j, t, n>>] = "claimed"
       \/ /\ rn[<<j, t, n>>] \in {"failed", "timed_out"}
          /\ \/ n = MaxRetries + 1
             \/ rn[<<j, t, n + 1>>] # "none"
             \/ rt.origin = t /\ rt.n = n /\ rt.at # Never

\* A job that does not exist has never run.
Fresh(j) ==
  status[j] = "none" =>
    /\ retry[j] = NoRetry /\ lease[j] = NoLease
    /\ \A t \in Times, n \in Tries : run[<<j, t, n>>] = "none"

IInv ==
  /\ TypeOK
  /\ \A j \in Jobs : JobOk(j, run, next[j], retry[j], lease[j], coreTasks) /\ Fresh(j)
  /\ \A r \in Runners :
       current[r] # Nothing /\ current[r][2] = "task_created" =>
         <<current[r][1][1], current[r][1][2]>> \in coreTasks

-----------------------------------------------------------------------------

USE SchedulerAssumption

\* A key is its job, its time and its attempt.
LEMMA KeyParts ==
  /\ \A k \in Keys : /\ k[1] \in Jobs /\ k[2] \in Times /\ k[3] \in Tries
                     /\ k = <<k[1], k[2], k[3]>> /\ NoLease.key # k
  /\ \A j \in Jobs, t \in Times, n \in Tries : <<j, t, n>> \in Keys
<1>1. \A k \in Keys : k[1] \in Jobs /\ k[2] \in Times /\ k[3] \in Tries /\ k = <<k[1], k[2], k[3]>>
  BY DEF Keys, Tries
<1>2. ASSUME NEW k \in Keys PROVE NoLease.key # k
  BY DEF Keys, NoLease
<1>3. \A j \in Jobs, t \in Times, n \in Tries : <<j, t, n>> \in Keys
  BY DEF Keys, Tries
<1> QED
  BY <1>1, <1>2, <1>3

\* The values of retries and leases.
LEMMA Values ==
  /\ NoRetry.n = 0 /\ NoRetry.at = Never /\ NoRetry.origin = Never
  /\ Never \notin Nat /\ Never = -1
  /\ \A rt \in RetryValues : rt # NoRetry =>
       /\ rt.n \in 1..MaxRetries /\ rt.n > 0 /\ rt.n + 1 \in Tries /\ rt.n \in Tries
       /\ rt.at \in Nat \cup {Never} /\ rt.origin \in Times /\ rt.origin # Never
  /\ \A ls \in LeaseValues : ls # NoLease => ls.key \in Keys /\ ls.expires \in Nat
  /\ Times \subseteq Nat /\ Tries \subseteq Nat
  BY DEF NoRetry, Never, RetryValues, LeaseValues, NoLease, Times, Tries

\* The retry after a failed attempt is the next one, or none after the last.
LEMMA RetryAfterValues ==
  ASSUME NEW k \in Keys, now \in Times
  PROVE  /\ RetryAfter(k) \in RetryValues
         /\ k[3] <= MaxRetries => /\ RetryAfter(k) # NoRetry /\ RetryAfter(k).at # Never
                                  /\ RetryAfter(k).n = k[3] /\ RetryAfter(k).origin = k[2]
         /\ ~(k[3] <= MaxRetries) => RetryAfter(k) = NoRetry /\ k[3] = MaxRetries + 1
<1>1. k[2] \in Times /\ k[3] \in Tries /\ now \in Nat
  BY KeyParts DEF Times
<1>2. Backoff * k[3] \in Nat
  BY <1>1 DEF Tries
<1>3. now + Backoff * k[3] \in Nat
  BY <1>1, <1>2
<1>4. CASE k[3] <= MaxRetries
  <2>1. RetryAfter(k) = [n |-> k[3], at |-> now + Backoff * k[3], origin |-> k[2]]
    BY <1>4 DEF RetryAfter
  <2> QED
    BY <1>1, <1>3, <1>4, <2>1 DEF RetryValues, Tries, NoRetry, Never
<1>5. CASE ~(k[3] <= MaxRetries)
  BY <1>1, <1>5 DEF RetryAfter, RetryValues, Tries
<1> QED
  BY <1>4, <1>5

\* The claim under lease ls of job j ends: its run rn becomes rn2 and its retry rt2.
Ended(j, rn, ls, ct, rn2, rt2) ==
  /\ \A t \in Times, n \in Tries :
       <<j, t, n>> # ls.key => rn2[<<j, t, n>>] = rn[<<j, t, n>>]
  /\ \/ rn2[ls.key] \in {"timed_out", "failed"} /\ rt2 = RetryAfter(ls.key)
     \/ rn2[ls.key] = "task_created" /\ rt2 = NoRetry /\ <<ls.key[1], ls.key[2]>> \in ct

\* A claim that ends - timed out, failed or accepted - leaves its job in order.
LEMMA ClaimEnds ==
  ASSUME NEW j \in Jobs, NEW nx \in Nat, NEW rt \in RetryValues, NEW ls \in LeaseValues,
         NEW rn, NEW ct, NEW rn2, NEW rt2,
         JobOk(j, rn, nx, rt, ls, ct), ls # NoLease, now \in Times,
         Ended(j, rn, ls, ct, rn2, rt2)
  PROVE  JobOk(j, rn2, nx, rt2, NoLease, ct)
<1> DEFINE k == ls.key
           v == rn2[k]
<1>0. /\ k \in Keys /\ k[1] = j /\ k[2] \in Times /\ k[3] \in Tries /\ k = <<j, k[2], k[3]>>
      /\ rt.at = Never /\ rn[<<j, k[2], k[3]>>] = "claimed"
      /\ \A m \in Tries : m > k[3] => rn[<<j, k[2], m>>] = "none"
  BY KeyParts, Values DEF JobOk
<1>1. \A t \in Times, n \in Tries :
        /\ rn2[<<j, t, n>>] # "none" <=> rn[<<j, t, n>>] # "none"
        /\ rn2[<<j, t, n>>] # "claimed"
        /\ (t # k[2] \/ n # k[3]) => rn2[<<j, t, n>>] = rn[<<j, t, n>>]
        /\ rn2[<<j, k[2], k[3]>>] = v
  BY <1>0 DEF JobOk, Ended
<1>2. \A t \in Times, n \in Tries : rn2[<<j, t, n>>] # "none" => t < nx
  BY <1>1 DEF JobOk
<1>3. \A t \in Times, n \in Tries : rn2[<<j, t, n>>] = "claimed" <=> NoLease.key = <<j, t, n>>
  BY <1>1, KeyParts
<1>4. /\ rt2 # NoRetry => rt2.at # Never
      /\ rt2.at # Never =>
           /\ rn2[<<j, rt2.origin, rt2.n>>] \in {"failed", "timed_out"}
           /\ \A m \in Tries : m > rt2.n => rn2[<<j, rt2.origin, m>>] = "none"
  <2>1. CASE v = "task_created" /\ rt2 = NoRetry
    BY <2>1, Values
  <2>2. CASE v \in {"timed_out", "failed"} /\ rt2 = RetryAfter(k) /\ k[3] <= MaxRetries
    <3>1. rt2 # NoRetry /\ rt2.at # Never /\ rt2.n = k[3] /\ rt2.origin = k[2]
      BY <1>0, <2>2, RetryAfterValues
    <3>2. \A m \in Tries : m > k[3] => rn2[<<j, k[2], m>>] = "none"
      BY <1>0, <1>1
    <3> QED
      BY <1>0, <1>1, <2>2, <3>1, <3>2
  <2>3. CASE rt2 = RetryAfter(k) /\ ~(k[3] <= MaxRetries)
    <3>1. rt2 = NoRetry
      BY <1>0, <2>3, RetryAfterValues
    <3> QED
      BY <3>1, Values
  <2> QED
    BY <2>1, <2>2, <2>3 DEF Ended
<1>5. ASSUME NEW t \in Times, NEW n \in Tries, rn2[<<j, t, n>>] # "none"
      PROVE  \/ /\ rn2[<<j, t, n>>] = "task_created" /\ <<j, t>> \in ct
                /\ n <= MaxRetries => rn2[<<j, t, n + 1>>] = "none"
             \/ /\ rn2[<<j, t, n>>] \in {"failed", "timed_out"}
                /\ \/ n = MaxRetries + 1
                   \/ rn2[<<j, t, n + 1>>] # "none"
                   \/ rt2.origin = t /\ rt2.n = n /\ rt2.at # Never
  <2>0. n \in Nat /\ (n # MaxRetries + 1 => n <= MaxRetries /\ n + 1 \in Tries /\ n + 1 > n)
    BY DEF Tries
  <2>1. CASE t = k[2] /\ n = k[3]
    BY <1>0, <1>1, <2>0, <2>1, RetryAfterValues DEF Ended
  <2>2. CASE t # k[2] \/ n # k[3]
    <3>1. rn2[<<j, t, n>>] = rn[<<j, t, n>>] /\ rn[<<j, t, n>>] # "none" /\ rn[<<j, t, n>>] # "claimed"
      BY <1>1, <1>5, <2>2
    <3>2. n # MaxRetries + 1 => (rn2[<<j, t, n + 1>>] # "none" <=> rn[<<j, t, n + 1>>] # "none")
      BY <1>1, <2>0
    <3> QED
      BY <1>0, <2>0, <3>1, <3>2 DEF JobOk
  <2> QED
    BY <2>1, <2>2
<1> QED
  BY <1>2, <1>3, <1>4, <1>5 DEF JobOk

\* The delivery key of a due job without a lease was never used.
LEMMA KeyIsFree ==
  ASSUME NEW j \in Jobs, NEW nx \in Nat, NEW rt \in RetryValues, NEW rn, NEW ct, NEW at,
         JobOk(j, rn, nx, rt, NoLease, ct), now \in Times,
         (IF rt.at # Never THEN rt.at ELSE nx) <= now,
         at = IF rt.n > 0 /\ rt.origin # Never THEN rt.origin ELSE nx
  PROVE  /\ at \in Times /\ rt.n + 1 \in Tries /\ rn[<<j, at, rt.n + 1>>] = "none"
         /\ \A m \in Tries : m > rt.n => rn[<<j, at, m>>] = "none"
         /\ rt.n = 0 => rt = NoRetry /\ at = nx /\ at <= now
         /\ rt.n # 0 => rt # NoRetry /\ rt.at # Never /\ at = rt.origin /\ at < nx
<1>1. CASE rt = NoRetry
  <2>1. at = nx /\ rt.n = 0 /\ nx <= now
    BY <1>1, Values
  <2>2. nx \in Times /\ 1 \in Tries /\ rt.n + 1 = 1
    BY <2>1 DEF Times, Tries
  <2>3. \A m \in Tries : rn[<<j, nx, m>>] = "none"
    BY <2>2 DEF JobOk
  <2> QED
    BY <1>1, <2>1, <2>2, <2>3
<1>2. CASE rt # NoRetry
  <2>1. /\ rt.n \in 1..MaxRetries /\ rt.n > 0 /\ rt.n + 1 \in Tries /\ rt.n \in Tries
        /\ rt.origin \in Times /\ rt.origin # Never /\ at = rt.origin /\ rt.at # Never
    BY <1>2, Values DEF JobOk
  <2>2. rn[<<j, at, rt.n>>] # "none" /\ \A m \in Tries : m > rt.n => rn[<<j, at, m>>] = "none"
    BY <2>1 DEF JobOk
  <2>3. at < nx
    BY <2>1, <2>2 DEF JobOk
  <2> QED
    BY <1>2, <2>1, <2>2, <2>3
<1> QED
  BY <1>1, <1>2

\* The claim for the due time at takes its lease ls2: the job's runs rn become
\* rn2, its next due time nx becomes nx2 and its retry rt becomes rt2.
Started(j, rn, nx, rt, at, rn2, nx2, rt2, ls2) ==
  /\ (IF rt.at # Never THEN rt.at ELSE nx) <= now
  /\ at = IF rt.n > 0 /\ rt.origin # Never THEN rt.origin ELSE nx
  /\ rt.n = 0 => nx2 > nx
  /\ rt.n # 0 => nx2 = nx
  /\ rt2 = IF rt.n > 0 THEN [rt EXCEPT !.at = Never] ELSE rt
  /\ ls2.key = <<j, at, rt.n + 1>> /\ ls2 # NoLease
  /\ \A t \in Times, n \in Tries :
       rn2[<<j, t, n>>] = IF <<j, t, n>> = <<j, at, rt.n + 1>> THEN "claimed" ELSE rn[<<j, t, n>>]

\* A claim leaves its job in order.
LEMMA ClaimStarts ==
  ASSUME NEW j \in Jobs, NEW nx \in Nat, NEW rt \in RetryValues, NEW rn, NEW ct, NEW at,
         JobOk(j, rn, nx, rt, NoLease, ct), now \in Times,
         NEW nx2 \in Nat, NEW rt2, NEW ls2, NEW rn2,
         Started(j, rn, nx, rt, at, rn2, nx2, rt2, ls2)
  PROVE  JobOk(j, rn2, nx2, rt2, ls2, ct)
<1> DEFINE i == rt.n + 1
<1> USE DEF Started
<1>0. /\ at \in Times /\ i \in Tries /\ rn[<<j, at, i>>] = "none"
      /\ \A m \in Tries : m > rt.n => rn[<<j, at, m>>] = "none"
      /\ rt.n = 0 => rt = NoRetry /\ at = nx
      /\ rt.n # 0 => rt # NoRetry /\ rt.at # Never /\ at = rt.origin /\ at < nx
      /\ rt.n \in Nat
  <2>1. rt.n \in Nat
    BY Values
  <2>2. at \in Times /\ rt.n + 1 \in Tries /\ rn[<<j, at, rt.n + 1>>] = "none"
    BY KeyIsFree
  <2>3. rt.n # 0 => rt # NoRetry /\ rt.at # Never /\ at = rt.origin /\ at < nx
    BY KeyIsFree
  <2>4. ASSUME NEW m \in Tries, m > rt.n PROVE rn[<<j, at, m>>] = "none"
    <3>1. CASE rt.n = 0
      <4>1. at = nx
        BY <3>1
      <4> QED
        BY <2>2, <4>1 DEF JobOk
    <3>2. CASE rt.n # 0
      BY <2>3, <2>4, <3>2 DEF JobOk
    <3> QED
      BY <3>1, <3>2
  <2>5. ASSUME rt.n = 0 PROVE rt = NoRetry /\ at = nx
    BY <2>5, Values
  <2> QED
    BY <2>1, <2>2, <2>3, <2>4, <2>5
<1>1. /\ rn2[<<j, at, i>>] = "claimed"
      /\ \A t \in Times, n \in Tries : (t # at \/ n # i) =>
           /\ rn2[<<j, t, n>>] = rn[<<j, t, n>>]
           /\ rn[<<j, t, n>>] # "claimed"
  <2>1. \A t \in Times, n \in Tries : rn[<<j, t, n>>] # "claimed"
    BY KeyParts DEF JobOk
  <2> QED
    BY <1>0, <2>1
<1>2. \A t \in Times, n \in Tries : rn2[<<j, t, n>>] # "none" => t < nx2
  <2>1. at < nx2 /\ nx <= nx2 /\ Times \subseteq Nat
    BY <1>0 DEF Times
  <2>2. \A t \in Times, n \in Tries : rn[<<j, t, n>>] # "none" => t < nx
    BY DEF JobOk
  <2> QED
    BY <1>1, <2>1, <2>2
<1>3. \A t \in Times, n \in Tries : rn2[<<j, t, n>>] = "claimed" <=> ls2.key = <<j, t, n>>
  BY <1>0, <1>1
<1>4. ls2 # NoLease =>
        /\ ls2.key[1] = j
        /\ \A m \in Tries : m > ls2.key[3] => rn2[<<j, ls2.key[2], m>>] = "none"
  <2>1. ls2.key[1] = j /\ ls2.key[2] = at /\ ls2.key[3] = i
    OBVIOUS
  <2>2. \A m \in Tries : m > i => m > rt.n /\ m # i
    BY <1>0 DEF Tries
  <2> QED
    BY <1>0, <1>1, <2>1, <2>2
<1>5. rt2.at = Never
  <2>1. CASE rt = NoRetry
    BY <2>1, Values
  <2>2. CASE rt # NoRetry
    BY <2>2, Values DEF RetryValues
  <2> QED
    BY <2>1, <2>2
<1>6. ASSUME NEW t \in Times, NEW n \in Tries, rn2[<<j, t, n>>] # "none"
      PROVE  \/ /\ rn2[<<j, t, n>>] = "task_created" /\ <<j, t>> \in ct
                /\ n <= MaxRetries => rn2[<<j, t, n + 1>>] = "none"
             \/ rn2[<<j, t, n>>] = "claimed"
             \/ /\ rn2[<<j, t, n>>] \in {"failed", "timed_out"}
                /\ \/ n = MaxRetries + 1
                   \/ rn2[<<j, t, n + 1>>] # "none"
                   \/ rt2.origin = t /\ rt2.n = n /\ rt2.at # Never
  <2>0. n \in Nat /\ (n # MaxRetries + 1 => n + 1 \in Tries) /\ (n <= MaxRetries => n + 1 \in Tries)
    BY DEF Tries
  <2>1. CASE t = at /\ n = i
    BY <1>1, <2>1
  <2>2. CASE (t # at \/ n # i) /\ t = at /\ n + 1 = i
    <3>1. n = rt.n /\ rt.n # 0 /\ n # MaxRetries + 1
      BY <1>0, <2>0, <2>2 DEF Tries
    <3>2. rn[<<j, t, n>>] \in {"failed", "timed_out"}
      BY <1>0, <2>2, <3>1 DEF JobOk
    <3> QED
      BY <1>1, <2>2, <3>2
  <2>3. CASE (t # at \/ n # i) /\ (t # at \/ n + 1 # i)
    <3>1. rn2[<<j, t, n>>] = rn[<<j, t, n>>] /\ rn[<<j, t, n>>] # "claimed" /\ rn[<<j, t, n>>] # "none"
      BY <1>1, <1>6, <2>3
    <3>2. n + 1 \in Tries => rn2[<<j, t, n + 1>>] = rn[<<j, t, n + 1>>]
      BY <1>1, <2>3
    <3>3. ~(rt.origin = t /\ rt.n = n /\ rt.at # Never)
      BY <1>0, <2>3, Values
    <3> QED
      BY <2>0, <3>1, <3>2, <3>3 DEF JobOk
  <2> QED
    BY <2>1, <2>2, <2>3
<1> QED
  BY <1>2, <1>3, <1>4, <1>5, <1>6 DEF JobOk

\* A job whose runs are as they were stays in order when Core gets more tasks.
LEMMA JobFrame ==
  ASSUME NEW j \in Jobs, NEW nx, NEW rt \in RetryValues, NEW ls \in LeaseValues,
         NEW rn, NEW ct, NEW rn2, NEW ct2,
         JobOk(j, rn, nx, rt, ls, ct), ct \subseteq ct2,
         \A t \in Times, n \in Tries : rn2[<<j, t, n>>] = rn[<<j, t, n>>]
  PROVE  JobOk(j, rn2, nx, rt, ls, ct2)
<1>1. ls # NoLease => ls.key[2] \in Times /\ ls.key[3] \in Tries
  BY KeyParts, Values
<1>2. rt.at # Never => rt.n \in Tries /\ rt.origin \in Times
  BY Values
<1>3. ASSUME NEW t \in Times, NEW n \in Tries, rn2[<<j, t, n>>] # "none"
      PROVE  \/ /\ rn2[<<j, t, n>>] = "task_created" /\ <<j, t>> \in ct2
                /\ n <= MaxRetries => rn2[<<j, t, n + 1>>] = "none"
             \/ rn2[<<j, t, n>>] = "claimed"
             \/ /\ rn2[<<j, t, n>>] \in {"failed", "timed_out"}
                /\ \/ n = MaxRetries + 1
                   \/ rn2[<<j, t, n + 1>>] # "none"
                   \/ rt.origin = t /\ rt.n = n /\ rt.at # Never
  <2>1. n # MaxRetries + 1 => n + 1 \in Tries
    BY DEF Tries
  <2>2. n <= MaxRetries => n + 1 \in Tries
    BY DEF Tries
  <2> QED
    BY <1>3, <2>1, <2>2 DEF JobOk
<1> QED
  BY <1>1, <1>2, <1>3 DEF JobOk

-----------------------------------------------------------------------------
(* Claiming.                                                               *)

\* advanceNextRun moves on, by each policy.
LEMMA NextRunAdvances ==
  ASSUME NEW j \in Jobs, NEW at \in Nat, now \in Nat, at <= now, policy[j] \in Policies
  PROVE  /\ AdvanceNextRun(j, at) \in Nat /\ AdvanceNextRun(j, at) > at
         /\ policy[j] = "catch_up" => AdvanceNextRun(j, at) = at + Interval[j]
         /\ policy[j] = "run_once" => AdvanceNextRun(j, at) >= at + Interval[j]
         /\ policy[j] = "skip" => \E q \in Nat : AdvanceNextRun(j, at) = at + Interval[j] * q
<1>1. Interval[j] \in Nat /\ Interval[j] > 0
  OBVIOUS
<1>2. CASE policy[j] = "catch_up"
  BY <1>1, <1>2 DEF AdvanceNextRun
<1>3. CASE policy[j] = "run_once"
  <2>1. AdvanceNextRun(j, at) = IF at + Interval[j] < now THEN now + Interval[j] ELSE at + Interval[j]
    BY <1>3 DEF AdvanceNextRun
  <2> QED
    BY <1>1, <1>3, <2>1
<1>4. CASE policy[j] = "skip"
  <2>1. AdvanceNextRun(j, at) = IF at + Interval[j] > now THEN at + Interval[j]
                                ELSE at + Interval[j] * ((now - at) \div Interval[j] + 1)
    BY <1>4 DEF AdvanceNextRun
  <2>2. CASE at + Interval[j] > now
    <3>1. AdvanceNextRun(j, at) = at + Interval[j] * 1
      BY <1>1, <2>1, <2>2
    <3> QED
      BY <1>1, <1>4, <3>1
  <2>3. CASE ~(at + Interval[j] > now)
    <3> DEFINE q == (now - at) \div Interval[j] + 1
    <3>1. now - at \in Nat
      OBVIOUS
    <3>2. (now - at) \div Interval[j] \in Nat
      BY <1>1, <3>1
    <3>3. q \in Nat /\ q >= 1
      BY <3>2
    <3>4. Interval[j] * q \in Nat /\ Interval[j] * q > 0
      BY <1>1, <3>3
    <3>5. AdvanceNextRun(j, at) = at + Interval[j] * q
      BY <2>1, <2>3
    <3> HIDE DEF q
    <3> QED
      BY <1>4, <3>3, <3>4, <3>5
  <2> QED
    BY <2>2, <2>3
<1> QED
  BY <1>2, <1>3, <1>4 DEF Policies

\* A job's retry columns, due time and lease once expired leases are dealt with.
LeaseNow(j) == IF Expired(j) THEN NoLease ELSE lease[j]
RunsNow(j) == [k \in Keys |-> IF Expired(j) /\ k = lease[j].key THEN "timed_out" ELSE run[k]]

\* The sweep at the start of a claim keeps the invariant of every job.
LEMMA Swept ==
  ASSUME IInv, NEW j \in Jobs
  PROVE  /\ JobOk(j, RunsNow(j), next[j], RetryNow(j), LeaseNow(j), coreTasks)
         /\ RetryNow(j) \in RetryValues
         /\ \A t \in Times, n \in Tries :
              RunsNow(j)[<<j, t, n>>] = "none" <=> run[<<j, t, n>>] = "none"
<1>1. /\ now \in Times /\ next[j] \in Nat /\ retry[j] \in RetryValues
      /\ lease[j] \in LeaseValues /\ run \in [Keys -> RunStates]
      /\ JobOk(j, run, next[j], retry[j], lease[j], coreTasks)
  BY DEF IInv, TypeOK, RetryValues, LeaseValues
<1>2. CASE Expired(j)
  <2>1. lease[j] # NoLease /\ lease[j].key \in Keys
    BY <1>1, <1>2, Values DEF Expired, Leased
  <2>2. \A t \in Times, n \in Tries :
          RunsNow(j)[<<j, t, n>>] = IF <<j, t, n>> = lease[j].key THEN "timed_out" ELSE run[<<j, t, n>>]
    BY <1>2, KeyParts DEF RunsNow
  <2>3. JobOk(j, RunsNow(j), next[j], RetryAfter(lease[j].key), NoLease, coreTasks)
    <3> DEFINE ls == lease[j]
               rn2 == RunsNow(j)
               rt2 == RetryAfter(ls.key)
    <3>1. \A t \in Times, n \in Tries : <<j, t, n>> # ls.key => rn2[<<j, t, n>>] = run[<<j, t, n>>]
      BY <2>2
    <3>2. rn2[ls.key] = "timed_out"
      BY <1>2, <2>1 DEF RunsNow
    <3>3. ls \in LeaseValues /\ ls # NoLease /\ JobOk(j, run, next[j], retry[j], ls, coreTasks)
      BY <1>1, <2>1
    <3>4. rn2[ls.key] \in {"timed_out", "failed"} /\ rt2 = RetryAfter(ls.key)
      BY <3>2
    <3>6. Ended(j, run, ls, coreTasks, rn2, rt2)
      BY <3>1, <3>4 DEF Ended
    <3>5. JobOk(j, rn2, next[j], rt2, NoLease, coreTasks)
      <4> HIDE DEF ls, rn2, rt2
      <4>1. next[j] \in Nat /\ retry[j] \in RetryValues /\ now \in Times
        BY <1>1
      <4> QED
        BY <3>3, <3>6, <4>1, ClaimEnds
    <3> QED
      BY <3>5
  <2>4. \A t \in Times, n \in Tries : <<j, t, n>> = lease[j].key => run[<<j, t, n>>] = "claimed"
    BY <1>1 DEF JobOk
  <2> QED
    BY <1>1, <1>2, <2>1, <2>2, <2>3, <2>4, RetryAfterValues DEF RetryNow, LeaseNow
<1>3. CASE ~Expired(j)
  <2>1. RunsNow(j) = run
    BY <1>1, <1>3 DEF RunsNow
  <2> QED
    BY <1>1, <1>3, <2>1 DEF RetryNow, LeaseNow
<1> QED
  BY <1>2, <1>3

\* A due job can be claimed.
LEMMA DueClaimable ==
  ASSUME IInv, NEW j \in Jobs, Due(j)
  PROVE  /\ LeaseNow(j) = NoLease /\ now \in Times /\ next[j] \in Nat
         /\ (IF RetryNow(j).at # Never THEN RetryNow(j).at ELSE next[j]) <= now
         /\ ScheduledAt(j) \in Times /\ RetryNow(j).n + 1 \in Tries
         /\ DeliveryKey(j) \in Keys /\ run[DeliveryKey(j)] = "none"
         /\ RetryNow(j).n = 0 => ScheduledAt(j) = next[j] /\ next[j] <= now
         /\ RetryNow(j).n # 0 => RetryNow(j).n > 0
<1>1. LeaseNow(j) = NoLease
  BY DEF Due, LeaseNow, Leased
<1>2. /\ now \in Times /\ next[j] \in Nat /\ RetryNow(j) \in RetryValues
      /\ (IF RetryNow(j).at # Never THEN RetryNow(j).at ELSE next[j]) <= now
      /\ JobOk(j, RunsNow(j), next[j], RetryNow(j), NoLease, coreTasks)
  BY <1>1, Swept DEF Due, DueAt, IInv, TypeOK
<1> DEFINE at == ScheduledAt(j)
<1>3. at = IF RetryNow(j).n > 0 /\ RetryNow(j).origin # Never THEN RetryNow(j).origin ELSE next[j]
  BY DEF ScheduledAt
<1> HIDE DEF at
<1>4. /\ at \in Times /\ RetryNow(j).n + 1 \in Tries
      /\ RunsNow(j)[<<j, at, RetryNow(j).n + 1>>] = "none"
  BY <1>2, <1>3, KeyIsFree
<1>5. RetryNow(j).n = 0 => at = next[j] /\ next[j] <= now
  <2>1. RetryNow(j).n = 0 => RetryNow(j) = NoRetry
    BY <1>2, Values
  <2> QED
    BY <1>2, <1>3, <2>1, Values
<1>6. run[<<j, at, RetryNow(j).n + 1>>] = "none"
  BY <1>4, Swept
<1>7. RetryNow(j).n # 0 => RetryNow(j).n > 0
  BY <1>2, Values
<1> QED
  BY <1>1, <1>2, <1>4, <1>5, <1>6, <1>7, KeyParts DEF DeliveryKey, at

\* What a poll does to a job, once it is known that no delivery key is taken.
LEMMA Polled ==
  ASSUME IInv, NEW r \in Runners, ClaimDue(r)
  PROVE  \E C \in SUBSET Jobs :
           /\ \A j \in C : Due(j)
           /\ \A j \in C, t \in Times, n \in Tries :
                run'[<<j, t, n>>] = IF <<j, t, n>> = DeliveryKey(j) THEN "claimed"
                                    ELSE RunsNow(j)[<<j, t, n>>]
           /\ \A j \in Jobs \ C, t \in Times, n \in Tries :
                run'[<<j, t, n>>] = RunsNow(j)[<<j, t, n>>]
           /\ lease' = [j \in Jobs |->
                IF j \in C THEN [key |-> DeliveryKey(j), expires |-> now + LeaseTime]
                ELSE LeaseNow(j)]
           /\ retry' = [j \in Jobs |->
                IF j \in C /\ RetryNow(j).n > 0
                  THEN [RetryNow(j) EXCEPT !.at = Never] ELSE RetryNow(j)]
           /\ next' = [j \in Jobs |->
                IF j \in C /\ RetryNow(j).n = 0
                  THEN AdvanceNextRun(j, ScheduledAt(j)) ELSE next[j]]
           /\ run' \in [Keys -> RunStates]
           /\ \A j \in Jobs, t \in Times, n \in Tries :
                started'[<<j, t, n>>] = IF j \in C /\ <<j, t, n>> = DeliveryKey(j) THEN now
                                        ELSE started[<<j, t, n>>]
           /\ started' \in [Keys -> Times \cup {Never}]
           /\ batch' = [batch EXCEPT ![r] = {DeliveryKey(j) : j \in C}]
           /\ UNCHANGED <<now, status, policy, pinned, current, coreTasks>>
<1> DEFINE late == {lease[j].key : j \in {i \in Jobs : Expired(i)}}
<1>1. PICK C \in SUBSET Jobs :
        LET taken == {j \in C : run[DeliveryKey(j)] # "none"}
            claimed == C \ taken
        IN
        /\ Selection(C)
        /\ run' = [k \in Keys |->
             IF \E j \in claimed : k = DeliveryKey(j) THEN "claimed"
             ELSE IF k \in late /\ run[k] = "claimed" THEN "timed_out"
             ELSE run[k]]
        /\ started' = [k \in Keys |->
             IF \E j \in claimed : k = DeliveryKey(j) THEN now ELSE started[k]]
        /\ lease' = [j \in Jobs |->
             IF j \in claimed THEN [key |-> DeliveryKey(j), expires |-> now + LeaseTime]
             ELSE IF Expired(j) THEN NoLease ELSE lease[j]]
        /\ retry' = [j \in Jobs |->
             IF j \in claimed /\ RetryNow(j).n > 0
               THEN [RetryNow(j) EXCEPT !.at = Never] ELSE RetryNow(j)]
        /\ next' = [j \in Jobs |->
             IF j \in claimed /\ RetryNow(j).n = 0
               THEN AdvanceNextRun(j, ScheduledAt(j)) ELSE next[j]]
        /\ batch' = [batch EXCEPT ![r] = {DeliveryKey(j) : j \in claimed}]
  BY DEF ClaimDue
<1>2. \A j \in C : Due(j)
  BY <1>1 DEF Selection
<1>3. {j \in C : run[DeliveryKey(j)] # "none"} = {}
  BY <1>2, DueClaimable
<1>4. C \ {j \in C : run[DeliveryKey(j)] # "none"} = C
  BY <1>3
<1>5. run' = [k \in Keys |->
             IF \E j \in C : k = DeliveryKey(j) THEN "claimed"
             ELSE IF k \in late /\ run[k] = "claimed" THEN "timed_out"
             ELSE run[k]]
  BY <1>1, <1>4
<1>6. ASSUME NEW j \in Jobs, NEW t \in Times, NEW n \in Tries
      PROVE  (IF <<j, t, n>> \in late /\ run[<<j, t, n>>] = "claimed" THEN "timed_out" ELSE run[<<j, t, n>>])
               = RunsNow(j)[<<j, t, n>>]
  <2>1. <<j, t, n>> \in Keys /\ RunsNow(j)[<<j, t, n>>] =
          IF Expired(j) /\ <<j, t, n>> = lease[j].key THEN "timed_out" ELSE run[<<j, t, n>>]
    BY KeyParts DEF RunsNow
  <2>2. ASSUME NEW i \in Jobs, Expired(i), <<j, t, n>> = lease[i].key PROVE i = j
    <3>1. lease[i] # NoLease /\ JobOk(i, run, next[i], retry[i], lease[i], coreTasks)
      BY <2>2 DEF IInv, Expired, Leased
    <3>2. lease[i].key[1] = i
      BY <3>1 DEF JobOk
    <3> QED
      BY <2>2, <3>2
  <2>3. Expired(j) /\ <<j, t, n>> = lease[j].key => run[<<j, t, n>>] = "claimed"
    <3>1. JobOk(j, run, next[j], retry[j], lease[j], coreTasks)
      BY DEF IInv
    <3> QED
      BY <3>1 DEF JobOk
  <2>4. <<j, t, n>> \in late <=> Expired(j) /\ <<j, t, n>> = lease[j].key
    BY <2>2
  <2> QED
    BY <2>1, <2>3, <2>4
<1>7. ASSUME NEW j \in Jobs, NEW t \in Times, NEW n \in Tries
      PROVE  (\E i \in C : <<j, t, n>> = DeliveryKey(i)) <=> j \in C /\ <<j, t, n>> = DeliveryKey(j)
  BY DEF DeliveryKey
<1>13. ASSUME NEW j \in Jobs, NEW t \in Times, NEW n \in Tries
       PROVE  run'[<<j, t, n>>] = IF j \in C /\ <<j, t, n>> = DeliveryKey(j) THEN "claimed"
                                  ELSE RunsNow(j)[<<j, t, n>>]
  <2>1. <<j, t, n>> \in Keys
    BY KeyParts
  <2>2. run'[<<j, t, n>>] =
          IF \E i \in C : <<j, t, n>> = DeliveryKey(i) THEN "claimed"
          ELSE IF <<j, t, n>> \in late /\ run[<<j, t, n>>] = "claimed" THEN "timed_out"
          ELSE run[<<j, t, n>>]
    BY <1>5, <2>1
  <2> QED
    BY <1>6, <1>7, <2>2
<1>8. \A j \in C, t \in Times, n \in Tries :
        run'[<<j, t, n>>] = IF <<j, t, n>> = DeliveryKey(j) THEN "claimed" ELSE RunsNow(j)[<<j, t, n>>]
  BY <1>13
<1>9. \A j \in Jobs \ C, t \in Times, n \in Tries : run'[<<j, t, n>>] = RunsNow(j)[<<j, t, n>>]
  BY <1>13
<1>10. run' \in [Keys -> RunStates]
  BY <1>5 DEF IInv, TypeOK, RunStates
<1>11. /\ lease' = [j \in Jobs |->
             IF j \in C THEN [key |-> DeliveryKey(j), expires |-> now + LeaseTime] ELSE LeaseNow(j)]
       /\ retry' = [j \in Jobs |->
             IF j \in C /\ RetryNow(j).n > 0
               THEN [RetryNow(j) EXCEPT !.at = Never] ELSE RetryNow(j)]
       /\ next' = [j \in Jobs |->
             IF j \in C /\ RetryNow(j).n = 0
               THEN AdvanceNextRun(j, ScheduledAt(j)) ELSE next[j]]
       /\ batch' = [batch EXCEPT ![r] = {DeliveryKey(j) : j \in C}]
  BY <1>1, <1>4 DEF LeaseNow
<1>12. UNCHANGED <<now, status, policy, pinned, current, coreTasks>>
  BY DEF ClaimDue
<1>14. started' = [k \in Keys |->
         IF \E j \in C : k = DeliveryKey(j) THEN now ELSE started[k]]
  BY <1>1, <1>4
<1>15. \A j \in Jobs, t \in Times, n \in Tries :
         started'[<<j, t, n>>] = IF j \in C /\ <<j, t, n>> = DeliveryKey(j) THEN now
                                 ELSE started[<<j, t, n>>]
  <2> SUFFICES ASSUME NEW j \in Jobs, NEW t \in Times, NEW n \in Tries
               PROVE  started'[<<j, t, n>>] =
                        IF j \in C /\ <<j, t, n>> = DeliveryKey(j) THEN now
                        ELSE started[<<j, t, n>>]
    OBVIOUS
  <2>1. <<j, t, n>> \in Keys
    BY KeyParts
  <2>2. started'[<<j, t, n>>] =
          IF \E i \in C : <<j, t, n>> = DeliveryKey(i) THEN now ELSE started[<<j, t, n>>]
    BY <1>14, <2>1
  <2> QED
    BY <1>7, <2>2
<1>16. started' \in [Keys -> Times \cup {Never}]
  BY <1>14 DEF IInv, TypeOK
<1> QED
  BY <1>2, <1>8, <1>9, <1>10, <1>11, <1>12, <1>15, <1>16


-----------------------------------------------------------------------------
(* The invariant.                                                          *)

LEMMA InitIInv == Init => IInv
<1> SUFFICES ASSUME Init PROVE IInv
  OBVIOUS
<1> USE DEF Init
<1>1. TypeOK
  BY DEF TypeOK, Times, Policies, RunStates, Keys
<1>2. ASSUME NEW j \in Jobs PROVE JobOk(j, run, next[j], retry[j], lease[j], coreTasks) /\ Fresh(j)
  <2>1. \A t \in Times, n \in Tries : run[<<j, t, n>>] = "none"
    BY KeyParts
  <2>2. retry[j] = NoRetry /\ lease[j] = NoLease
    OBVIOUS
  <2>3. \A t \in Times, n \in Tries : NoLease.key # <<j, t, n>>
    BY KeyParts
  <2>4. JobOk(j, run, next[j], NoRetry, NoLease, coreTasks)
    BY <2>1, <2>3, Values DEF JobOk
  <2> QED
    BY <2>1, <2>2, <2>4 DEF Fresh
<1>3. \A r \in Runners : current[r] = Nothing
  OBVIOUS
<1> QED
  BY <1>1, <1>2, <1>3 DEF IInv

\* What a poll leaves of each job it takes and each job it does not take.
LEMMA PolledJobs ==
  ASSUME IInv, NEW r \in Runners, ClaimDue(r), NEW j \in Jobs
  PROVE  /\ next'[j] \in Nat /\ retry'[j] \in RetryValues /\ lease'[j] \in LeaseValues
         /\ JobOk(j, run', next'[j], retry'[j], lease'[j], coreTasks')
         /\ Fresh(j)'
<1>1. PICK C \in SUBSET Jobs :
        /\ \A i \in C : Due(i)
        /\ \A i \in C, t \in Times, n \in Tries :
             run'[<<i, t, n>>] = IF <<i, t, n>> = DeliveryKey(i) THEN "claimed"
                                 ELSE RunsNow(i)[<<i, t, n>>]
        /\ \A i \in Jobs \ C, t \in Times, n \in Tries :
             run'[<<i, t, n>>] = RunsNow(i)[<<i, t, n>>]
        /\ lease' = [i \in Jobs |->
             IF i \in C THEN [key |-> DeliveryKey(i), expires |-> now + LeaseTime]
             ELSE LeaseNow(i)]
        /\ retry' = [i \in Jobs |->
             IF i \in C /\ RetryNow(i).n > 0
               THEN [RetryNow(i) EXCEPT !.at = Never] ELSE RetryNow(i)]
        /\ next' = [i \in Jobs |->
             IF i \in C /\ RetryNow(i).n = 0
               THEN AdvanceNextRun(i, ScheduledAt(i)) ELSE next[i]]
        /\ UNCHANGED <<status, coreTasks>>
  BY Polled
<1>2. /\ JobOk(j, RunsNow(j), next[j], RetryNow(j), LeaseNow(j), coreTasks)
      /\ RetryNow(j) \in RetryValues /\ next[j] \in Nat /\ now \in Times /\ policy[j] \in Policies
      /\ \A t \in Times, n \in Tries :
           RunsNow(j)[<<j, t, n>>] = "none" <=> run[<<j, t, n>>] = "none"
      /\ Fresh(j)
  BY Swept DEF IInv, TypeOK
<1>3. LeaseNow(j) \in LeaseValues
  BY DEF LeaseNow, LeaseValues, IInv, TypeOK
<1>4. CASE j \in C
  <2>1. /\ LeaseNow(j) = NoLease
        /\ (IF RetryNow(j).at # Never THEN RetryNow(j).at ELSE next[j]) <= now
        /\ ScheduledAt(j) \in Times
        /\ DeliveryKey(j) \in Keys
        /\ RetryNow(j).n = 0 => ScheduledAt(j) = next[j] /\ next[j] <= now
        /\ RetryNow(j).n # 0 => RetryNow(j).n > 0
    BY <1>1, <1>4, DueClaimable
  <2>2. next'[j] = IF RetryNow(j).n = 0 THEN AdvanceNextRun(j, ScheduledAt(j)) ELSE next[j]
    BY <1>1, <1>4
  <2>3. next'[j] \in Nat /\ (RetryNow(j).n = 0 => next'[j] > next[j])
    <3>1. CASE RetryNow(j).n = 0
      <4>1. ScheduledAt(j) = next[j] /\ next[j] <= now /\ now \in Nat
        BY <1>2, <2>1, <3>1 DEF Times
      <4> QED
        BY <1>2, <2>2, <3>1, <4>1, NextRunAdvances
    <3>2. CASE RetryNow(j).n # 0
      BY <1>2, <2>2, <3>2
    <3> QED
      BY <3>1, <3>2
  <2>4. retry'[j] = IF RetryNow(j).n > 0 THEN [RetryNow(j) EXCEPT !.at = Never] ELSE RetryNow(j)
    BY <1>1, <1>4
  <2>5. retry'[j] \in RetryValues
    <3>1. CASE RetryNow(j) = NoRetry
      BY <1>2, <2>4, <3>1, Values
    <3>2. CASE RetryNow(j) # NoRetry
      BY <1>2, <2>4, <3>2 DEF RetryValues
    <3> QED
      BY <3>1, <3>2
  <2>6. lease'[j] = [key |-> DeliveryKey(j), expires |-> now + LeaseTime]
    BY <1>1, <1>4
  <2>7. lease'[j] \in LeaseValues /\ lease'[j].key = DeliveryKey(j) /\ lease'[j] # NoLease
    <3>1. now + LeaseTime \in Nat
      BY <1>2 DEF Times
    <3> QED
      BY <2>1, <2>6, <3>1, KeyParts DEF LeaseValues
  <2> DEFINE rn == RunsNow(j)
             nx == next[j]
             rt == RetryNow(j)
             at == ScheduledAt(j)
             rn2 == run'
             nx2 == next'[j]
             rt2 == retry'[j]
             ls2 == lease'[j]
  <2>8. at = IF rt.n > 0 /\ rt.origin # Never THEN rt.origin ELSE nx
    BY DEF ScheduledAt
  <2>9. DeliveryKey(j) = <<j, at, rt.n + 1>>
    BY DEF DeliveryKey
  <2>10. \A t \in Times, n \in Tries :
           rn2[<<j, t, n>>] = IF <<j, t, n>> = <<j, at, rt.n + 1>> THEN "claimed" ELSE rn[<<j, t, n>>]
    BY <1>1, <1>4, <2>9
  <2>11. JobOk(j, rn, nx, rt, NoLease, coreTasks) /\ nx \in Nat /\ nx2 \in Nat /\ rt \in RetryValues
    BY <1>2, <2>1, <2>3
  <2>12. Started(j, rn, nx, rt, at, rn2, nx2, rt2, ls2)
    <3>1. (IF rt.at # Never THEN rt.at ELSE nx) <= now
      BY <2>1
    <3>2. (rt.n = 0 => nx2 > nx) /\ (rt.n # 0 => nx2 = nx)
      BY <2>2, <2>3
    <3>3. rt2 = IF rt.n > 0 THEN [rt EXCEPT !.at = Never] ELSE rt
      BY <2>4
    <3>4. ls2.key = <<j, at, rt.n + 1>> /\ ls2 # NoLease
      BY <2>7, <2>9
    <3> HIDE DEF rn, nx, rt, at, rn2, nx2, rt2, ls2
    <3> QED
      BY <2>8, <2>10, <3>1, <3>2, <3>3, <3>4 DEF Started
  <2>13. JobOk(j, rn2, nx2, rt2, ls2, coreTasks)
    <3> HIDE DEF rn, nx, rt, at, rn2, nx2, rt2, ls2
    <3> QED
      BY <1>2, <2>11, <2>12, ClaimStarts
  <2>14. Fresh(j)'
    <3>1. status[j] # "none"
      BY <1>1, <1>4 DEF Due
    <3> QED
      BY <1>1, <3>1 DEF Fresh
  <2>15. coreTasks' = coreTasks
    BY <1>1
  <2> QED
    BY <2>3, <2>5, <2>7, <2>13, <2>14, <2>15
<1>5. CASE j \notin C
  <2>1. next'[j] = next[j] /\ retry'[j] = RetryNow(j) /\ lease'[j] = LeaseNow(j)
    BY <1>1, <1>5
  <2> DEFINE rn == RunsNow(j)
             rn2 == run'
             nx == next[j]
             rt == RetryNow(j)
             ls == LeaseNow(j)
  <2>2. \A t \in Times, n \in Tries : rn2[<<j, t, n>>] = rn[<<j, t, n>>]
    BY <1>1, <1>5
  <2>3. JobOk(j, rn2, nx, rt, ls, coreTasks)
    <3>1. JobOk(j, rn, nx, rt, ls, coreTasks) /\ rt \in RetryValues /\ ls \in LeaseValues
      BY <1>2, <1>3
    <3> HIDE DEF rn, rn2, nx, rt, ls
    <3> QED
      BY <2>2, <3>1, JobFrame
  <2>4. Fresh(j)'
    <3> SUFFICES ASSUME status'[j] = "none" PROVE Fresh(j)'
      BY DEF Fresh
    <3>1. retry[j] = NoRetry /\ lease[j] = NoLease /\ \A t \in Times, n \in Tries : run[<<j, t, n>>] = "none"
      BY <1>1, <1>2 DEF Fresh
    <3>2. RetryNow(j) = NoRetry /\ LeaseNow(j) = NoLease
      BY <3>1 DEF RetryNow, LeaseNow, Expired, Leased
    <3> QED
      BY <1>2, <2>1, <2>2, <3>1, <3>2 DEF Fresh
  <2> QED
    BY <1>1, <1>2, <1>3, <2>1, <2>3, <2>4
<1> QED
  BY <1>4, <1>5

LEMMA ClaimKeeps == ASSUME IInv, NEW r \in Runners, ClaimDue(r) PROVE IInv'
<1>1. \A j \in Jobs : /\ next'[j] \in Nat /\ retry'[j] \in RetryValues /\ lease'[j] \in LeaseValues
                      /\ JobOk(j, run', next'[j], retry'[j], lease'[j], coreTasks')
                      /\ Fresh(j)'
  BY PolledJobs
<1>2. PICK C \in SUBSET Jobs :
        /\ \A i \in C : Due(i)
        /\ lease' = [i \in Jobs |->
             IF i \in C THEN [key |-> DeliveryKey(i), expires |-> now + LeaseTime]
             ELSE LeaseNow(i)]
        /\ retry' = [i \in Jobs |->
             IF i \in C /\ RetryNow(i).n > 0
               THEN [RetryNow(i) EXCEPT !.at = Never] ELSE RetryNow(i)]
        /\ next' = [i \in Jobs |->
             IF i \in C /\ RetryNow(i).n = 0
               THEN AdvanceNextRun(i, ScheduledAt(i)) ELSE next[i]]
        /\ run' \in [Keys -> RunStates] /\ started' \in [Keys -> Times \cup {Never}]
        /\ batch' = [batch EXCEPT ![r] = {DeliveryKey(i) : i \in C}]
        /\ UNCHANGED <<now, status, policy, pinned, current, coreTasks>>
  BY Polled
<1>3. TypeOK'
  <2>1. next' \in [Jobs -> Nat]
    BY <1>1, <1>2
  <2>2. retry' \in [Jobs -> RetryValues]
    BY <1>1, <1>2
  <2>3. lease' \in [Jobs -> LeaseValues]
    BY <1>1, <1>2
  <2>4. batch' \in [Runners -> SUBSET Keys]
    <3>1. {DeliveryKey(i) : i \in C} \in SUBSET Keys
      BY <1>2, DueClaimable
    <3> QED
      BY <1>2, <3>1 DEF IInv, TypeOK
  <2>5. /\ now' \in Times /\ status' \in [Jobs -> {"none", "active", "paused", "archived"}]
        /\ policy' \in [Jobs -> Policies] /\ pinned' \in [Jobs -> BOOLEAN]
        /\ current' \in [Runners -> {Nothing} \cup (Keys \X {"task_created", "failed"})]
        /\ coreTasks' \subseteq Jobs \X Times
    BY <1>2 DEF IInv, TypeOK
  <2> QED
    BY <1>2, <2>1, <2>2, <2>3, <2>4, <2>5 DEF TypeOK, RetryValues, LeaseValues
<1>4. \A i \in Runners :
        current'[i] # Nothing /\ current'[i][2] = "task_created" =>
          <<current'[i][1][1], current'[i][1][2]>> \in coreTasks'
  BY <1>2 DEF IInv
<1> QED
  BY <1>1, <1>3, <1>4 DEF IInv

LEMMA CreateKeeps == ASSUME IInv, NEW i \in Jobs, Create(i) PROVE IInv'
<1>1. /\ status[i] = "none" /\ status' = [status EXCEPT ![i] = "active"]
      /\ \E t \in FirstRuns : next' = [next EXCEPT ![i] = t]
      /\ \E p \in Policies : policy' = [policy EXCEPT ![i] = p]
      /\ \E b \in BOOLEAN : pinned' = [pinned EXCEPT ![i] = b]
      /\ UNCHANGED <<now, retry, run, started, lease, batch, current, coreTasks>>
  BY DEF Create, runnerVars
<1>2. TypeOK'
  <2>1. next' \in [Jobs -> Nat]
    BY <1>1 DEF IInv, TypeOK
  <2>2. policy' \in [Jobs -> Policies] /\ pinned' \in [Jobs -> BOOLEAN]
    BY <1>1 DEF IInv, TypeOK
  <2>3. status' \in [Jobs -> {"none", "active", "paused", "archived"}]
    BY <1>1 DEF IInv, TypeOK
  <2> QED
    BY <1>1, <2>1, <2>2, <2>3 DEF IInv, TypeOK
<1>3. ASSUME NEW j \in Jobs
      PROVE  JobOk(j, run', next'[j], retry'[j], lease'[j], coreTasks') /\ Fresh(j)'
  <2>0. JobOk(j, run, next[j], retry[j], lease[j], coreTasks) /\ Fresh(j)
    BY DEF IInv
  <2>1. CASE j = i
    <3>1. /\ \A t \in Times, n \in Tries : run[<<j, t, n>>] = "none"
          /\ retry[j] = NoRetry /\ lease[j] = NoLease
      BY <1>1, <2>0, <2>1 DEF Fresh
    <3>2. JobOk(j, run, next'[j], NoRetry, NoLease, coreTasks)
      BY <3>1, KeyParts, Values DEF JobOk
    <3>3. status'[j] = "active"
      BY <1>1, <2>1 DEF IInv, TypeOK
    <3> QED
      BY <1>1, <3>1, <3>2, <3>3 DEF Fresh
  <2>2. CASE j # i
    <3>1. next'[j] = next[j] /\ status'[j] = status[j]
      BY <1>1, <2>2 DEF IInv, TypeOK
    <3> QED
      BY <1>1, <2>0, <3>1 DEF Fresh
  <2> QED
    BY <2>1, <2>2
<1> QED
  BY <1>1, <1>2, <1>3 DEF IInv

LEMMA ChangeStateKeeps == ASSUME IInv, NEW i \in Jobs, ChangeState(i) PROVE IInv'
<1>1. /\ status[i] # "none" /\ UNCHANGED <<now, policy, pinned, next, retry, run, started, lease, batch, current,
                   coreTasks>>
      /\ \E s \in {"active", "paused", "archived"} : status' = [status EXCEPT ![i] = s]
  BY DEF ChangeState, runnerVars
<1>2. status' \in [Jobs -> {"none", "active", "paused", "archived"}]
  BY <1>1 DEF IInv, TypeOK
<1>3. TypeOK'
  BY <1>1, <1>2 DEF IInv, TypeOK
<1>4. \A j \in Jobs : status'[j] = "none" => status[j] = "none"
  BY <1>1 DEF IInv, TypeOK
<1>5. \A j \in Jobs : Fresh(j)'
  BY <1>1, <1>4 DEF IInv, Fresh
<1> QED
  BY <1>1, <1>3, <1>5 DEF IInv

LEMMA SubmitKeeps == ASSUME IInv, NEW r \in Runners, Submit(r) PROVE IInv'
<1>1. PICK k \in batch[r] :
        /\ batch' = [batch EXCEPT ![r] = @ \ {k}]
        /\ \/ /\ current' = [current EXCEPT ![r] = <<k, "task_created">>]
              /\ coreTasks' = coreTasks \cup {<<k[1], k[2]>>}
           \/ /\ current' = [current EXCEPT ![r] = <<k, "failed">>]
              /\ \/ coreTasks' = coreTasks
                 \/ coreTasks' = coreTasks \cup {<<k[1], k[2]>>}
  BY DEF Submit
<1>2. UNCHANGED <<now, status, policy, pinned, next, retry, run, started, lease>>
  BY DEF Submit, storeVars, jobVars
<1>3. k \in Keys /\ k[1] \in Jobs /\ k[2] \in Times
  BY KeyParts DEF IInv, TypeOK
<1>4. TypeOK'
  <2>1. batch' \in [Runners -> SUBSET Keys]
    BY <1>1 DEF IInv, TypeOK
  <2>2. current' \in [Runners -> {Nothing} \cup (Keys \X {"task_created", "failed"})]
    BY <1>1, <1>3 DEF IInv, TypeOK
  <2>3. coreTasks' \subseteq Jobs \X Times
    BY <1>1, <1>3 DEF IInv, TypeOK
  <2> QED
    BY <1>2, <2>1, <2>2, <2>3 DEF IInv, TypeOK
<1>5. ASSUME NEW j \in Jobs
      PROVE  JobOk(j, run', next'[j], retry'[j], lease'[j], coreTasks') /\ Fresh(j)'
  <2>1. /\ JobOk(j, run, next[j], retry[j], lease[j], coreTasks) /\ Fresh(j)
        /\ retry[j] \in RetryValues /\ lease[j] \in LeaseValues
    BY DEF IInv, TypeOK, RetryValues, LeaseValues
  <2>2. coreTasks \subseteq coreTasks'
    BY <1>1
  <2>3. JobOk(j, run, next[j], retry[j], lease[j], coreTasks')
    BY <2>1, <2>2, JobFrame
  <2> QED
    BY <1>2, <2>1, <2>3 DEF Fresh
<1>6. ASSUME NEW i \in Runners, current'[i] # Nothing, current'[i][2] = "task_created"
      PROVE  <<current'[i][1][1], current'[i][1][2]>> \in coreTasks'
  <2>1. CASE i = r
    <3>1. current'[r] = <<k, "task_created">> /\ coreTasks' = coreTasks \cup {<<k[1], k[2]>>}
      BY <1>1, <1>6, <2>1 DEF IInv, TypeOK
    <3> QED
      BY <2>1, <3>1
  <2>2. CASE i # r
    <3>1. current'[i] = current[i]
      BY <1>1, <2>2 DEF IInv, TypeOK
    <3>2. <<current[i][1][1], current[i][1][2]>> \in coreTasks
      BY <1>6, <3>1 DEF IInv
    <3> QED
      BY <1>1, <3>1, <3>2
  <2> QED
    BY <2>1, <2>2
<1> QED
  BY <1>4, <1>5, <1>6 DEF IInv

LEMMA AcknowledgeKeeps == ASSUME IInv, NEW r \in Runners, Acknowledge(r) PROVE IInv'
<1> DEFINE k == current[r][1]
           verdict == current[r][2]
<1>1. /\ current[r] # Nothing /\ current' = [current EXCEPT ![r] = Nothing]
      /\ UNCHANGED <<now, status, policy, pinned, next, started, batch, coreTasks>>
      /\ \/ /\ HoldsLease(k)
            /\ run' = [run EXCEPT ![k] = verdict]
            /\ lease' = [lease EXCEPT ![k[1]] = NoLease]
            /\ retry' = [retry EXCEPT ![k[1]] = IF verdict = "failed" THEN RetryAfter(k) ELSE NoRetry]
         \/ UNCHANGED <<run, lease, retry>>
  BY DEF Acknowledge
<1>2. k \in Keys /\ verdict \in {"task_created", "failed"} /\ k[1] \in Jobs
      /\ (verdict = "task_created" => <<k[1], k[2]>> \in coreTasks)
  BY <1>1, KeyParts DEF IInv, TypeOK
<1> HIDE DEF k, verdict
<1>3. \A i \in Runners :
        current'[i] # Nothing /\ current'[i][2] = "task_created" =>
          <<current'[i][1][1], current'[i][1][2]>> \in coreTasks'
  BY <1>1 DEF IInv, TypeOK
<1>4. current' \in [Runners -> {Nothing} \cup (Keys \X {"task_created", "failed"})]
  BY <1>1 DEF IInv, TypeOK
<1>5. CASE UNCHANGED <<run, lease, retry>>
  <2>1. TypeOK'
    BY <1>1, <1>4, <1>5 DEF IInv, TypeOK
  <2>2. \A j \in Jobs : JobOk(j, run', next'[j], retry'[j], lease'[j], coreTasks') /\ Fresh(j)'
    BY <1>1, <1>5 DEF IInv, Fresh
  <2> QED
    BY <1>3, <2>1, <2>2 DEF IInv
<1>6. CASE /\ HoldsLease(k)
           /\ run' = [run EXCEPT ![k] = verdict]
           /\ lease' = [lease EXCEPT ![k[1]] = NoLease]
           /\ retry' = [retry EXCEPT ![k[1]] = IF verdict = "failed" THEN RetryAfter(k) ELSE NoRetry]
  <2>1. /\ now \in Times /\ run \in [Keys -> RunStates] /\ lease \in [Jobs -> LeaseValues]
        /\ retry \in [Jobs -> RetryValues]
    BY DEF IInv, TypeOK, RetryValues, LeaseValues
  <2>2. RetryAfter(k) \in RetryValues
    BY <1>2, <2>1, RetryAfterValues
  <2>3. TypeOK'
    <3>1. run' \in [Keys -> RunStates]
      BY <1>2, <1>6, <2>1 DEF RunStates
    <3>2. lease' \in [Jobs -> LeaseValues]
      BY <1>6, <2>1 DEF LeaseValues
    <3>3. retry' \in [Jobs -> RetryValues]
      BY <1>6, <2>1, <2>2 DEF RetryValues
    <3> QED
      BY <1>1, <1>4, <3>1, <3>2, <3>3 DEF IInv, TypeOK, RetryValues, LeaseValues
  <2>4. ASSUME NEW j \in Jobs
        PROVE  JobOk(j, run', next'[j], retry'[j], lease'[j], coreTasks') /\ Fresh(j)'
    <3>0. /\ JobOk(j, run, next[j], retry[j], lease[j], coreTasks) /\ Fresh(j)
          /\ next[j] \in Nat /\ retry[j] \in RetryValues /\ lease[j] \in LeaseValues
      BY <2>1 DEF IInv, TypeOK
    <3>1. CASE j = k[1]
      <4> DEFINE ls == lease[j]
                 rn2 == run'
                 rt2 == retry'[j]
      <4>1. ls.key = k /\ ls # NoLease
        BY <1>2, <1>6, <3>1, KeyParts DEF HoldsLease
      <4>2. lease'[j] = NoLease
        BY <1>6, <2>1, <3>1
      <4>3. rt2 = IF verdict = "failed" THEN RetryAfter(k) ELSE NoRetry
        BY <1>6, <2>1, <3>1
      <4>4. /\ rn2[k] = verdict
            /\ \A t \in Times, n \in Tries : <<j, t, n>> # k => rn2[<<j, t, n>>] = run[<<j, t, n>>]
        BY <1>2, <1>6, <2>1, KeyParts
      <4>5. Ended(j, run, ls, coreTasks, rn2, rt2)
        <5> HIDE DEF ls, rn2, rt2
        <5> QED
          BY <1>2, <4>1, <4>3, <4>4 DEF Ended
      <4>6. JobOk(j, rn2, next[j], rt2, NoLease, coreTasks)
        <5>1. JobOk(j, run, next[j], retry[j], ls, coreTasks) /\ ls \in LeaseValues
          BY <3>0
        <5> HIDE DEF ls, rn2, rt2
        <5> QED
          BY <2>1, <3>0, <4>1, <4>5, <5>1, ClaimEnds
      <4>7. status[j] # "none"
        BY <3>0, <4>1 DEF Fresh
      <4> QED
        BY <1>1, <4>2, <4>6, <4>7 DEF Fresh
    <3>2. CASE j # k[1]
      <4>1. lease'[j] = lease[j] /\ retry'[j] = retry[j]
        BY <1>2, <1>6, <2>1, <3>2
      <4>2. \A t \in Times, n \in Tries : run'[<<j, t, n>>] = run[<<j, t, n>>]
        BY <1>2, <1>6, <2>1, <3>2, KeyParts
      <4> DEFINE rn2 == run'
      <4>3. JobOk(j, rn2, next[j], retry[j], lease[j], coreTasks)
        <5>1. \A t \in Times, n \in Tries : rn2[<<j, t, n>>] = run[<<j, t, n>>]
          BY <4>2
        <5> HIDE DEF rn2
        <5> QED
          BY <3>0, <5>1, JobFrame
      <4> QED
        BY <1>1, <3>0, <4>1, <4>2, <4>3 DEF Fresh
    <3> QED
      BY <3>1, <3>2
  <2> QED
    BY <1>3, <2>3, <2>4 DEF IInv
<1> QED
  BY <1>1, <1>5, <1>6

LEMMA CrashKeeps == ASSUME IInv, NEW r \in Runners, Crash(r) PROVE IInv'
<1>1. /\ UNCHANGED <<now, status, policy, pinned, next, retry, run, started, lease, coreTasks>>
      /\ batch' = [batch EXCEPT ![r] = {}] /\ current' = [current EXCEPT ![r] = Nothing]
  BY DEF Crash, storeVars, jobVars
<1>2. TypeOK'
  BY <1>1 DEF IInv, TypeOK
<1>3. \A i \in Runners :
        current'[i] # Nothing /\ current'[i][2] = "task_created" =>
          <<current'[i][1][1], current'[i][1][2]>> \in coreTasks'
  BY <1>1 DEF IInv, TypeOK
<1>4. \A j \in Jobs : JobOk(j, run', next'[j], retry'[j], lease'[j], coreTasks') /\ Fresh(j)'
  BY <1>1 DEF IInv, Fresh
<1> QED
  BY <1>2, <1>3, <1>4 DEF IInv

\* The clock alone changes no job.
LEMMA RestKeeps == ASSUME IInv, Tick \/ UNCHANGED vars PROVE IInv'
<1>1. /\ UNCHANGED <<status, policy, pinned, next, retry, run, started, lease, batch, current,
                  coreTasks>>
      /\ now' \in Times
  BY DEF Tick, vars, storeVars, jobVars, runnerVars, IInv, TypeOK, Times
<1>2. TypeOK'
  BY <1>1 DEF IInv, TypeOK
<1>3. \A j \in Jobs : JobOk(j, run', next'[j], retry'[j], lease'[j], coreTasks') /\ Fresh(j)'
  BY <1>1 DEF IInv, Fresh
<1> QED
  BY <1>1, <1>2, <1>3 DEF IInv

LEMMA StepIInv == IInv /\ [Next]_vars => IInv'
  BY CreateKeeps, ChangeStateKeeps, ClaimKeeps, SubmitKeeps, AcknowledgeKeeps, CrashKeeps,
     RestKeeps DEF Next

\* Every job's runs, retry, lease and due time fit together, whatever happens.
THEOREM Invariant == Spec => []IInv
  BY InitIInv, StepIInv, PTL DEF Spec

\* The type invariant of Scheduler.
THEOREM TypeCorrect == Spec => []TypeOK
<1>1. IInv => TypeOK
  BY DEF IInv
<1> QED
  BY <1>1, Invariant, PTL

\* ClaimDue in store.go never meets a taken delivery key, so a due job is never
\* left due and unclaimable.
THEOREM NeverStuck == Spec => []DueIsClaimable
<1>1. IInv => DueIsClaimable
  BY DueClaimable DEF DueIsClaimable
<1> QED
  BY <1>1, Invariant, PTL

\* Leases that expire, crashes between submission and acknowledgement and late
\* acknowledgements lose no due time that was claimed.
THEOREM DueTimesSettled == Spec => []NoDueTimeLost
<1>1. IInv => NoDueTimeLost
  <2> SUFFICES ASSUME IInv, NEW j \in Jobs, NEW t \in Times, NEW n \in 1..(MaxRetries + 1), Tried(j, t, n)
               PROVE  \/ /\ run[<<j, t, n>>] = "task_created" /\ <<j, t>> \in coreTasks
                         /\ n <= MaxRetries => ~Tried(j, t, n + 1)
                      \/ run[<<j, t, n>>] = "claimed"
                      \/ /\ run[<<j, t, n>>] \in {"failed", "timed_out"}
                         /\ \/ n = MaxRetries + 1
                            \/ Tried(j, t, n + 1)
                            \/ retry[j].origin = t /\ retry[j].n = n /\ retry[j].at # Never
    BY DEF NoDueTimeLost
  <2>1. JobOk(j, run, next[j], retry[j], lease[j], coreTasks)
    BY DEF IInv
  <2> QED
    BY <2>1 DEF JobOk, Tried, Tries
<1> QED
  BY <1>1, Invariant, PTL

-----------------------------------------------------------------------------
(* Misfires.                                                               *)

\* MisfirePolicyKept for one due time of a job.
Successor(j, t) ==
  \E u \in Times \cup {next[j]} :
    ComesAfter(j, t, u) /\ Wanted(j, t, started[<<j, t, 1>>], u)

\* The due time after one that is claimed now is what the policy wants: for skip
\* the division of advanceNextRun finds the first multiple after now.
LEMMA NextRunWanted ==
  ASSUME NEW j \in Jobs, NEW at \in Nat, now \in Nat, at <= now, policy[j] \in Policies
  PROVE  Wanted(j, at, now, AdvanceNextRun(j, at))
<1> DEFINE i == Interval[j]
           d == now - at
           q == d \div i + 1
<1>1. i \in Nat \ {0} /\ d \in Nat
  BY SchedulerAssumption
<1>2. \A x \in Nat, y \in Nat \ {0} :
        /\ x \div y \in Nat
        /\ y * (x \div y) <= x
        /\ x < y * (x \div y) + y
  OBVIOUS
<1>3. /\ d \div i \in Nat /\ i * (d \div i) <= d /\ d < i * (d \div i) + i
  BY <1>1, <1>2
<1>4. q \in Nat /\ i * q = i * (d \div i) + i
  BY <1>1, <1>3
<1>5. i * (d \div i) \in Nat /\ i * q \in Nat
  BY <1>1, <1>3, <1>4
<1>6. \A p \in Nat : (i * p) % i = 0
  BY <1>1
<1>7. CASE policy[j] = "skip"
  <2>1. CASE at + i > now
    <3>1. AdvanceNextRun(j, at) = at + i
      BY <1>7, <2>1 DEF AdvanceNextRun
    <3>2. (at + i) - at = i * 1
      BY <1>1
    <3>3. ((at + i) - at) % i = 0
      BY <1>6, <3>2
    <3> QED
      BY <1>1, <1>7, <2>1, <3>1, <3>3 DEF Wanted
  <2>2. CASE ~(at + i > now)
    <3>1. AdvanceNextRun(j, at) = at + i * q
      BY <1>7, <2>2 DEF AdvanceNextRun
    <3> DEFINE u == at + i * q
    <3>2. u - at = i * q
      BY <1>5
    <3>3. (u - at) % i = 0
      BY <1>4, <1>6, <3>2
    <3>4. now < u /\ u <= now + i
      BY <1>1, <1>3, <1>4, <1>5
    <3> QED
      BY <1>7, <3>1, <3>3, <3>4 DEF Wanted
  <2> QED
    BY <2>1, <2>2
<1>8. CASE policy[j] # "skip"
  BY <1>8 DEF AdvanceNextRun, Wanted, Policies
<1> QED
  BY <1>7, <1>8

\* A step that changes neither the due times a job had nor what it has next keeps
\* its policy.
LEMMA PolicyFrame ==
  ASSUME NEW j \in Jobs, NEW t \in Times, Successor(j, t),
         policy'[j] = policy[j], next'[j] = next[j],
         started'[<<j, t, 1>>] = started[<<j, t, 1>>],
         \A u \in Times : Tried(j, u, 1)' <=> Tried(j, u, 1)
  PROVE  Successor(j, t)'
<1>1. PICK u \in Times \cup {next[j]} :
        ComesAfter(j, t, u) /\ Wanted(j, t, started[<<j, t, 1>>], u)
  BY DEF Successor
<1>2. ComesAfter(j, t, u)'
  BY <1>1 DEF ComesAfter
<1>3. Wanted(j, t, started[<<j, t, 1>>], u)'
  BY <1>1 DEF Wanted
<1> QED
  BY <1>2, <1>3 DEF Successor

\* A regular claim keeps the policy for what was due before, and for the due time
\* that it claims.
LEMMA PolicyMovesOn ==
  ASSUME NEW j \in Jobs, NEW t \in Times, now \in Nat, policy[j] \in Policies,
         next[j] \in Times, next[j] <= now, next'[j] \in Nat, next[j] < next'[j],
         next'[j] = AdvanceNextRun(j, next[j]), policy'[j] = policy[j],
         \A u \in Times : Tried(j, u, 1)' <=> Tried(j, u, 1) \/ u = next[j],
         \A u \in Times : Tried(j, u, 1) => u < next[j],
         started'[<<j, t, 1>>] = IF t = next[j] THEN now ELSE started[<<j, t, 1>>],
         t = next[j] \/ (t < next[j] /\ Successor(j, t))
  PROVE  Successor(j, t)'
<1>1. CASE t = next[j]
  <2>1. Wanted(j, t, now, next'[j])
    BY <1>1, NextRunWanted DEF Times
  <2>2. Wanted(j, t, started[<<j, t, 1>>], next[j])'
    BY <1>1, <2>1 DEF Wanted
  <2>3. ComesAfter(j, t, next[j])'
    BY <1>1 DEF ComesAfter, Times
  <2> QED
    BY <2>2, <2>3 DEF Successor
<1>2. CASE t # next[j]
  <2>1. PICK u \in Times \cup {next[j]} :
          ComesAfter(j, t, u) /\ Wanted(j, t, started[<<j, t, 1>>], u)
    BY <1>2 DEF Successor
  <2>2. u \in Times /\ Tried(j, u, 1)' /\ u <= next[j]
    BY <2>1 DEF ComesAfter, Times
  <2>3. ComesAfter(j, t, u)'
    BY <1>2, <2>1, <2>2 DEF ComesAfter
  <2>4. Wanted(j, t, started[<<j, t, 1>>], u)'
    BY <1>2, <2>1 DEF Wanted
  <2> QED
    BY <2>2, <2>3, <2>4 DEF Successor
<1> QED
  BY <1>1, <1>2

\* After a claim each due time that was tried has the successor its policy wants.
LEMMA ClaimKeepsPolicy ==
  ASSUME IInv, MisfirePolicyKept, NEW r \in Runners, ClaimDue(r),
         NEW j \in Jobs, NEW t \in Times, Tried(j, t, 1)'
  PROVE  Successor(j, t)'
<1>1. PICK C \in SUBSET Jobs :
        /\ \A i \in C : Due(i)
        /\ \A i \in C, u \in Times, n \in Tries :
             run'[<<i, u, n>>] = IF <<i, u, n>> = DeliveryKey(i) THEN "claimed"
                                 ELSE RunsNow(i)[<<i, u, n>>]
        /\ \A i \in Jobs \ C, u \in Times, n \in Tries :
             run'[<<i, u, n>>] = RunsNow(i)[<<i, u, n>>]
        /\ next' = [i \in Jobs |->
             IF i \in C /\ RetryNow(i).n = 0
               THEN AdvanceNextRun(i, ScheduledAt(i)) ELSE next[i]]
        /\ \A i \in Jobs, u \in Times, n \in Tries :
             started'[<<i, u, n>>] = IF i \in C /\ <<i, u, n>> = DeliveryKey(i) THEN now
                                     ELSE started[<<i, u, n>>]
        /\ policy' = policy
  BY Polled
<1>2. /\ now \in Nat /\ policy[j] \in Policies /\ RetryNow(j) \in RetryValues /\ 1 \in Tries
      /\ \A u \in Times, n \in Tries : RunsNow(j)[<<j, u, n>>] = "none" <=> run[<<j, u, n>>] = "none"
      /\ JobOk(j, run, next[j], retry[j], lease[j], coreTasks)
  BY Swept DEF IInv, TypeOK, Times, Tries
<1>3. \A u \in Times : Tried(j, u, 1) => u < next[j]
  BY <1>2 DEF Tried, JobOk
<1>4. Tried(j, t, 1) => Successor(j, t)
  BY DEF MisfirePolicyKept, Successor
<1>5. CASE j \in C /\ RetryNow(j).n = 0
  <2>0. RetryNow(j).n = 0 /\ Due(j)
    BY <1>1, <1>5
  <2>1. /\ ScheduledAt(j) = next[j] /\ next[j] \in Times /\ next[j] <= now
        /\ DeliveryKey(j) = <<j, next[j], 1>>
    <3>1. /\ ScheduledAt(j) \in Times
          /\ RetryNow(j).n = 0 => ScheduledAt(j) = next[j] /\ next[j] <= now
      BY <2>0, DueClaimable
    <3>2. DeliveryKey(j) = <<j, ScheduledAt(j), 0 + 1>>
      BY <2>0 DEF DeliveryKey
    <3> QED
      BY <2>0, <3>1, <3>2
  <2>2. next'[j] = AdvanceNextRun(j, next[j])
    BY <1>1, <1>5, <2>1
  <2>3. next'[j] \in Nat /\ next[j] < next'[j]
    BY <1>2, <2>1, <2>2, NextRunAdvances DEF Times
  <2>4. \A u \in Times : Tried(j, u, 1)' <=> Tried(j, u, 1) \/ u = next[j]
    BY <1>1, <1>2, <1>5, <2>1 DEF Tried
  <2>5. started'[<<j, t, 1>>] = IF t = next[j] THEN now ELSE started[<<j, t, 1>>]
    BY <1>1, <1>2, <1>5, <2>1
  <2>6. t = next[j] \/ (t < next[j] /\ Successor(j, t))
    BY <1>3, <1>4, <2>4
  <2>7. policy'[j] = policy[j]
    BY <1>1
  <2> QED
    BY <1>2, <1>3, <2>1, <2>2, <2>3, <2>4, <2>5, <2>6, <2>7, PolicyMovesOn
<1>6. CASE ~(j \in C /\ RetryNow(j).n = 0)
  <2>1. next'[j] = next[j] /\ policy'[j] = policy[j]
    BY <1>1, <1>6
  <2>2. j \in C => \A u \in Times : DeliveryKey(j) # <<j, u, 1>>
    <3> SUFFICES ASSUME j \in C, NEW u \in Times PROVE DeliveryKey(j) # <<j, u, 1>>
      OBVIOUS
    <3>1. RetryNow(j).n > 0 /\ RetryNow(j).n + 1 # 1
      BY <1>2, <1>6, Values
    <3> QED
      BY <3>1 DEF DeliveryKey
  <2>3. \A u \in Times : Tried(j, u, 1)' <=> Tried(j, u, 1)
    BY <1>1, <1>2, <2>2 DEF Tried
  <2>4. started'[<<j, t, 1>>] = started[<<j, t, 1>>]
    BY <1>1, <1>2, <2>2
  <2> QED
    BY <1>4, <2>1, <2>3, <2>4, PolicyFrame
<1> QED
  BY <1>5, <1>6

\* The steps that are not a poll leave the runs that exist as they are, or claimed
\* ones settled.
LEMMA OthersKeepPolicy ==
  ASSUME IInv, MisfirePolicyKept, [Next]_vars, \A r \in Runners : ~ClaimDue(r),
         NEW j \in Jobs, NEW t \in Times, Tried(j, t, 1)'
  PROVE  Successor(j, t)'
<1>0. /\ JobOk(j, run, next[j], retry[j], lease[j], coreTasks) /\ Fresh(j) /\ 1 \in Tries
      /\ run \in [Keys -> RunStates] /\ next \in [Jobs -> Nat] /\ policy \in [Jobs -> Policies]
  BY DEF IInv, TypeOK, Tries
<1>1. \A u \in Times : Tried(j, u, 1)' <=> Tried(j, u, 1)
  <2>1. CASE run' = run
    BY <2>1 DEF Tried
  <2>2. ASSUME NEW r \in Runners, Acknowledge(r), run' # run
        PROVE  \A u \in Times : Tried(j, u, 1)' <=> Tried(j, u, 1)
    <3> DEFINE k == current[r][1]
    <3>1. /\ HoldsLease(k) /\ run' = [run EXCEPT ![k] = current[r][2]] /\ current[r] # Nothing
      BY <2>2 DEF Acknowledge
    <3>2. k \in Keys /\ current[r][2] \in {"task_created", "failed"} /\ k[1] \in Jobs
      BY <3>1, KeyParts DEF IInv, TypeOK
    <3>3. run[k] = "claimed"
      <4>1. lease[k[1]].key = k /\ JobOk(k[1], run, next[k[1]], retry[k[1]], lease[k[1]], coreTasks)
        BY <3>1, <3>2 DEF HoldsLease, IInv
      <4> QED
        BY <3>2, <4>1, KeyParts DEF JobOk
    <3> HIDE DEF k
    <3>4. \A x \in Keys : run'[x] # "none" <=> run[x] # "none"
      BY <1>0, <3>1, <3>2, <3>3
    <3> QED
      BY <1>0, <3>4, KeyParts DEF Tried
  <2>3. \/ run' = run
        \/ \E r \in Runners : Acknowledge(r) /\ run' # run
    BY DEF Next, Create, ChangeState, Submit, Crash, Tick, vars, storeVars, jobVars
  <2> QED
    BY <2>1, <2>2, <2>3
<1>2. Tried(j, t, 1) /\ Successor(j, t)
  BY <1>1 DEF MisfirePolicyKept, Successor
<1>3. status[j] # "none"
  BY <1>0, <1>2 DEF Fresh, Tried
<1>4. policy'[j] = policy[j] /\ next'[j] = next[j]
  <2>1. ASSUME NEW i \in Jobs, Create(i) PROVE policy'[j] = policy[j] /\ next'[j] = next[j]
    <3>1. i # j
      BY <1>3, <2>1 DEF Create
    <3>2. /\ \E u \in FirstRuns : next' = [next EXCEPT ![i] = u]
          /\ \E p \in Policies : policy' = [policy EXCEPT ![i] = p]
      BY <2>1 DEF Create
    <3> QED
      BY <1>0, <3>1, <3>2
  <2>2. \/ policy' = policy /\ next' = next
        \/ \E i \in Jobs : Create(i)
    BY DEF Next, ChangeState, Submit, Acknowledge, Crash, Tick, vars, storeVars, jobVars
  <2> QED
    BY <2>1, <2>2
<1>5. started' = started
  BY DEF Next, Create, ChangeState, Submit, Acknowledge, Crash, Tick, vars, storeVars, jobVars
<1> QED
  BY <1>1, <1>2, <1>4, <1>5, PolicyFrame

\* advanceNextRun in store.go, across expiries, retries and late answers: after a
\* due time catch_up runs the next interval, skip the first one that lay ahead when
\* it was claimed, and run_once the next one unless it had passed by then, and
\* otherwise an interval after the claim.
THEOREM PoliciesKept == Spec => []MisfirePolicyKept
<1>1. Init => MisfirePolicyKept
  BY KeyParts DEF Init, MisfirePolicyKept, Tried, Keys
<1>2. IInv /\ MisfirePolicyKept /\ [Next]_vars => MisfirePolicyKept'
  <2> SUFFICES ASSUME IInv, MisfirePolicyKept, [Next]_vars,
                      NEW j \in Jobs, NEW t \in Times, Tried(j, t, 1)'
               PROVE  Successor(j, t)'
    BY DEF MisfirePolicyKept, Successor
  <2>1. CASE \E r \in Runners : ClaimDue(r)
    BY <2>1, ClaimKeepsPolicy
  <2>2. CASE \A r \in Runners : ~ClaimDue(r)
    BY <2>2, OthersKeepPolicy
  <2> QED
    BY <2>1, <2>2
<1> QED
  BY <1>1, <1>2, Invariant, PTL DEF Spec

=============================================================================
