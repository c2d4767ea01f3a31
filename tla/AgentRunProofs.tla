--------------------------- MODULE AgentRunProofs ---------------------------
(***************************************************************************)
(* Proofs, for every value of AgentRun's constants, of the type invariant  *)
(* and that a steer is recorded before it is seen; for one executor per    *)
(* run, that a detected loop ends the tool calls, that a sub-agent ends    *)
(* before the step that called it, that an answer comes last and a steer   *)
(* is shown once; and, as long as no two executors of a run write at once, *)
(* that restore refuses only a disturbed log and that a final answer ends  *)
(* its turn.  Two submissions of a turn never write at once.               *)
(***************************************************************************)
EXTENDS AgentRunProperties, RunRecordsProofs

-----------------------------------------------------------------------------
(* Sequences of records, whatever is recorded.                             *)

Sequence(q) == \E S : q \in Seq(S)

\* What Append does to the elements, the set and the length of a sequence.
LEMMA SequenceAppend ==
  ASSUME NEW q, NEW x, Sequence(q)
  PROVE  /\ Sequence(Append(q, x))
         /\ ToSet(Append(q, x)) = ToSet(q) \cup {x}
         /\ Len(Append(q, x)) = Len(q) + 1 /\ Len(q) \in Nat
         /\ Append(q, x)[Len(q) + 1] = x
         /\ \A i \in 1 .. Len(q) : Append(q, x)[i] = q[i]
<1>1. PICK S : q \in Seq(S)
  BY DEF Sequence
<1>2. q \in Seq(S \cup {x})
  BY <1>1
<1>3. Append(q, x) \in Seq(S \cup {x})
  BY <1>2
<1>4. /\ Len(Append(q, x)) = Len(q) + 1 /\ Len(q) \in Nat
      /\ Append(q, x)[Len(q) + 1] = x
      /\ \A i \in 1 .. Len(q) : Append(q, x)[i] = q[i]
  BY <1>2
<1>5. ToSet(Append(q, x)) = ToSet(q) \cup {x}
  BY <1>4 DEF ToSet
<1> QED
  BY <1>3, <1>4, <1>5 DEF Sequence

\* What a claim appends to a view.
LEMMA SequenceClaim ==
  ASSUME NEW q, Sequence(q), inbox \in Seq(Steers)
  PROVE  LET claimed == q \o [i \in 1 .. Len(inbox) |-> User(inbox[i])] IN
         /\ Sequence(claimed)
         /\ ToSet(claimed) = ToSet(q) \cup { User(s) : s \in ToSet(inbox) }
<1> DEFINE users == [i \in 1 .. Len(inbox) |-> User(inbox[i])]
           U == { User(s) : s \in Steers }
<1>1. PICK S : q \in Seq(S)
  BY DEF Sequence
<1>2. users \in Seq(U) /\ Len(users) = Len(inbox) /\ Len(inbox) \in Nat
  OBVIOUS
<1>3. q \in Seq(S \cup U) /\ users \in Seq(S \cup U)
  BY <1>1, <1>2
<1>4. q \o users \in Seq(S \cup U)
  BY <1>3
<1>5. /\ Len(q \o users) = Len(q) + Len(inbox) /\ Len(q) \in Nat
      /\ \A i \in 1 .. Len(q) : (q \o users)[i] = q[i]
      /\ \A i \in 1 .. Len(inbox) : (q \o users)[Len(q) + i] = User(inbox[i])
  BY <1>2, <1>3
<1>6. ToSet(q \o users) = ToSet(q) \cup { User(s) : s \in ToSet(inbox) }
  <2>1. ASSUME NEW y \in ToSet(q \o users)
        PROVE  y \in ToSet(q) \cup { User(s) : s \in ToSet(inbox) }
    <3>1. PICK i \in 1 .. Len(q) + Len(inbox) : y = (q \o users)[i]
      BY <1>5 DEF ToSet
    <3>2. CASE i <= Len(q)
      BY <3>1, <3>2, <1>5 DEF ToSet
    <3>3. CASE i > Len(q)
      <4>1. i - Len(q) \in 1 .. Len(inbox) /\ i = Len(q) + (i - Len(q))
        BY <3>1, <3>3, <1>2, <1>5
      <4>2. y = User(inbox[i - Len(q)])
        BY <3>1, <4>1, <1>5
      <4> QED
        BY <4>1, <4>2 DEF ToSet
    <3> QED
      BY <3>1, <3>2, <3>3, <1>2, <1>5
  <2>2. ToSet(q) \subseteq ToSet(q \o users)
    BY <1>2, <1>5 DEF ToSet
  <2>3. ASSUME NEW s \in ToSet(inbox)
        PROVE  User(s) \in ToSet(q \o users)
    <3>1. PICK i \in 1 .. Len(inbox) : s = inbox[i]
      BY DEF ToSet
    <3>2. Len(q) + i \in 1 .. Len(q \o users)
      BY <1>2, <1>5
    <3> QED
      BY <3>1, <3>2, <1>5 DEF ToSet
  <2> QED
    BY <2>1, <2>2, <2>3
<1> QED
  BY <1>4, <1>6 DEF Sequence

-----------------------------------------------------------------------------
(* A steer is recorded before it is seen.                                  *)

\* Logs and views are sequences.
Logs == \E S : log \in [Runs -> Seq(S)] /\ view \in [Executors -> Seq(S)]

SteerTypes ==
  /\ inbox \in Seq(Steers)
  /\ spc \in [Steers -> SteerPcs]
  /\ target \in [Steers -> Runs \cup {NoOne}]

Appended(s) == spc[s] \in {"stored", "acked"}

\* Where a steer is, its Steer call has written it before.
Trace(s) ==
  /\ spc[s] \in {"found", "checked", "stored", "acked"} => target[s] \in Runs
  /\ Appended(s) => User(s) \in ToSet(log[target[s]])
  /\ s \in ToSet(inbox) => Appended(s)
  /\ \A r \in Runs : User(s) \in ToSet(log[r]) => Appended(s)
  /\ \A e \in Executors : User(s) \in ToSet(view[e]) => Appended(s)

SteerTrace == \A s \in Steers : Trace(s)

SteerInv == Logs /\ SteerTypes /\ SteerTrace

USE AgentRunAssumption DEF AgentRunAssumption

\* What the loop writes is never a steer.
LEMMA NotSteers ==
  ASSUME NEW s \in Steers
  PROVE  /\ Prompt # User(s) /\ Final # User(s) /\ User("notice") # User(s)
         /\ \A calls : Assistant(calls) # User(s)
         /\ \A c, ok : Result(c, ok) # User(s)
  BY DEF Prompt, Final, User, Assistant, Result

\* No steer is injected with another's record.
LEMMA UserInjective ==
  ASSUME NEW s, NEW t, User(s) = User(t)
  PROVE  s = t
  BY DEF User

\* A record appended to a log.
LEMMA LogAppend ==
  ASSUME Logs, NEW r \in Runs, NEW rec, log' = [log EXCEPT ![r] = Append(@, rec)],
         view' = view
  PROVE  /\ Logs'
         /\ ToSet(log'[r]) = ToSet(log[r]) \cup {rec} /\ \A q \in Runs \ {r} : log'[q] = log[q]
<1>1. PICK S : log \in [Runs -> Seq(S)] /\ view \in [Executors -> Seq(S)]
  BY DEF Logs
<1>2. Seq(S) \subseteq Seq(S \cup {rec})
  OBVIOUS
<1>3. log \in [Runs -> Seq(S \cup {rec})] /\ view \in [Executors -> Seq(S \cup {rec})]
  BY <1>1, <1>2
<1>4. log' \in [Runs -> Seq(S \cup {rec})]
  BY <1>3
<1>5. \A q \in Runs : Sequence(log[q])
  BY <1>1 DEF Sequence
<1>6. log'[r] = Append(log[r], rec) /\ \A q \in Runs \ {r} : log'[q] = log[q]
  BY <1>1
<1>7. Logs'
  BY <1>3, <1>4 DEF Logs
<1>8. ToSet(log'[r]) = ToSet(log[r]) \cup {rec}
  BY <1>5, <1>6, SequenceAppend
<1> QED
  BY <1>6, <1>7, <1>8

\* A record appended to a log and to a view.
LEMMA LogViewAppend ==
  ASSUME Logs, NEW r \in Runs, NEW e \in Executors, NEW rec,
         log' = [log EXCEPT ![r] = Append(@, rec)],
         view' = [view EXCEPT ![e] = Append(@, rec)]
  PROVE  /\ Logs'
         /\ ToSet(log'[r]) = ToSet(log[r]) \cup {rec} /\ \A q \in Runs \ {r} : log'[q] = log[q]
         /\ ToSet(view'[e]) = ToSet(view[e]) \cup {rec}
         /\ \A d \in Executors \ {e} : view'[d] = view[d]
<1>1. PICK S : log \in [Runs -> Seq(S)] /\ view \in [Executors -> Seq(S)]
  BY DEF Logs
<1>2. Seq(S) \subseteq Seq(S \cup {rec})
  OBVIOUS
<1>3. log \in [Runs -> Seq(S \cup {rec})] /\ view \in [Executors -> Seq(S \cup {rec})]
  BY <1>1, <1>2
<1>4. log' \in [Runs -> Seq(S \cup {rec})] /\ view' \in [Executors -> Seq(S \cup {rec})]
  BY <1>3
<1>5. (\A q \in Runs : Sequence(log[q])) /\ (\A d \in Executors : Sequence(view[d]))
  BY <1>1 DEF Sequence
<1>6. log'[r] = Append(log[r], rec) /\ \A q \in Runs \ {r} : log'[q] = log[q]
  BY <1>1
<1>7. view'[e] = Append(view[e], rec) /\ \A d \in Executors \ {e} : view'[d] = view[d]
  BY <1>1
<1>8. Logs'
  BY <1>4 DEF Logs
<1>9. ToSet(log'[r]) = ToSet(log[r]) \cup {rec}
  BY <1>5, <1>6, SequenceAppend
<1>10. ToSet(view'[e]) = ToSet(view[e]) \cup {rec}
  BY <1>5, <1>7, SequenceAppend
<1> QED
  BY <1>6, <1>7, <1>8, <1>9, <1>10

\* A view is replaced.
LEMMA ViewSet ==
  ASSUME Logs, NEW e \in Executors, NEW q, Sequence(q),
         view' = [view EXCEPT ![e] = q], log' = log
  PROVE  /\ Logs'
         /\ view'[e] = q /\ \A d \in Executors \ {e} : view'[d] = view[d]
<1>1. PICK S : log \in [Runs -> Seq(S)] /\ view \in [Executors -> Seq(S)]
  BY DEF Logs
<1>2. PICK T : q \in Seq(T)
  BY DEF Sequence
<1>3. Seq(S) \subseteq Seq(S \cup T) /\ q \in Seq(S \cup T)
  BY <1>2
<1>4. log \in [Runs -> Seq(S \cup T)] /\ view \in [Executors -> Seq(S \cup T)]
  BY <1>1, <1>3
<1>5. log' \in [Runs -> Seq(S \cup T)] /\ view' \in [Executors -> Seq(S \cup T)]
  BY <1>3, <1>4
<1> QED
  BY <1>1, <1>5 DEF Logs

\* No steer has been recorded, claimed or seen at the start.
LEMMA SteerInvInit == Init => SteerInv
<1> SUFFICES ASSUME Init PROVE SteerInv
  OBVIOUS
<1>1. ToSet(<<>>) = {} /\ <<>> \in Seq({})
  BY DEF ToSet
<1>2. log \in [Runs -> Seq({})] /\ view \in [Executors -> Seq({})]
  BY <1>1 DEF Init
<1>3. Logs
  BY <1>2 DEF Logs
<1>4. SteerTypes
  BY DEF Init, SteerTypes, SteerPcs
<1>5. SteerTrace
  BY <1>1 DEF Init, SteerTrace, Trace, Appended
<1> QED
  BY <1>3, <1>4, <1>5 DEF SteerInv

\* A record of the loop in the log, and in the view of its executor.
LEMMA SteerInvWrite ==
  ASSUME SteerInv, NEW r \in Runs, NEW e \in Executors, NEW rec,
         \A s \in Steers : rec # User(s),
         log' = [log EXCEPT ![r] = Append(@, rec)],
         view' = view \/ view' = [view EXCEPT ![e] = Append(@, rec)],
         UNCHANGED <<inbox, steerVars>>
  PROVE  SteerInv'
<1>1. /\ Logs'
      /\ ToSet(log'[r]) = ToSet(log[r]) \cup {rec} /\ \A q \in Runs \ {r} : log'[q] = log[q]
      /\ \A d \in Executors : ToSet(view'[d]) \subseteq ToSet(view[d]) \cup {rec}
  <2>1. Logs
    BY DEF SteerInv
  <2>2. CASE view' = view
    BY <2>1, <2>2, LogAppend
  <2>3. CASE view' = [view EXCEPT ![e] = Append(@, rec)]
    <3>1. /\ Logs'
          /\ ToSet(log'[r]) = ToSet(log[r]) \cup {rec} /\ \A q \in Runs \ {r} : log'[q] = log[q]
          /\ ToSet(view'[e]) = ToSet(view[e]) \cup {rec}
          /\ \A d \in Executors \ {e} : view'[d] = view[d]
      BY <2>1, <2>3, LogViewAppend
    <3> QED
      BY <3>1
  <2> QED
    BY <2>2, <2>3
<1>2. SteerTypes'
  BY DEF SteerInv, SteerTypes, steerVars
<1>3. SteerTrace'
  <2> SUFFICES ASSUME NEW t \in Steers PROVE Trace(t)'
    BY DEF SteerTrace
  <2>1. Trace(t)
    BY DEF SteerInv, SteerTrace
  <2> QED
    BY <2>1, <1>1 DEF Trace, Appended, steerVars
<1> QED
  BY <1>1, <1>2, <1>3 DEF SteerInv

\* The inbox is kept or cleared.
LEMMA InboxCleared ==
  ASSUME SteerInv, inbox' = inbox \/ inbox' = <<>>
  PROVE  inbox' \in Seq(Steers) /\ ToSet(inbox') \subseteq ToSet(inbox)
<1>1. inbox \in Seq(Steers)
  BY DEF SteerInv, SteerTypes
<1>2. <<>> \in Seq(Steers) /\ ToSet(<<>>) = {}
  BY DEF ToSet
<1> QED
  BY <1>1, <1>2

\* Records that are no steers, or recorded ones, in a view.
LEMMA SteerInvView ==
  ASSUME SteerInv, NEW e \in Executors, NEW q, Sequence(q),
         view' = [view EXCEPT ![e] = q],
         \A s \in Steers : User(s) \in ToSet(q) => Appended(s),
         inbox' = inbox \/ inbox' = <<>>, UNCHANGED <<log, steerVars>>
  PROVE  SteerInv'
<1>1. Logs' /\ view'[e] = q /\ \A d \in Executors \ {e} : view'[d] = view[d]
  BY ViewSet DEF SteerInv
<1>2. inbox' \in Seq(Steers) /\ ToSet(inbox') \subseteq ToSet(inbox)
  BY InboxCleared
<1>3. SteerTypes'
  BY <1>2 DEF SteerInv, SteerTypes, steerVars
<1>4. SteerTrace'
  <2> SUFFICES ASSUME NEW t \in Steers PROVE Trace(t)'
    BY DEF SteerTrace
  <2>1. Trace(t)
    BY DEF SteerInv, SteerTrace
  <2> QED
    BY <2>1, <1>1, <1>2 DEF Trace, Appended, steerVars
<1> QED
  BY <1>1, <1>3, <1>4 DEF SteerInv

\* A claim moves recorded steers into the view.
LEMMA SteerInvClaim ==
  ASSUME SteerInv, NEW e \in Executors, Claim(e), UNCHANGED <<log, steerVars>>
  PROVE  SteerInv'
<1> DEFINE q == view[e] \o [i \in 1 .. Len(inbox) |-> User(inbox[i])]
<1>1. Sequence(view[e]) /\ inbox \in Seq(Steers)
  BY DEF SteerInv, SteerTypes, Logs, Sequence
<1>2. Sequence(q) /\ ToSet(q) = ToSet(view[e]) \cup { User(s) : s \in ToSet(inbox) }
  BY <1>1, SequenceClaim
<1>3. ToSet(inbox) \subseteq Steers
  BY <1>1 DEF ToSet
<1>4. \A s \in Steers : User(s) \in ToSet(q) => Appended(s)
  BY <1>2, <1>3, UserInjective DEF SteerInv, SteerTrace, Trace
<1>5. view' = [view EXCEPT ![e] = q] /\ inbox' = <<>>
  BY DEF Claim
<1> HIDE DEF q
<1> QED
  BY <1>2, <1>4, <1>5, SteerInvView

\* Nothing of a steer is touched, but the inbox may be cleared.
LEMMA SteerInvKept ==
  ASSUME SteerInv, UNCHANGED <<log, view, steerVars>>, inbox' = inbox \/ inbox' = <<>>
  PROVE  SteerInv'
<1>1. inbox' \in Seq(Steers) /\ ToSet(inbox') \subseteq ToSet(inbox)
  BY InboxCleared
<1>2. SteerTypes' /\ Logs'
  BY <1>1 DEF SteerInv, SteerTypes, Logs, steerVars
<1>3. SteerTrace'
  <2> SUFFICES ASSUME NEW t \in Steers PROVE Trace(t)'
    BY DEF SteerTrace
  <2>1. Trace(t)
    BY DEF SteerInv, SteerTrace
  <2> QED
    BY <2>1, <1>1 DEF Trace, Appended, steerVars
<1> QED
  BY <1>2, <1>3 DEF SteerInv

\* Prepare writes the prompt or nothing, and shows the log.
LEMMA SteerInvPrepare ==
  ASSUME SteerInv, NEW e \in Executors, Prepare(e)
  PROVE  SteerInv'
<1> DEFINE r == RunOf[e]
           first == IF log[r] = <<>> THEN <<Prompt>> ELSE log[r]
<1>1. r \in Runs
  OBVIOUS
<1>2. UNCHANGED <<inbox, steerVars>>
  BY DEF Prepare
<1>3. CASE UNCHANGED <<log, view>>
  BY <1>2, <1>3, SteerInvKept
<1>4. CASE log' = [log EXCEPT ![r] = first] /\ view' = [view EXCEPT ![e] = log'[r]]
  <2>1. PICK S : log \in [Runs -> Seq(S)] /\ view \in [Executors -> Seq(S)]
    BY DEF Logs, SteerInv
  <2>2. Seq(S) \subseteq Seq(S \cup {Prompt}) /\ <<Prompt>> \in Seq(S \cup {Prompt})
    OBVIOUS
  <2>3. first \in Seq(S \cup {Prompt})
    BY <2>1, <2>2
  <2>4. log \in [Runs -> Seq(S \cup {Prompt})] /\ view \in [Executors -> Seq(S \cup {Prompt})]
    BY <2>1, <2>2
  <2>5. ToSet(<<>>) = {} /\ ToSet(<<Prompt>>) = {Prompt}
    BY DEF ToSet
  <2>6. ToSet(first) \subseteq ToSet(log[r]) \cup {Prompt} /\ ToSet(log[r]) \subseteq ToSet(first)
    BY <2>5
  <2> HIDE DEF first
  <2>7. log' \in [Runs -> Seq(S \cup {Prompt})] /\ log'[r] = first
    BY <1>1, <1>4, <2>3, <2>4
  <2>8. view' \in [Executors -> Seq(S \cup {Prompt})] /\ view'[e] = first
    BY <1>4, <2>3, <2>4, <2>7
  <2>9. /\ \A q \in Runs \ {r} : log'[q] = log[q]
        /\ \A d \in Executors \ {e} : view'[d] = view[d]
    BY <1>4, <2>4
  <2>10. Logs'
    BY <2>7, <2>8 DEF Logs
  <2>11. SteerTypes'
    BY <1>2 DEF SteerInv, SteerTypes, steerVars
  <2> HIDE DEF r
  <2>12. SteerTrace'
    <3> SUFFICES ASSUME NEW t \in Steers PROVE Trace(t)'
      BY DEF SteerTrace
    <3>1. Trace(t)
      BY DEF SteerInv, SteerTrace
    <3>2. Prompt # User(t)
      BY NotSteers
    <3>3. spc' = spc /\ target' = target /\ inbox' = inbox
      BY <1>2 DEF steerVars
    <3>4. \A q \in Runs : User(t) \in ToSet(log'[q]) <=> User(t) \in ToSet(log[q])
      BY <3>2, <2>6, <2>7, <2>9
    <3>5. \A d \in Executors : User(t) \in ToSet(view'[d]) => Appended(t)
      BY <3>1, <3>2, <1>1, <2>6, <2>8, <2>9 DEF Trace
    <3> QED
      BY <3>1, <3>3, <3>4, <3>5 DEF Trace, Appended
  <2> QED
    BY <2>10, <2>11, <2>12 DEF SteerInv
<1> QED
  BY <1>3, <1>4 DEF Prepare

\* The steps of Steer.
LEMMA SteerInvSteer ==
  ASSUME SteerInv, NEW s \in Steers, Steer(s)
  PROVE  SteerInv'
<1> USE DEF SteerPcs, execVars, storeVars
<1>1. CASE SteerLook(s)
  <2>1. UNCHANGED <<log, view, inbox>> /\ ToSet(inbox') = ToSet(inbox) /\ Logs'
    BY <1>1 DEF SteerLook, SteerInv, Logs
  <2>2. \/ spc' = [spc EXCEPT ![s] = "refused"] /\ UNCHANGED target
        \/ \E r \in Runs : spc' = [spc EXCEPT ![s] = "found"] /\ target' = [target EXCEPT ![s] = r]
    BY <1>1 DEF SteerLook
  <2>3. spc[s] = "idle"
    BY <1>1 DEF SteerLook
  <2>4. SteerTypes'
    BY <2>1, <2>2 DEF SteerInv, SteerTypes
  <2>5. SteerTrace'
    <3> SUFFICES ASSUME NEW t \in Steers PROVE Trace(t)'
      BY DEF SteerTrace
    <3>1. Trace(t)
      BY DEF SteerInv, SteerTrace
    <3> QED
      BY <3>1, <2>1, <2>2, <2>3 DEF SteerInv, SteerTypes, Trace, Appended
  <2> QED
    BY <2>1, <2>4, <2>5 DEF SteerInv
<1>2. CASE SteerCheck(s)
  <2>1. UNCHANGED <<log, view, inbox, target>> /\ ToSet(inbox') = ToSet(inbox) /\ Logs'
    BY <1>2 DEF SteerCheck, SteerInv, Logs
  <2>2. /\ spc[s] = "found"
        /\ spc' = [spc EXCEPT ![s] = "checked"] \/ spc' = [spc EXCEPT ![s] = "refused"]
    BY <1>2 DEF SteerCheck
  <2>3. SteerTypes'
    BY <2>1, <2>2 DEF SteerInv, SteerTypes
  <2>4. SteerTrace'
    <3> SUFFICES ASSUME NEW t \in Steers PROVE Trace(t)'
      BY DEF SteerTrace
    <3>1. Trace(t)
      BY DEF SteerInv, SteerTrace
    <3> QED
      BY <3>1, <2>1, <2>2 DEF SteerInv, SteerTypes, Trace, Appended
  <2> QED
    BY <2>1, <2>3, <2>4 DEF SteerInv
<1>3. CASE SteerAppend(s)
  <2>1. target[s] \in Runs
    BY <1>3 DEF SteerAppend, SteerInv, SteerTrace, Trace
  <2>2. /\ log' = [log EXCEPT ![target[s]] = Append(@, User(s))]
        /\ spc' = [spc EXCEPT ![s] = "stored"]
        /\ UNCHANGED <<inbox, view, target>>
    BY <1>3 DEF SteerAppend
  <2>3. /\ Logs'
        /\ ToSet(log'[target[s]]) = ToSet(log[target[s]]) \cup {User(s)}
        /\ \A q \in Runs \ {target[s]} : log'[q] = log[q]
    BY <2>1, <2>2, LogAppend DEF SteerInv
  <2>4. SteerTypes'
    BY <2>2 DEF SteerInv, SteerTypes
  <2>5. SteerTrace'
    <3> SUFFICES ASSUME NEW t \in Steers PROVE Trace(t)'
      BY DEF SteerTrace
    <3>1. Trace(t)
      BY DEF SteerInv, SteerTrace
    <3> QED
      BY <3>1, <2>1, <2>2, <2>3, UserInjective DEF SteerInv, SteerTypes, Trace, Appended
  <2> QED
    BY <2>3, <2>4, <2>5 DEF SteerInv
<1>4. CASE Enqueue(s)
  <2>1. Sequence(inbox) /\ Append(inbox, s) \in Seq(Steers)
    BY DEF Sequence, SteerInv, SteerTypes
  <2>2. /\ inbox' \in Seq(Steers) /\ ToSet(inbox') = ToSet(inbox) \cup {s}
        /\ spc[s] = "stored" /\ spc' = [spc EXCEPT ![s] = "acked"]
        /\ UNCHANGED <<log, view, target>>
    BY <1>4, <2>1, SequenceAppend DEF Enqueue
  <2>3. SteerTypes' /\ Logs'
    BY <2>2 DEF SteerInv, SteerTypes, Logs
  <2>4. SteerTrace'
    <3> SUFFICES ASSUME NEW t \in Steers PROVE Trace(t)'
      BY DEF SteerTrace
    <3>1. Trace(t)
      BY DEF SteerInv, SteerTrace
    <3> QED
      BY <3>1, <2>2 DEF SteerInv, SteerTypes, Trace, Appended
  <2> QED
    BY <2>3, <2>4 DEF SteerInv
<1> QED
  BY <1>1, <1>2, <1>3, <1>4 DEF Steer

\* The steps of the loop.
LEMMA SteerInvLoop ==
  ASSUME SteerInv, NEW e \in Executors, Loop(e)
  PROVE  SteerInv'
<1> USE DEF Return, turnVars, activeVars, loopVars
<1>0. RunOf[e] \in Runs
  OBVIOUS
<1>1. CASE Prepare(e)
  BY <1>1, SteerInvPrepare
<1>2. CASE Restore(e)
  BY <1>2, SteerInvKept DEF Restore, storeVars
<1>3. CASE Recover(e)
  <2>1. UNCHANGED <<view, inbox, steerVars>>
    BY <1>3 DEF Recover
  <2>2. CASE UNCHANGED log
    BY <2>1, <2>2, SteerInvKept
  <2>3. ASSUME NEW c, log' = [log EXCEPT ![RunOf[e]] = Append(@, Result(c, TRUE))]
        PROVE  SteerInv'
    <3>1. \A s \in Steers : Result(c, TRUE) # User(s)
      BY NotSteers
    <3> QED
      BY <1>0, <2>1, <2>3, <3>1, SteerInvWrite
  <2> QED
    BY <1>3, <2>2, <2>3 DEF Recover
<1>4. ASSUME NEW resp \in Responses, Ask(e, resp)
      PROVE  SteerInv'
  <2>1. UNCHANGED <<log, inbox, steerVars>>
    BY <1>4 DEF Ask, storeVars
  <2>2. view' = [view EXCEPT ![e] = view[e]] \/ view' = [view EXCEPT ![e] = Append(@, User("notice"))]
    BY <1>4 DEF Ask
  <2>3. Sequence(view[e])
    BY DEF SteerInv, Logs, Sequence
  <2>4. CASE view' = [view EXCEPT ![e] = view[e]]
    BY <2>1, <2>3, <2>4, SteerInvView DEF SteerInv, SteerTrace, Trace
  <2>5. CASE view' = [view EXCEPT ![e] = Append(@, User("notice"))]
    <3>1. /\ Sequence(Append(view[e], User("notice")))
          /\ ToSet(Append(view[e], User("notice"))) = ToSet(view[e]) \cup {User("notice")}
      BY <2>3, SequenceAppend
    <3> QED
      BY <2>1, <2>5, <3>1, SteerInvView, NotSteers DEF SteerInv, SteerTrace, Trace
  <2> QED
    BY <2>2, <2>4, <2>5
<1>5. CASE FailLoop(e)
  BY <1>5, SteerInvKept DEF FailLoop, storeVars
<1>6. CASE AppendFinal(e)
  BY <1>0, <1>6, SteerInvWrite, NotSteers DEF AppendFinal
<1>7. CASE AppendCalls(e)
  <2>1. \A s \in Steers : Assistant(said[e]) # User(s)
    BY NotSteers
  <2> QED
    BY <1>0, <1>7, <2>1, SteerInvWrite DEF AppendCalls
<1>8. ASSUME NEW i \in batch[e], StartTool(e, i)
      PROVE  SteerInv'
  BY <1>8, SteerInvKept DEF StartTool
<1>9. CASE AppendResult(e)
  <2>1. PICK c, ok : /\ log' = [log EXCEPT ![RunOf[e]] = Append(@, Result(c, ok))]
                     /\ view' = [view EXCEPT ![e] = Append(@, Result(c, ok))]
    BY <1>9 DEF AppendResult
  <2>2. \A s \in Steers : Result(c, ok) # User(s)
    BY NotSteers
  <2>3. UNCHANGED <<inbox, steerVars>>
    BY <1>9 DEF AppendResult
  <2> QED
    BY <1>0, <2>1, <2>2, <2>3, SteerInvWrite
<1>10. CASE AppendRejected(e)
  <2>1. CASE UNCHANGED <<log, view>>
    BY <1>10, <2>1, SteerInvKept DEF AppendRejected
  <2>2. ASSUME NEW c, log' = [log EXCEPT ![RunOf[e]] = Append(@, Result(c, FALSE))],
               view' = [view EXCEPT ![e] = Append(@, Result(c, FALSE))]
        PROVE  SteerInv'
    <3>1. \A s \in Steers : Result(c, FALSE) # User(s)
      BY NotSteers
    <3>2. UNCHANGED <<inbox, steerVars>>
      BY <1>10 DEF AppendRejected
    <3> QED
      BY <1>0, <2>2, <3>1, <3>2, SteerInvWrite
  <2> QED
    BY <1>10, <2>1, <2>2 DEF AppendRejected
<1>11. CASE EndStep(e)
  BY <1>11, SteerInvKept DEF EndStep, storeVars
<1>12. CASE ClaimStep(e)
  BY <1>12, SteerInvClaim DEF ClaimStep, storeVars
<1>13. CASE ClaimFinal(e)
  BY <1>13, SteerInvClaim DEF ClaimFinal, storeVars
<1>14. CASE Notice(e)
  BY <1>14, SteerInvKept DEF Notice, storeVars
<1> QED
  BY <1>1, <1>2, <1>3, <1>4, <1>5, <1>6, <1>7, <1>8, <1>9, <1>10, <1>11, <1>12, <1>13, <1>14 DEF Loop

\* The steps around it.
LEMMA SteerInvTurn ==
  ASSUME SteerInv,
         \/ \E r \in Runs : Begin(r) \/ Open(r) \/ Stop(r) \/ Interrupt(r)
                             \/ \E c \in Calls : FinishTool(r, c)
         \/ \E e \in Executors : Start(e) \/ Exit(e)
  PROVE  SteerInv'
<1>1. UNCHANGED <<log, view, steerVars>> /\ (inbox' = inbox \/ inbox' = <<>>)
  <2> USE DEF storeVars, execVars
  <2>1. ASSUME NEW r \in Runs, Begin(r) \/ Open(r) \/ Stop(r) \/ Interrupt(r)
                                 \/ \E c \in Calls : FinishTool(r, c)
        PROVE  UNCHANGED <<log, view, steerVars>> /\ (inbox' = inbox \/ inbox' = <<>>)
    BY <2>1 DEF Begin, Open, Stop, Interrupt, StopClear, StopSignal, FinishTool
  <2>2. ASSUME NEW e \in Executors, Start(e) \/ Exit(e)
        PROVE  UNCHANGED <<log, view, steerVars>> /\ (inbox' = inbox \/ inbox' = <<>>)
    BY <2>2 DEF Start, Exit, Settle, Leave, CheckSession, ClearInbox
  <2> QED
    BY <2>1, <2>2
<1> QED
  BY <1>1, SteerInvKept

\* Every step keeps what is known of steers.
LEMMA SteerInvNext == SteerInv /\ [Next]_vars => SteerInv'
<1> SUFFICES ASSUME SteerInv, [Next]_vars PROVE SteerInv'
  OBVIOUS
<1>1. CASE UNCHANGED vars
  BY <1>1, SteerInvKept DEF vars, storeVars, execVars
<1>2. CASE Next
  BY <1>2, SteerInvTurn, SteerInvLoop, SteerInvSteer DEF Next
<1> QED
  BY <1>1, <1>2

\* A steer is in the log of its run before any model sees it, for any number of
\* runs, executors of a run and steers.
THEOREM PersistedBeforeSeen == Spec => []PersistedFirst
<1>1. SteerInv => PersistedFirst
  BY DEF SteerInv, SteerTrace, Trace, Appended, PersistedFirst
<1> QED
  BY <1>1, SteerInvInit, SteerInvNext, PTL DEF Spec

-----------------------------------------------------------------------------
(* A detected loop ends the tool calls.                                    *)

\* No run is executed twice (see Twice in ChatTurn for what makes it so).
OneExecutorPerRun == \A d, e \in Executors : RunOf[d] = RunOf[e] => d = e

\* An executor that was told to stop has no batch at hand.
LoopInv ==
  /\ pc \in [Executors -> ExecPcs]
  /\ DOMAIN disabled = Executors
  /\ \A e \in Executors : disabled[e] => pc[e] # "calls"

\* No executor has its tools disabled at the start.
LEMMA LoopInvInit == Init => LoopInv
  BY DEF Init, LoopInv, ExecPcs

\* Every step of an executor moves it to another place; only Ask disables its tools.
LEMMA LoopInvLoop ==
  ASSUME LoopInv, NEW e \in Executors, Loop(e)
  PROVE  LoopInv'
<1> USE DEF LoopInv, ExecPcs, LoopPcs, Return, loopVars
<1>1. CASE Prepare(e)
  BY <1>1 DEF Prepare
<1>2. CASE Restore(e)
  <2>1. UNCHANGED disabled
    BY <1>2 DEF Restore
  <2>2. \E p \in {"settle", "ask", "recover"} : pc' = [pc EXCEPT ![e] = p]
    BY <1>2 DEF Restore
  <2> QED
    BY <2>1, <2>2
<1>3. CASE Recover(e)
  <2>1. UNCHANGED disabled
    BY <1>3 DEF Recover
  <2>2. \E p \in {"settle", "ask", "recover"} : pc' = [pc EXCEPT ![e] = p]
    BY <1>3 DEF Recover
  <2> QED
    BY <2>1, <2>2
<1>4. ASSUME NEW resp \in Responses, Ask(e, resp)
      PROVE  LoopInv'
  <2>1. PICK looping \in BOOLEAN, final \in BOOLEAN :
          /\ disabled' = [disabled EXCEPT ![e] = @ \/ looping]
          /\ pc' = [pc EXCEPT ![e] = CASE final -> "final" [] looping -> "ask" [] OTHER -> "calls"]
          /\ disabled[e] => final
          /\ looping => ~final
    BY <1>4 DEF Ask
  <2>2. CASE final
    BY <2>1, <2>2
  <2>3. CASE ~final /\ looping
    BY <2>1, <2>3
  <2>4. CASE ~final /\ ~looping
    BY <2>1, <2>4
  <2> QED
    BY <2>2, <2>3, <2>4
<1>5. CASE FailLoop(e)
  BY <1>5 DEF FailLoop
<1>6. CASE AppendFinal(e)
  BY <1>6 DEF AppendFinal
<1>7. CASE AppendCalls(e)
  BY <1>7 DEF AppendCalls
<1>8. ASSUME NEW i \in batch[e], StartTool(e, i)
      PROVE  LoopInv'
  BY <1>8 DEF StartTool
<1>9. CASE AppendResult(e)
  BY <1>9 DEF AppendResult
<1>10. CASE AppendRejected(e)
  BY <1>10 DEF AppendRejected
<1>11. CASE EndStep(e)
  BY <1>11 DEF EndStep
<1>12. CASE ClaimStep(e)
  BY <1>12 DEF ClaimStep
<1>13. CASE ClaimFinal(e)
  BY <1>13 DEF ClaimFinal
<1>14. CASE Notice(e)
  BY <1>14 DEF Notice
<1> QED
  BY <1>1, <1>2, <1>3, <1>4, <1>5, <1>6, <1>7, <1>8, <1>9, <1>10, <1>11, <1>12, <1>13, <1>14 DEF Loop

\* Every step keeps that disabled tools leave no batch at hand.
LEMMA LoopInvNext == LoopInv /\ [Next]_vars => LoopInv'
<1> SUFFICES ASSUME LoopInv, [Next]_vars PROVE LoopInv'
  OBVIOUS
<1> USE DEF LoopInv, execVars, loopVars
<1>1. CASE UNCHANGED vars
  BY <1>1 DEF vars
<1>2. ASSUME NEW r \in Runs, Begin(r) \/ Open(r) \/ Stop(r) \/ Interrupt(r)
                               \/ \E c \in Calls : FinishTool(r, c)
      PROVE  LoopInv'
  BY <1>2 DEF Begin, Open, Stop, Interrupt, StopClear, StopSignal, FinishTool
<1>3. ASSUME NEW e \in Executors, Start(e) \/ Exit(e)
      PROVE  LoopInv'
  BY <1>3 DEF Start, Exit, Settle, Leave, CheckSession, ClearInbox, ExecPcs
<1>4. ASSUME NEW s \in Steers, Steer(s)
      PROVE  LoopInv'
  BY <1>4 DEF Steer, SteerLook, SteerCheck, SteerAppend, Enqueue
<1> QED
  BY <1>1, <1>2, <1>3, <1>4, LoopInvLoop DEF Next

\* The last element of a sequence is the one appended last.
LEMMA LastAppend ==
  ASSUME NEW q, NEW x, Sequence(q)
  PROVE  Last(Append(q, x)) = x
  BY SequenceAppend DEF Last

\* A record that is no batch of tool calls.
NoCalls(rec) == rec.type = "assistant" => rec = Final

\* Only a batch asks for calls.
LEMMA NoCallsFacts ==
  /\ NoCalls(Prompt) /\ NoCalls(Final)
  /\ \A s : NoCalls(User(s))
  /\ \A c, ok : NoCalls(Result(c, ok))
  BY DEF NoCalls, Prompt, User, Result

\* A step writes to a run a batch of tool calls only if its executor is about to.
LEMMA WriteOfRun ==
  ASSUME Logs, SteerTypes, OneExecutorPerRun, NEW e \in Executors, pc[e] # "calls", [Next]_vars
  PROVE  log'[RunOf[e]] = log[RunOf[e]] \/ NoCalls(Last(log'[RunOf[e]]))
<1> DEFINE r == RunOf[e]
           Goal == log'[r] = log[r] \/ NoCalls(Last(log'[r]))
<1>1. r \in Runs /\ DOMAIN log = Runs /\ \A q \in Runs : Sequence(log[q])
  BY DEF Logs, Sequence
<1>2. ASSUME NEW q, NEW rec, NoCalls(rec), log' = [log EXCEPT ![q] = Append(@, rec)]
      PROVE  Goal
  BY <1>1, <1>2, LastAppend
<1>3. CASE UNCHANGED log
  BY <1>3
<1>4. ASSUME NEW d \in Executors, Loop(d)
      PROVE  Goal
  <2>1. CASE Prepare(d)
    <3>1. log' = log \/ log' = [log EXCEPT ![RunOf[d]] = IF @ = <<>> THEN <<Prompt>> ELSE @]
      BY <2>1 DEF Prepare
    <3>2. log'[r] = log[r] \/ log'[r] = <<Prompt>>
      BY <1>1, <3>1
    <3>3. Last(<<Prompt>>) = Prompt
      BY DEF Last
    <3> QED
      BY <3>2, <3>3, NoCallsFacts
  <2>2. CASE Recover(d)
    <3>1. log' = log \/ \E c : log' = [log EXCEPT ![RunOf[d]] = Append(@, Result(c, TRUE))]
      BY <2>2 DEF Recover
    <3> QED
      BY <3>1, <1>2, <1>3, NoCallsFacts
  <2>3. CASE AppendFinal(d)
    BY <2>3, <1>2, NoCallsFacts DEF AppendFinal
  <2>4. CASE AppendCalls(d)
    <3>1. d # e /\ RunOf[d] # r
      BY <2>4 DEF AppendCalls, OneExecutorPerRun
    <3>2. log' = [log EXCEPT ![RunOf[d]] = Append(@, Assistant(said[d]))]
      BY <2>4 DEF AppendCalls
    <3> QED
      BY <1>1, <3>1, <3>2
  <2>5. CASE AppendResult(d)
    <3>1. \E c, ok : log' = [log EXCEPT ![RunOf[d]] = Append(@, Result(c, ok))]
      BY <2>5 DEF AppendResult
    <3> QED
      BY <3>1, <1>2, NoCallsFacts
  <2>6. CASE AppendRejected(d)
    <3>1. log' = log \/ \E c : log' = [log EXCEPT ![RunOf[d]] = Append(@, Result(c, FALSE))]
      BY <2>6 DEF AppendRejected
    <3> QED
      BY <3>1, <1>2, <1>3, NoCallsFacts
  <2>7. CASE UNCHANGED log
    BY <1>3, <2>7
  <2> HIDE DEF Goal
  <2> QED
    BY <1>4, <2>1, <2>2, <2>3, <2>4, <2>5, <2>6, <2>7
    DEF Loop, Restore, Ask, FailLoop, StartTool, EndStep, ClaimStep, ClaimFinal, Notice, storeVars
<1>5. ASSUME NEW s \in Steers, Steer(s)
      PROVE  Goal
  <2>1. UNCHANGED log \/ log' = [log EXCEPT ![target[s]] = Append(@, User(s))]
    BY <1>5 DEF Steer, SteerLook, SteerCheck, SteerAppend, Enqueue, storeVars
  <2> QED
    BY <2>1, <1>2, <1>3, NoCallsFacts
<1>6. ASSUME NEW q \in Runs, Begin(q) \/ Open(q) \/ Stop(q) \/ Interrupt(q)
                               \/ \E c \in Calls : FinishTool(q, c)
      PROVE  Goal
  BY <1>6, <1>3 DEF Begin, Open, Stop, Interrupt, StopClear, StopSignal, FinishTool, storeVars
<1>7. ASSUME NEW d \in Executors, Start(d) \/ Exit(d)
      PROVE  Goal
  BY <1>7, <1>3 DEF Start, Exit, Settle, Leave, CheckSession, ClearInbox, storeVars
<1>8. CASE UNCHANGED vars
  BY <1>3, <1>8 DEF vars, storeVars
<1> HIDE DEF Goal
<1>9. ASSUME Next
      PROVE  Goal
  <2>1. ASSUME NEW q \in Runs, Begin(q) \/ Open(q) \/ Stop(q) \/ Interrupt(q)
                                 \/ \E c \in Calls : FinishTool(q, c)
        PROVE  Goal
    BY <1>6, <2>1
  <2>2. ASSUME NEW d \in Executors, Start(d) \/ Loop(d) \/ Exit(d)
        PROVE  Goal
    BY <1>4, <1>7, <2>2
  <2>3. ASSUME NEW t \in Steers, Steer(t)
        PROVE  Goal
    BY <1>5, <2>3
  <2> QED
    BY <1>9, <2>1, <2>2, <2>3 DEF Next
<1> QED
  BY <1>8, <1>9 DEF Goal

\* When no run is executed twice, a run whose executor detected a tool loop gets
\* no further batch of tool calls, for any number of steers and interrupts.
THEOREM DetectedLoopEndsTools == OneExecutorPerRun => (Spec => LoopEndsTools)
<1> SUFFICES ASSUME OneExecutorPerRun PROVE Spec => LoopEndsTools
  OBVIOUS
<1>1. ASSUME SteerInv, LoopInv, [Next]_vars
      PROVE  [\A e \in Executors :
                LET now == log'[RunOf[e]] IN
                (disabled[e] /\ now # log[RunOf[e]])
                => (Last(now).type = "assistant" => Last(now) = Final)]_vars
  BY <1>1, WriteOfRun DEF SteerInv, LoopInv, NoCalls
<1> QED
  BY <1>1, SteerInvInit, SteerInvNext, LoopInvInit, LoopInvNext, PTL DEF Spec, LoopEndsTools

-----------------------------------------------------------------------------
(* A sub-agent ends before the step that called it.                        *)

\* A sub-agent is the sub-agent of one call.
OneParent ==
  \A p, q \in Runs \X Calls : (ChildOf[p] = ChildOf[q] /\ ChildOf[p] # NoOne) => p = q

StepTypes ==
  /\ pc \in [Executors -> ExecPcs]
  /\ row \in [Runs -> [Calls -> RowStates]]
  /\ DOMAIN said = Executors /\ DOMAIN batch = Executors

\* What is being executed is a part of what the model asked for.
StepShape(e) ==
  pc[e] \in {"calls", "tools"} => said[e] \in Seq(Calls) /\ batch[e] \subseteq 1 .. Len(said[e])

\* A tool runs only in the step that waits for it.
RunsInStep(e) ==
  \A c \in Calls : row[RunOf[e]][c] = "running" => pc[e] = "tools" /\ c \in Waiting(e)

\* A sub-agent works only while its call runs, and starts only once.
RunsInCall(r, c) ==
  LET child == ChildOf[<<r, c>>] IN
  child # NoOne =>
    /\ pc[child] # "idle" => row[r][c] # "none"
    /\ pc[child] \notin {"idle", "done"} => row[r][c] = "running"

StepInv ==
  /\ StepTypes
  /\ \A e \in Executors : StepShape(e) /\ RunsInStep(e)
  /\ \A r \in Runs, c \in Calls : RunsInCall(r, c)

\* The sub-agent of a call is an executor, and one of the children.
LEMMA ChildType ==
  ASSUME NEW r \in Runs, NEW c \in Calls, ChildOf[<<r, c>>] # NoOne
  PROVE  ChildOf[<<r, c>>] \in Executors /\ ChildOf[<<r, c>>] \in Children
  BY DEF Children

\* No tool runs and no sub-agent works at the start.
LEMMA StepInvInit == Init => StepInv
<1> SUFFICES ASSUME Init PROVE StepInv
  OBVIOUS
<1>1. StepTypes
  BY DEF Init, StepTypes, ExecPcs, RowStates
<1>2. \A e \in Executors : StepShape(e) /\ RunsInStep(e)
  BY DEF Init, StepShape, RunsInStep
<1>3. \A r \in Runs, c \in Calls : RunsInCall(r, c)
  BY ChildType DEF Init, RunsInCall
<1> QED
  BY <1>1, <1>2, <1>3 DEF StepInv

\* Executors and tools stay where they are.
LEMMA StepInvKept ==
  ASSUME StepInv, UNCHANGED <<pc, row, said, batch>>
  PROVE  StepInv'
  BY DEF StepInv, StepTypes, StepShape, RunsInStep, RunsInCall, Waiting

\* One executor that works moves on; the tools that run are still waited for.
LEMMA StepInvMove ==
  ASSUME StepInv, OneExecutorPerRun,
         NEW e \in Executors, NEW p \in ExecPcs \ {"idle"},
         pc[e] \notin {"idle", "done"}, pc' = [pc EXCEPT ![e] = p], UNCHANGED row,
         DOMAIN said' = Executors, DOMAIN batch' = Executors,
         \A d \in Executors \ {e} : said'[d] = said[d] /\ batch'[d] = batch[d],
         StepShape(e)', RunsInStep(e)'
  PROVE  StepInv'
<1>1. StepTypes'
  BY DEF StepInv, StepTypes
<1>2. ASSUME NEW d \in Executors \ {e}
      PROVE  StepShape(d)' /\ RunsInStep(d)'
  <2>1. pc'[d] = pc[d] /\ row' = row /\ said'[d] = said[d] /\ batch'[d] = batch[d]
    BY DEF StepInv, StepTypes
  <2>2. StepShape(d) /\ RunsInStep(d)
    BY DEF StepInv
  <2> QED
    BY <2>1, <2>2 DEF StepShape, RunsInStep, Waiting
<1>3. ASSUME NEW r \in Runs, NEW c \in Calls
      PROVE  RunsInCall(r, c)'
  <2>1. RunsInCall(r, c)
    BY DEF StepInv
  <2> QED
    BY <2>1, ChildType DEF RunsInCall, StepInv, StepTypes
<1> QED
  BY <1>1, <1>2, <1>3 DEF StepInv

\* An executor that runs no tools: whatever it does next, nothing runs for it.
LEMMA StepInvOther ==
  ASSUME StepInv, OneExecutorPerRun,
         NEW e \in Executors, NEW p \in ExecPcs \ {"idle", "calls", "tools"},
         pc[e] \notin {"idle", "done", "tools"}, pc' = [pc EXCEPT ![e] = p], UNCHANGED row,
         DOMAIN said' = Executors, DOMAIN batch' = Executors,
         \A d \in Executors \ {e} : said'[d] = said[d] /\ batch'[d] = batch[d]
  PROVE  StepInv'
<1>1. pc'[e] = p
  BY DEF StepInv, StepTypes
<1>2. StepShape(e)'
  BY <1>1 DEF StepShape
<1>3. RunsInStep(e)'
  BY DEF StepInv, RunsInStep
<1> QED
  BY <1>2, <1>3, StepInvMove

\* A tool starts, and its sub-agent with it.
LEMMA StepInvStart ==
  ASSUME StepInv, OneExecutorPerRun, OneParent,
         NEW e \in Executors, NEW i \in batch[e], StartTool(e, i)
  PROVE  StepInv'
<1> DEFINE r == RunOf[e]
           c == said[e][i]
<1>1. /\ pc[e] = "tools" /\ row[r][c] = "none"
      /\ row' = [row EXCEPT ![r][c] = "running"]
      /\ pc' = [d \in Executors |-> IF d = ChildOf[<<r, c>>] THEN "started" ELSE pc[d]]
      /\ UNCHANGED <<said, batch>>
  BY DEF StartTool, loopVars
<1>2. r \in Runs /\ c \in Calls
  BY <1>1 DEF StepInv, StepShape
<1>3. RunsInCall(r, c)
  BY <1>2 DEF StepInv
<1>4. ChildOf[<<r, c>>] # NoOne => pc[ChildOf[<<r, c>>]] = "idle"
  BY <1>1, <1>3 DEF RunsInCall
<1>5. c \in Waiting(e)
  BY DEF Waiting
<1> HIDE DEF r, c
<1>6. /\ \A d \in Executors : pc'[d] = pc[d] \/ (pc[d] = "idle" /\ pc'[d] = "started" /\ d = ChildOf[<<r, c>>])
      /\ pc'[e] = "tools"
  BY <1>1, <1>2, <1>4
<1>7. /\ row'[r][c] = "running"
      /\ \A q \in Runs, d \in Calls : <<q, d>> # <<r, c>> => row'[q][d] = row[q][d]
  BY <1>1, <1>2 DEF StepInv, StepTypes
<1>8. StepTypes'
  BY <1>1, <1>2, <1>6 DEF StepInv, StepTypes, ExecPcs, RowStates
<1>9. ASSUME NEW d \in Executors
      PROVE  StepShape(d)' /\ RunsInStep(d)'
  <2>1. StepShape(d) /\ RunsInStep(d)
    BY DEF StepInv
  <2>2. StepShape(d)' /\ Waiting(d)' = Waiting(d)
    BY <1>1, <1>6, <2>1 DEF StepShape, Waiting
  <2>3. CASE d = e
    <3>1. \A a \in Calls : row'[r][a] = "running" => a = c \/ row[r][a] = "running"
      BY <1>2, <1>7
    <3>2. \A a \in Calls : row[r][a] = "running" => a \in Waiting(e)
      BY <2>1, <2>3 DEF RunsInStep, r
    <3> QED
      BY <1>5, <1>6, <2>2, <2>3, <3>1, <3>2 DEF RunsInStep, r
  <2>4. CASE d # e
    <3>1. RunOf[d] # r /\ RunOf[d] \in Runs
      BY <2>4 DEF OneExecutorPerRun, r
    <3>2. \A a \in Calls : row'[RunOf[d]][a] = row[RunOf[d]][a]
      BY <1>7, <3>1
    <3>3. pc[d] = "tools" => pc'[d] = "tools"
      BY <1>6
    <3> QED
      BY <2>1, <2>2, <3>2, <3>3 DEF RunsInStep
  <2> QED
    BY <2>2, <2>3, <2>4
<1>10. ASSUME NEW q \in Runs, NEW d \in Calls
       PROVE  RunsInCall(q, d)'
  <2>1. CASE <<q, d>> = <<r, c>>
    BY <2>1, <1>7 DEF RunsInCall
  <2>2. CASE <<q, d>> # <<r, c>> /\ ChildOf[<<q, d>>] # NoOne
    <3>1. ChildOf[<<q, d>>] # ChildOf[<<r, c>>]
      BY <1>2, <2>2 DEF OneParent
    <3>2. pc'[ChildOf[<<q, d>>]] = pc[ChildOf[<<q, d>>]] /\ row'[q][d] = row[q][d]
      BY <1>6, <1>7, <2>2, <3>1, ChildType
    <3>3. RunsInCall(q, d)
      BY DEF StepInv
    <3> QED
      BY <3>2, <3>3 DEF RunsInCall
  <2>3. CASE ChildOf[<<q, d>>] = NoOne
    BY <2>3 DEF RunsInCall
  <2> QED
    BY <2>1, <2>2, <2>3
<1> QED
  BY <1>8, <1>9, <1>10 DEF StepInv

\* A result is appended: its tool has ended, the others are still waited for.
LEMMA StepInvResult ==
  ASSUME StepInv, OneExecutorPerRun, NEW e \in Executors, AppendResult(e)
  PROVE  StepInv'
<1> DEFINE i == Min(batch[e])
           p == IF batch[e] = {i} THEN "reject" ELSE "tools"
<1>1. /\ pc[e] = "tools" /\ RowEnded(RunOf[e], said[e][i])
      /\ batch' = [batch EXCEPT ![e] = @ \ {i}]
      /\ pc' = [pc EXCEPT ![e] = p]
      /\ UNCHANGED <<row, said>>
  BY DEF AppendResult
<1> HIDE DEF i
<1>2. DOMAIN batch' = Executors /\ DOMAIN said' = Executors /\ batch'[e] = batch[e] \ {i}
  BY <1>1 DEF StepInv, StepTypes
<1>3. \A d \in Executors \ {e} : said'[d] = said[d] /\ batch'[d] = batch[d]
  BY <1>1 DEF StepInv, StepTypes
<1>4. pc'[e] = p /\ p \in ExecPcs \ {"idle"}
  BY <1>1 DEF StepInv, StepTypes, ExecPcs, LoopPcs
<1>5. StepShape(e)'
  BY <1>1, <1>2, <1>4 DEF StepInv, StepShape
<1>6. RunsInStep(e)'
  <2> SUFFICES ASSUME NEW c \in Calls, row'[RunOf[e]][c] = "running"
               PROVE  pc'[e] = "tools" /\ c \in Waiting(e)'
    BY DEF RunsInStep
  <2>1. c \in Waiting(e) /\ c # said[e][i]
    BY <1>1 DEF StepInv, RunsInStep, RowEnded
  <2>2. PICK j \in batch[e] : c = said[e][j]
    BY <2>1 DEF Waiting
  <2>3. j # i /\ j \in batch'[e] /\ batch[e] # {i}
    BY <1>2, <2>1, <2>2
  <2> QED
    BY <1>1, <1>4, <2>2, <2>3 DEF Waiting
<1> HIDE DEF p
<1> QED
  BY <1>1, <1>2, <1>3, <1>4, <1>5, <1>6, StepInvMove

\* A step of an executor keeps the parents in their tool steps.
LEMMA StepInvLoop ==
  ASSUME StepInv, OneExecutorPerRun, OneParent, NEW e \in Executors, Loop(e)
  PROVE  StepInv'
<1> USE DEF Return, loopVars, ExecPcs, LoopPcs
<1>0. DOMAIN said = Executors /\ DOMAIN batch = Executors
  BY DEF StepInv, StepTypes
<1>1. CASE Prepare(e)
  BY <1>0, <1>1, StepInvOther DEF Prepare
<1>2. CASE Restore(e)
  <2>1. \E p \in {"settle", "ask", "recover"} : pc' = [pc EXCEPT ![e] = p]
    BY <1>2 DEF Restore
  <2>2. /\ pc[e] = "restore" /\ UNCHANGED row
        /\ DOMAIN said' = Executors /\ DOMAIN batch' = Executors
        /\ \A d \in Executors \ {e} : said'[d] = said[d] /\ batch'[d] = batch[d]
    BY <1>0, <1>2 DEF Restore, storeVars
  <2> QED
    BY <2>1, <2>2, StepInvOther
<1>3. CASE Recover(e)
  <2>1. \E p \in {"settle", "ask", "recover"} : pc' = [pc EXCEPT ![e] = p]
    BY <1>3 DEF Recover
  <2>2. /\ pc[e] = "recover" /\ UNCHANGED row
        /\ DOMAIN said' = Executors /\ DOMAIN batch' = Executors
        /\ \A d \in Executors \ {e} : said'[d] = said[d] /\ batch'[d] = batch[d]
    BY <1>0, <1>3 DEF Recover
  <2> QED
    BY <2>1, <2>2, StepInvOther
<1>4. ASSUME NEW resp \in Responses, Ask(e, resp)
      PROVE  StepInv'
  <2>1. /\ pc[e] = "ask" /\ UNCHANGED row
        /\ DOMAIN said' = Executors /\ DOMAIN batch' = Executors
        /\ \A d \in Executors \ {e} : said'[d] = said[d] /\ batch'[d] = batch[d]
    BY <1>0, <1>4 DEF Ask, storeVars
  <2>2. PICK p \in {"final", "ask", "calls"} :
          /\ pc' = [pc EXCEPT ![e] = p]
          /\ p = "calls" => said'[e] = resp /\ batch'[e] = Executable(Asked(view[e]), resp)
    <3>1. PICK looping \in BOOLEAN, final \in BOOLEAN :
            /\ said' = [said EXCEPT ![e] = IF final \/ looping THEN <<>> ELSE resp]
            /\ batch' = [batch EXCEPT ![e] = IF final \/ looping THEN {} ELSE Executable(Asked(view[e]), resp)]
            /\ pc' = [pc EXCEPT ![e] = CASE final -> "final" [] looping -> "ask" [] OTHER -> "calls"]
      BY <1>4 DEF Ask
    <3>2. CASE final
      BY <3>1, <3>2
    <3>3. CASE ~final /\ looping
      BY <3>1, <3>3
    <3>4. CASE ~final /\ ~looping
      BY <1>0, <3>1, <3>4
    <3> QED
      BY <3>2, <3>3, <3>4
  <2>3. resp \in Seq(Calls) /\ Executable(Asked(view[e]), resp) \subseteq 1 .. Len(resp)
    BY DEF Executable
  <2>4. StepShape(e)'
    BY <2>2, <2>3 DEF StepShape, StepInv, StepTypes
  <2>5. RunsInStep(e)'
    BY <2>1 DEF RunsInStep, StepInv
  <2> QED
    BY <2>1, <2>2, <2>4, <2>5, StepInvMove
<1>5. CASE FailLoop(e)
  BY <1>0, <1>5, StepInvOther DEF FailLoop, storeVars
<1>6. CASE AppendFinal(e)
  BY <1>0, <1>6, StepInvOther DEF AppendFinal
<1>7. CASE AppendCalls(e)
  <2>1. /\ pc[e] = "calls" /\ UNCHANGED <<row, said, batch>>
        /\ \E p \in {"tools", "reject", "settle"} : pc' = [pc EXCEPT ![e] = p]
    BY <1>7 DEF AppendCalls
  <2>2. StepShape(e)'
    BY <2>1 DEF StepInv, StepShape
  <2>3. RunsInStep(e)'
    BY <2>1 DEF StepInv, RunsInStep
  <2> QED
    BY <1>0, <2>1, <2>2, <2>3, StepInvMove
<1>8. ASSUME NEW i \in batch[e], StartTool(e, i)
      PROVE  StepInv'
  BY <1>8, StepInvStart
<1>9. CASE AppendResult(e)
  BY <1>9, StepInvResult
<1>10. CASE AppendRejected(e)
  <2>1. /\ pc[e] = "reject" /\ UNCHANGED <<row, said, batch>>
        /\ \E p \in {"reject", "settle"} : pc' = [pc EXCEPT ![e] = p]
    BY <1>10 DEF AppendRejected, StepInv, StepTypes
  <2> QED
    BY <1>0, <2>1, StepInvOther
<1>11. CASE EndStep(e)
  BY <1>0, <1>11, StepInvOther DEF EndStep, storeVars
<1>12. CASE ClaimStep(e)
  BY <1>0, <1>12, StepInvOther DEF ClaimStep, storeVars
<1>13. CASE ClaimFinal(e)
  <2>1. /\ pc[e] = "claimFinal" /\ UNCHANGED <<row, said, batch>>
        /\ \E p \in {"ask", "settle"} : pc' = [pc EXCEPT ![e] = p]
    BY <1>13 DEF ClaimFinal, storeVars
  <2> QED
    BY <1>0, <2>1, StepInvOther
<1>14. CASE Notice(e)
  <2>1. /\ pc[e] \notin {"idle", "done"} /\ UNCHANGED <<row, said, batch>>
        /\ pc' = [pc EXCEPT ![e] = "settle"]
        /\ pc[e] = "tools" => \A c \in Waiting(e) : row[RunOf[e]][c] # "running"
    BY <1>14 DEF Notice, storeVars
  <2>2. StepShape(e)'
    BY <2>1 DEF StepInv, StepTypes, StepShape
  <2>3. RunsInStep(e)'
    BY <2>1 DEF StepInv, RunsInStep
  <2> QED
    BY <1>0, <2>1, <2>2, <2>3, StepInvMove
<1> QED
  BY <1>1, <1>2, <1>3, <1>4, <1>5, <1>6, <1>7, <1>8, <1>9, <1>10, <1>11, <1>12, <1>13, <1>14 DEF Loop

\* A tool ends, its sub-agent has ended before.
LEMMA StepInvFinish ==
  ASSUME StepInv, NEW r \in Runs, NEW c \in Calls, FinishTool(r, c)
  PROVE  StepInv'
<1>1. /\ ChildOf[<<r, c>>] # NoOne => pc[ChildOf[<<r, c>>]] = "done"
      /\ UNCHANGED <<pc, said, batch>>
  BY DEF FinishTool, execVars, loopVars
<1>2. PICK how \in {"succeeded", "failed"} : row' = [row EXCEPT ![r][c] = how]
  BY DEF FinishTool
<1>3. StepTypes'
  BY <1>1, <1>2 DEF StepInv, StepTypes, RowStates
<1>4. /\ row'[r][c] = how
      /\ \A q \in Runs, d \in Calls : <<q, d>> # <<r, c>> => row'[q][d] = row[q][d]
  BY <1>2 DEF StepInv, StepTypes
<1>5. ASSUME NEW e \in Executors
      PROVE  StepShape(e)' /\ RunsInStep(e)'
  <2>1. StepShape(e) /\ RunsInStep(e)
    BY DEF StepInv
  <2>2. \A a \in Calls : row'[RunOf[e]][a] = "running" => row[RunOf[e]][a] = "running"
    BY <1>4
  <2> QED
    BY <1>1, <2>1, <2>2 DEF StepShape, RunsInStep, Waiting
<1>6. ASSUME NEW q \in Runs, NEW d \in Calls
      PROVE  RunsInCall(q, d)'
  <2>1. RunsInCall(q, d)
    BY DEF StepInv
  <2>2. CASE <<q, d>> = <<r, c>>
    BY <2>2, <1>1, <1>4 DEF RunsInCall
  <2>3. CASE <<q, d>> # <<r, c>>
    BY <2>1, <2>3, <1>1, <1>4 DEF RunsInCall
  <2> QED
    BY <2>2, <2>3
<1> QED
  BY <1>3, <1>5, <1>6 DEF StepInv

\* An executor starts or leaves; only a sub-agent that starts is bound to a call.
LEMMA StepInvTurn ==
  ASSUME StepInv, OneExecutorPerRun, NEW e \in Executors, Start(e) \/ Exit(e)
  PROVE  StepInv'
<1> USE DEF ExecPcs
<1>1. CASE Start(e)
  <2>1. /\ pc[e] = "idle" /\ e \notin Children
        /\ pc' = [pc EXCEPT ![e] = "started"] /\ UNCHANGED <<row, said, batch>>
    BY <1>1 DEF Start, loopVars, storeVars
  <2>2. StepTypes'
    BY <2>1 DEF StepInv, StepTypes
  <2>3. \A d \in Executors : pc'[d] = IF d = e THEN "started" ELSE pc[d]
    BY <2>1 DEF StepInv, StepTypes
  <2>4. ASSUME NEW d \in Executors
        PROVE  StepShape(d)' /\ RunsInStep(d)'
    <3>1. StepShape(d) /\ RunsInStep(d)
      BY DEF StepInv
    <3> QED
      BY <2>1, <2>3, <3>1 DEF StepShape, RunsInStep, Waiting
  <2>5. ASSUME NEW r \in Runs, NEW c \in Calls
        PROVE  RunsInCall(r, c)'
    <3>1. RunsInCall(r, c)
      BY DEF StepInv
    <3> QED
      BY <2>1, <2>3, <3>1, ChildType DEF RunsInCall
  <2> QED
    BY <2>2, <2>4, <2>5 DEF StepInv
<1>2. CASE Exit(e)
  <2>1. /\ pc[e] \in {"settle", "leave", "left", "clear"} /\ UNCHANGED <<row, said, batch>>
        /\ \E p \in {"leave", "left", "clear", "done"} : pc' = [pc EXCEPT ![e] = p]
    BY <1>2 DEF Exit, Settle, Leave, CheckSession, ClearInbox, loopVars, storeVars
  <2>2. DOMAIN said = Executors /\ DOMAIN batch = Executors
    BY DEF StepInv, StepTypes
  <2> QED
    BY <2>1, <2>2, StepInvOther
<1> QED
  BY <1>1, <1>2

\* Every step keeps sub-agents and running rows inside the step of their caller.
LEMMA StepInvNext ==
  ASSUME OneExecutorPerRun, OneParent
  PROVE  StepInv /\ [Next]_vars => StepInv'
<1> SUFFICES ASSUME StepInv, [Next]_vars PROVE StepInv'
  OBVIOUS
<1>1. CASE UNCHANGED vars
  BY <1>1, StepInvKept DEF vars, storeVars, execVars, loopVars
<1>2. ASSUME NEW r \in Runs, Begin(r) \/ Open(r) \/ Stop(r) \/ Interrupt(r)
      PROVE  StepInv'
  BY <1>2, StepInvKept
  DEF Begin, Open, Stop, Interrupt, StopClear, StopSignal, storeVars, execVars, loopVars
<1>3. ASSUME NEW s \in Steers, Steer(s)
      PROVE  StepInv'
  BY <1>3, StepInvKept
  DEF Steer, SteerLook, SteerCheck, SteerAppend, Enqueue, storeVars, execVars, loopVars
<1>4. CASE Next
  BY <1>2, <1>3, <1>4, StepInvFinish, StepInvTurn, StepInvLoop DEF Next
<1> QED
  BY <1>1, <1>4

\* When no run is executed twice, a sub-agent that works is inside the tool step
\* that called it, whoever is interrupted, for any tree of runs.
THEOREM SubAgentEndsInStep == (OneExecutorPerRun /\ OneParent) => (Spec => []ChildEndsFirst)
<1> SUFFICES ASSUME OneExecutorPerRun, OneParent PROVE Spec => []ChildEndsFirst
  OBVIOUS
<1>1. StepInv => ChildEndsFirst
  BY DEF StepInv, RunsInStep, RunsInCall, ChildEndsFirst
<1>2. StepInv /\ [Next]_vars => StepInv'
  BY StepInvNext
<1> QED
  BY <1>1, <1>2, StepInvInit, PTL DEF Spec

-----------------------------------------------------------------------------
(* Types.                                                                  *)

Sources == Steers \cup {"prompt", "model", "tool", "notice"}

\* The records of the loop are records of RunRecords.
LEMMA RecordTypes ==
  /\ Records = RecordsOf(Calls, Sources)
  /\ Prompt \in Records /\ Final \in Records /\ User("notice") \in Records
  /\ \A s \in Steers : User(s) \in Records
  /\ \A calls \in Seq(Calls) : Assistant(calls) \in Records
  /\ \A c \in Calls, ok \in BOOLEAN : Result(c, ok) \in Records
<1>1. <<>> \in Seq(Calls) /\ \A c \in Calls : <<c>> \in Seq(Calls)
  OBVIOUS
<1>2. Records = RecordsOf(Calls, Sources)
  BY DEF Records, RecordsOf, Sources
<1> QED
  BY <1>1, <1>2 DEF Records, Prompt, Final, User, Assistant, Result

\* Some positions have a first one.
LEMMA FirstPosition ==
  ASSUME NEW S \in SUBSET Nat, S # {}
  PROVE  Min(S) \in S /\ \A x \in S : Min(S) <= x
<1>1. PICK x \in S : \A y \in S : x <= y
  BY LeastNatural
<1> QED
  BY <1>1 DEF Min

\* What restore returns to the loop; it ends the run only on a final answer.
LEMMA RestoredType ==
  ASSUME NEW q \in Seq(Records), NEW rows
  PROVE  LET past == Restored(q, rows) IN
         /\ past.verdict \in {"continue", "corrupt", "blocked", "completed"}
         /\ past.pending \in Seq(Calls) /\ past.answers \in Nat
         /\ past.pending = Replayed(q, rows).pending
         /\ past.verdict = "completed" <=>
              Replayed(q, rows).verdict = "continue" /\ q # <<>> /\ Last(q) = Final
         /\ past.verdict # "completed" => past.verdict = Replayed(q, rows).verdict
<1> DEFINE acc == Replayed(q, rows)
           ends == acc.verdict = "continue" /\ q # <<>> /\ Last(q) = Final
<1>1. acc \in Replays(Calls)
  BY RecordTypes, ReplayType
<1>2. Restored(q, rows) = IF ends THEN [acc EXCEPT !.verdict = "completed"] ELSE acc
  BY DEF Restored
<1>3. [acc EXCEPT !.verdict = "completed"] =
        [verdict |-> "completed", pending |-> acc.pending, answers |-> acc.answers]
  BY <1>1 DEF Replays
<1>4. acc.verdict \in {"continue", "corrupt", "blocked"} /\ acc.pending \in Seq(Calls) /\ acc.answers \in Nat
  BY <1>1 DEF Replays
<1>5. ends => acc.verdict = "continue"
  OBVIOUS
<1> HIDE DEF acc, ends
<1>6. CASE ends
  BY <1>2, <1>3, <1>4, <1>5, <1>6 DEF acc, ends
<1>7. CASE ~ ends
  BY <1>2, <1>4, <1>7 DEF acc, ends
<1> QED
  BY <1>6, <1>7

\* The positions at work are positions of the response.
Places(e) ==
  /\ pc[e] \in {"recover", "calls", "tools"} => batch[e] \subseteq 1 .. Len(said[e])
  /\ pc[e] \in {"calls", "tools", "reject"} => rejects[e] \subseteq 1 .. Len(said[e])
  /\ pc[e] \in {"recover", "tools"} => batch[e] # {}

TypeInv == TypeOK /\ \A e \in Executors : Places(e)

\* The initial values have their types.
LEMMA TypeInvInit == Init => TypeInv
<1>1. <<>> \in Seq(Steers) /\ <<>> \in Seq(Calls) /\ <<>> \in Seq(Records)
  OBVIOUS
<1> QED
  BY <1>1 DEF Init, TypeInv, TypeOK, Places, ExecPcs, RowStates, SteerPcs, StopPcs, Outcomes

\* The steps of the turn and its tools keep the types.
LEMMA TypeInvTurn ==
  ASSUME TypeInv,
         \/ \E r \in Runs : Begin(r) \/ Open(r) \/ Stop(r) \/ Interrupt(r)
                             \/ \E c \in Calls : FinishTool(r, c)
         \/ \E e \in Executors : Start(e) \/ Exit(e)
         \/ \E s \in Steers : Steer(s)
  PROVE  TypeInv'
<1> USE DEF TypeInv, TypeOK, Places, ExecPcs, RowStates, SteerPcs, StopPcs,
            turnVars, storeVars, activeVars, loopVars, execVars, steerVars, stopVars
<1>0. <<>> \in Seq(Steers)
  OBVIOUS
<1>1. ASSUME NEW r \in Runs, Begin(r)
      PROVE  TypeInv'
  BY <1>1 DEF Begin
<1>2. ASSUME NEW r \in Runs, Open(r)
      PROVE  TypeInv'
  BY <1>2 DEF Open
<1>3. ASSUME NEW r \in Runs, Stop(r)
      PROVE  TypeInv'
  BY <1>3 DEF Stop
<1>4. ASSUME NEW r \in Runs, StopClear(r)
      PROVE  TypeInv'
  BY <1>0, <1>4 DEF StopClear
<1>5. ASSUME NEW r \in Runs, StopSignal(r)
      PROVE  TypeInv'
  BY <1>5 DEF StopSignal, Cancel
<1>6. ASSUME NEW r \in Runs, NEW c \in Calls, FinishTool(r, c)
      PROVE  TypeInv'
  BY <1>6 DEF FinishTool
<1>7. ASSUME NEW e \in Executors, Start(e)
      PROVE  TypeInv'
  BY <1>7 DEF Start, Cancel
<1>8. ASSUME NEW e \in Executors, Settle(e)
      PROVE  TypeInv'
  <2>1. CASE pc' = [pc EXCEPT ![e] = "done"] /\ UNCHANGED turn
    BY <1>8, <2>1 DEF Settle
  <2>2. CASE pc' = [pc EXCEPT ![e] = "leave"] /\ turn' = [turn EXCEPT ![RunOf[e]] = "ended"]
    BY <1>8, <2>2 DEF Settle
  <2> QED
    BY <1>8, <2>1, <2>2 DEF Settle
<1>9. ASSUME NEW e \in Executors, Leave(e)
      PROVE  TypeInv'
  BY <1>9 DEF Leave
<1>10. ASSUME NEW e \in Executors, CheckSession(e)
       PROVE  TypeInv'
  BY <1>10 DEF CheckSession
<1>11. ASSUME NEW e \in Executors, ClearInbox(e)
       PROVE  TypeInv'
  BY <1>0, <1>11 DEF ClearInbox
<1>12. ASSUME NEW s \in Steers, SteerLook(s)
       PROVE  TypeInv'
  <2>1. \/ spc' = [spc EXCEPT ![s] = "refused"] /\ UNCHANGED target
        \/ \E r \in Runs : spc' = [spc EXCEPT ![s] = "found"] /\ target' = [target EXCEPT ![s] = r]
    BY <1>12 DEF SteerLook
  <2>2. spc' \in [Steers -> SteerPcs] /\ target' \in [Steers -> Runs \cup {NoOne}]
    BY <2>1
  <2> QED
    BY <1>12, <2>2 DEF SteerLook
<1>13. ASSUME NEW s \in Steers, SteerCheck(s)
       PROVE  TypeInv'
  BY <1>13 DEF SteerCheck
<1>14. ASSUME NEW s \in Steers, SteerAppend(s)
       PROVE  TypeInv'
  <2>1. \A q \in Seq(Records) : Append(q, User(s)) \in Seq(Records)
    BY RecordTypes
  <2> QED
    BY <1>14, <2>1 DEF SteerAppend
<1>15. ASSUME NEW s \in Steers, Enqueue(s)
       PROVE  TypeInv'
  BY <1>15 DEF Enqueue
<1> QED
  BY <1>1, <1>2, <1>3, <1>4, <1>5, <1>6, <1>7, <1>8, <1>9, <1>10, <1>11, <1>12, <1>13, <1>14, <1>15
  DEF Interrupt, Exit, Steer

\* What the loop of an executor works on.
LoopTypes ==
  /\ log \in [Runs -> Seq(Records)] /\ view \in [Executors -> Seq(Records)]
  /\ said \in [Executors -> Seq(Calls)]
  /\ batch \in [Executors -> SUBSET Nat] /\ rejects \in [Executors -> SUBSET Nat]
  /\ iterations \in [Executors -> Nat] /\ disabled \in [Executors -> BOOLEAN]
  /\ inbox \in Seq(Steers) /\ outcome \in [Executors -> Outcomes]

\* The parts of TypeInv by name.
LEMMA TypeInvFacts ==
  ASSUME TypeInv
  PROVE  /\ LoopTypes /\ pc \in [Executors -> ExecPcs] /\ row \in [Runs -> [Calls -> RowStates]]
         /\ \A e \in Executors : Places(e)
  BY DEF TypeInv, TypeOK, LoopTypes

\* One executor that is in its loop moves on.
LEMMA TypeInvMove ==
  ASSUME TypeInv, NEW e \in Executors, NEW p \in ExecPcs, pc' = [pc EXCEPT ![e] = p],
         LoopTypes', UNCHANGED <<turnVars, row, activeVars, steerVars, stopVars>>,
         \A d \in Executors \ {e} : said'[d] = said[d] /\ batch'[d] = batch[d] /\ rejects'[d] = rejects[d],
         Places(e)'
  PROVE  TypeInv'
<1>1. pc' \in [Executors -> ExecPcs] /\ \A d \in Executors \ {e} : pc'[d] = pc[d]
  BY TypeInvFacts
<1>2. TypeOK'
  BY <1>1 DEF TypeInv, TypeOK, LoopTypes, turnVars, activeVars, steerVars, stopVars
<1>3. ASSUME NEW d \in Executors \ {e}
      PROVE  Places(d)'
  BY <1>1, TypeInvFacts DEF Places
<1> QED
  BY <1>2, <1>3 DEF TypeInv

\* restore keeps the types: it leaves pending calls of the last batch.
LEMMA TypeInvRestore ==
  ASSUME TypeInv, NEW e \in Executors, Restore(e)
  PROVE  TypeInv'
<1> DEFINE past == Restored(view[e], row[RunOf[e]])
<1>0. LoopTypes /\ RunOf[e] \in Runs
  BY TypeInvFacts
<1>1. past.verdict \in {"continue", "corrupt", "blocked", "completed"}
      /\ past.pending \in Seq(Calls) /\ past.answers \in Nat
  BY <1>0, RestoredType DEF LoopTypes
<1>2. /\ said' = [said EXCEPT ![e] = past.pending]
      /\ batch' = [batch EXCEPT ![e] = 1 .. Len(past.pending)]
      /\ iterations' = [iterations EXCEPT ![e] = past.answers]
      /\ UNCHANGED <<turnVars, storeVars, inbox, activeVars, view, rejects, steps, disabled,
                     steerVars, stopVars>>
  BY DEF Restore
<1>3. \/ \E how \in {"answer", "corrupt", "blocked"} :
           pc' = [pc EXCEPT ![e] = "settle"] /\ outcome' = [outcome EXCEPT ![e] = how]
      \/ pc' = [pc EXCEPT ![e] = "ask"] /\ UNCHANGED outcome
      \/ past.pending # <<>> /\ pc' = [pc EXCEPT ![e] = "recover"] /\ UNCHANGED outcome
  <2>1. CASE past.verdict = "completed"
    BY <2>1 DEF Restore, Return
  <2>2. CASE past.verdict \in {"corrupt", "blocked"}
    BY <2>2 DEF Restore, Return
  <2>3. CASE past.verdict = "continue"
    BY <2>3 DEF Restore
  <2> QED
    BY <1>1, <2>1, <2>2, <2>3
<1> HIDE DEF past
<1>4. Len(past.pending) \in Nat /\ (past.pending # <<>> => 1 \in 1 .. Len(past.pending))
  BY <1>1
<1>5. 1 .. Len(past.pending) \in SUBSET Nat
  OBVIOUS
<1>6. LoopTypes'
  BY <1>0, <1>1, <1>2, <1>3, <1>5 DEF LoopTypes, storeVars, Outcomes
<1>7. /\ batch'[e] = 1 .. Len(past.pending) /\ said'[e] = past.pending
      /\ \A d \in Executors \ {e} : said'[d] = said[d] /\ batch'[d] = batch[d] /\ rejects'[d] = rejects[d]
  BY <1>0, <1>2 DEF LoopTypes
<1>8. PICK p \in {"settle", "ask", "recover"} :
        pc' = [pc EXCEPT ![e] = p] /\ (p = "recover" => past.pending # <<>>)
  BY <1>3
<1>9. pc'[e] = p
  BY <1>8, TypeInvFacts
<1>10. Places(e)'
  BY <1>4, <1>7, <1>8, <1>9 DEF Places
<1> QED
  BY <1>2, <1>6, <1>7, <1>8, <1>10, TypeInvMove DEF ExecPcs, LoopPcs, storeVars

\* An answer of the provider keeps the types.
LEMMA TypeInvAsk ==
  ASSUME TypeInv, NEW e \in Executors, NEW resp \in Responses, Ask(e, resp)
  PROVE  TypeInv'
<1>0. LoopTypes
  BY TypeInvFacts
<1>1. resp \in Seq(Calls) /\ <<>> \in Seq(Calls) /\ 1 .. Len(resp) \subseteq Nat
  OBVIOUS
<1>2. Executable(Asked(view[e]), resp) \subseteq 1 .. Len(resp)
  BY DEF Executable
<1>3. PICK looping \in BOOLEAN, final \in BOOLEAN :
        /\ disabled' = [disabled EXCEPT ![e] = @ \/ looping]
        /\ view' = [view EXCEPT ![e] = IF looping THEN Append(@, User("notice")) ELSE @]
        /\ said' = [said EXCEPT ![e] = IF final \/ looping THEN <<>> ELSE resp]
        /\ batch' = [batch EXCEPT ![e] = IF final \/ looping THEN {} ELSE Executable(Asked(view[e]), resp)]
        /\ rejects' = [rejects EXCEPT ![e] =
             IF final \/ looping THEN {} ELSE (1 .. Len(resp)) \ Executable(Asked(view[e]), resp)]
        /\ pc' = [pc EXCEPT ![e] = CASE final -> "final" [] looping -> "ask" [] OTHER -> "calls"]
  BY DEF Ask
<1>4. /\ iterations' = [iterations EXCEPT ![e] = @ + 1]
      /\ UNCHANGED <<turnVars, storeVars, inbox, activeVars, outcome, steerVars, stopVars>>
  BY DEF Ask
<1>5. Append(view[e], User("notice")) \in Seq(Records)
  BY <1>0, RecordTypes DEF LoopTypes
<1>6. LoopTypes'
  <2>1. iterations' \in [Executors -> Nat]
    BY <1>0, <1>4 DEF LoopTypes
  <2>2. disabled' \in [Executors -> BOOLEAN]
    BY <1>0, <1>3 DEF LoopTypes
  <2>3. view' \in [Executors -> Seq(Records)]
    BY <1>0, <1>3, <1>5 DEF LoopTypes
  <2>4. said' \in [Executors -> Seq(Calls)]
    BY <1>0, <1>1, <1>3 DEF LoopTypes
  <2>5. batch' \in [Executors -> SUBSET Nat] /\ rejects' \in [Executors -> SUBSET Nat]
    BY <1>0, <1>1, <1>2, <1>3 DEF LoopTypes
  <2> QED
    BY <1>0, <1>4, <2>1, <2>2, <2>3, <2>4, <2>5 DEF LoopTypes, storeVars
<1>7. PICK p \in {"final", "ask", "calls"} :
        pc' = [pc EXCEPT ![e] = p] /\ (p = "calls" => ~ final /\ ~ looping)
  <2>1. CASE final
    BY <1>3, <2>1
  <2>2. CASE ~final /\ looping
    BY <1>3, <2>2
  <2>3. CASE ~final /\ ~looping
    BY <1>3, <2>3
  <2> QED
    BY <2>1, <2>2, <2>3
<1>8. pc'[e] = p
  BY <1>7, TypeInvFacts
<1>9. Places(e)'
  <2>1. CASE p = "calls"
    <3>1. said'[e] = resp /\ batch'[e] = Executable(Asked(view[e]), resp)
          /\ rejects'[e] = (1 .. Len(resp)) \ Executable(Asked(view[e]), resp)
      BY <1>0, <1>3, <1>7, <2>1 DEF LoopTypes
    <3> QED
      BY <1>2, <1>8, <2>1, <3>1 DEF Places
  <2>2. CASE p # "calls"
    BY <1>8, <2>2 DEF Places
  <2> QED
    BY <2>1, <2>2
<1>10. \A d \in Executors \ {e} : said'[d] = said[d] /\ batch'[d] = batch[d] /\ rejects'[d] = rejects[d]
  BY <1>0, <1>3 DEF LoopTypes
<1> QED
  BY <1>4, <1>6, <1>7, <1>9, <1>10, TypeInvMove DEF ExecPcs, LoopPcs, storeVars

\* The results of calls.
LEMMA TypeInvResult ==
  ASSUME TypeInv, NEW e \in Executors, Recover(e) \/ AppendResult(e) \/ AppendRejected(e)
  PROVE  TypeInv'
<1>0. LoopTypes /\ Places(e) /\ RunOf[e] \in Runs /\ pc \in [Executors -> ExecPcs]
      /\ said[e] \in Seq(Calls) /\ batch[e] \in SUBSET Nat /\ rejects[e] \in SUBSET Nat
  BY TypeInvFacts DEF LoopTypes
<1>1. ASSUME NEW c \in Calls, NEW ok \in BOOLEAN, NEW q \in Seq(Records)
      PROVE  Append(q, Result(c, ok)) \in Seq(Records)
  BY RecordTypes
<1>2. CASE Recover(e)
  <2> DEFINE i == Min(batch[e])
             c == said[e][i]
  <2>1. pc[e] = "recover" /\ batch[e] # {} /\ batch[e] \subseteq 1 .. Len(said[e])
    BY <1>0, <1>2 DEF Recover, Places
  <2>2. i \in batch[e] /\ c \in Calls
    BY <1>0, <2>1, FirstPosition
  <2> HIDE DEF i, c
  <2>3. \/ \E how \in {"blocked", "duplicate"} : Return(e, how) /\ UNCHANGED <<log, batch>>
        \/ /\ log' = [log EXCEPT ![RunOf[e]] = Append(@, Result(c, TRUE))]
           /\ batch' = [batch EXCEPT ![e] = @ \ {i}]
           /\ pc' = [pc EXCEPT ![e] = IF batch[e] = {i} THEN "ask" ELSE @]
           /\ UNCHANGED outcome
    BY <1>2 DEF Recover, i, c
  <2>4. UNCHANGED <<turnVars, row, inbox, activeVars, view, said, rejects, iterations, steps, disabled,
                    steerVars, stopVars>>
    BY <1>2 DEF Recover
  <2>5. CASE \E how \in {"blocked", "duplicate"} : Return(e, how) /\ UNCHANGED <<log, batch>>
    <3>1. LoopTypes' /\ pc' = [pc EXCEPT ![e] = "settle"]
      BY <1>0, <2>4, <2>5 DEF LoopTypes, Return, Outcomes
    <3>2. Places(e)'
      BY <1>0, <3>1 DEF Places
    <3> QED
      BY <2>4, <2>5, <3>1, <3>2, TypeInvMove DEF ExecPcs
  <2>6. CASE /\ log' = [log EXCEPT ![RunOf[e]] = Append(@, Result(c, TRUE))]
             /\ batch' = [batch EXCEPT ![e] = @ \ {i}]
             /\ pc' = [pc EXCEPT ![e] = IF batch[e] = {i} THEN "ask" ELSE @]
             /\ UNCHANGED outcome
    <3>1. LoopTypes'
      BY <1>0, <1>1, <2>2, <2>4, <2>6 DEF LoopTypes
    <3>2. PICK p \in {"ask", "recover"} : pc' = [pc EXCEPT ![e] = p] /\ (p = "recover" => batch[e] # {i})
      BY <2>1, <2>6
    <3>3. pc'[e] = p /\ batch'[e] = batch[e] \ {i} /\ said' = said
          /\ \A d \in Executors \ {e} : batch'[d] = batch[d]
      BY <1>0, <2>4, <2>6, <3>2 DEF LoopTypes
    <3>4. Places(e)'
      BY <2>1, <2>2, <3>2, <3>3 DEF Places
    <3> QED
      BY <2>4, <3>1, <3>2, <3>3, <3>4, TypeInvMove DEF ExecPcs, LoopPcs
  <2> QED
    BY <2>3, <2>5, <2>6
<1>3. CASE AppendResult(e)
  <2> DEFINE i == Min(batch[e])
             c == said[e][i]
             ok == row[RunOf[e]][c] = "succeeded"
  <2>1. pc[e] = "tools" /\ batch[e] # {} /\ batch[e] \subseteq 1 .. Len(said[e])
        /\ rejects[e] \subseteq 1 .. Len(said[e])
    BY <1>0, <1>3 DEF AppendResult, Places
  <2>2. i \in batch[e] /\ c \in Calls /\ ok \in BOOLEAN
    BY <1>0, <2>1, FirstPosition
  <2>3. /\ log' = [log EXCEPT ![RunOf[e]] = Append(@, Result(c, ok))]
        /\ view' = [view EXCEPT ![e] = Append(@, Result(c, ok))]
        /\ batch' = [batch EXCEPT ![e] = @ \ {i}]
        /\ pc' = [pc EXCEPT ![e] = IF batch[e] = {i} THEN "reject" ELSE @]
        /\ UNCHANGED <<turnVars, row, inbox, activeVars, outcome, said, rejects, iterations, steps,
                       disabled, steerVars, stopVars>>
    BY <1>3 DEF AppendResult
  <2> HIDE DEF i, c, ok
  <2>4. LoopTypes'
    <3>1. log' \in [Runs -> Seq(Records)] /\ view' \in [Executors -> Seq(Records)]
      BY <1>0, <1>1, <2>2, <2>3 DEF LoopTypes
    <3>2. batch' \in [Executors -> SUBSET Nat]
      BY <1>0, <2>3 DEF LoopTypes
    <3> QED
      BY <1>0, <2>3, <3>1, <3>2 DEF LoopTypes
  <2>5. PICK p \in {"reject", "tools"} : pc' = [pc EXCEPT ![e] = p] /\ (p = "tools" => batch[e] # {i})
    BY <2>1, <2>3
  <2>6. pc'[e] = p /\ batch'[e] = batch[e] \ {i} /\ said' = said /\ rejects' = rejects
        /\ \A d \in Executors \ {e} : batch'[d] = batch[d]
    BY <1>0, <2>3, <2>5 DEF LoopTypes
  <2>7. Places(e)'
    BY <2>1, <2>2, <2>5, <2>6 DEF Places
  <2> QED
    BY <2>3, <2>4, <2>5, <2>6, <2>7, TypeInvMove DEF ExecPcs, LoopPcs
<1>4. CASE AppendRejected(e)
  <2> DEFINE i == Min(rejects[e])
             c == said[e][i]
  <2>1. pc[e] = "reject" /\ rejects[e] # {} /\ rejects[e] \subseteq 1 .. Len(said[e])
    BY <1>0, <1>4 DEF AppendRejected, Places
  <2>2. i \in rejects[e] /\ c \in Calls
    BY <1>0, <2>1, FirstPosition
  <2>3. \/ Return(e, "duplicate") /\ UNCHANGED <<log, view, rejects>>
        \/ /\ log' = [log EXCEPT ![RunOf[e]] = Append(@, Result(c, FALSE))]
           /\ view' = [view EXCEPT ![e] = Append(@, Result(c, FALSE))]
           /\ rejects' = [rejects EXCEPT ![e] = @ \ {i}]
           /\ UNCHANGED <<pc, outcome>>
    BY <1>4 DEF AppendRejected
  <2>4. UNCHANGED <<turnVars, row, inbox, activeVars, said, batch, iterations, steps, disabled,
                    steerVars, stopVars>>
    BY <1>4 DEF AppendRejected
  <2> HIDE DEF i, c
  <2>5. CASE Return(e, "duplicate") /\ UNCHANGED <<log, view, rejects>>
    <3>1. LoopTypes' /\ pc' = [pc EXCEPT ![e] = "settle"]
      BY <1>0, <2>4, <2>5 DEF LoopTypes, Return, Outcomes
    <3>2. Places(e)'
      BY <1>0, <3>1 DEF Places
    <3> QED
      BY <2>4, <2>5, <3>1, <3>2, TypeInvMove DEF ExecPcs
  <2>6. CASE /\ log' = [log EXCEPT ![RunOf[e]] = Append(@, Result(c, FALSE))]
             /\ view' = [view EXCEPT ![e] = Append(@, Result(c, FALSE))]
             /\ rejects' = [rejects EXCEPT ![e] = @ \ {i}]
             /\ UNCHANGED <<pc, outcome>>
    <3>1. LoopTypes'
      <4>1. log' \in [Runs -> Seq(Records)] /\ view' \in [Executors -> Seq(Records)]
        BY <1>0, <1>1, <2>2, <2>6 DEF LoopTypes
      <4>2. rejects' \in [Executors -> SUBSET Nat]
        BY <1>0, <2>6 DEF LoopTypes
      <4> QED
        BY <1>0, <2>4, <2>6, <4>1, <4>2 DEF LoopTypes
    <3>2. pc' = [pc EXCEPT ![e] = "reject"] /\ pc'[e] = "reject"
      BY <1>0, <2>1, <2>6
    <3>3. rejects'[e] = rejects[e] \ {i} /\ \A d \in Executors \ {e} : rejects'[d] = rejects[d]
      BY <1>0, <2>6 DEF LoopTypes
    <3>4. Places(e)'
      BY <2>1, <2>4, <3>2, <3>3 DEF Places
    <3> QED
      BY <2>4, <3>1, <3>2, <3>3, <3>4, TypeInvMove DEF ExecPcs, LoopPcs
  <2> QED
    BY <2>3, <2>5, <2>6
<1> QED
  BY <1>2, <1>3, <1>4

\* Every step of an executor keeps the types.
LEMMA TypeInvLoop ==
  ASSUME TypeInv, NEW e \in Executors, Loop(e)
  PROVE  TypeInv'
<1> USE DEF Return
<1>0. LoopTypes /\ Places(e) /\ RunOf[e] \in Runs /\ pc \in [Executors -> ExecPcs]
  BY TypeInvFacts
<1>1. ASSUME NEW p \in ExecPcs \ {"recover", "calls", "tools", "reject"},
             pc' = [pc EXCEPT ![e] = p], UNCHANGED <<said, batch, rejects>>, LoopTypes',
             UNCHANGED <<turnVars, row, activeVars, steerVars, stopVars>>
      PROVE  TypeInv'
  <2>1. Places(e)'
    BY <1>0, <1>1 DEF Places
  <2> QED
    BY <1>1, <2>1, TypeInvMove
<1> USE DEF loopVars, storeVars
<1>2. CASE Prepare(e)
  <2>1. CASE Return(e, "conflict") /\ UNCHANGED <<log, view>>
    <3>1. LoopTypes'
      BY <1>0, <1>2, <2>1 DEF Prepare, LoopTypes, Outcomes
    <3> QED
      BY <1>1, <1>2, <2>1, <3>1 DEF Prepare, ExecPcs
  <2>2. CASE /\ log' = [log EXCEPT ![RunOf[e]] = IF @ = <<>> THEN <<Prompt>> ELSE @]
             /\ view' = [view EXCEPT ![e] = log'[RunOf[e]]]
             /\ pc' = [pc EXCEPT ![e] = "restore"] /\ UNCHANGED outcome
    <3>1. <<Prompt>> \in Seq(Records)
      BY RecordTypes
    <3>2. log' \in [Runs -> Seq(Records)] /\ log'[RunOf[e]] \in Seq(Records)
      BY <1>0, <2>2, <3>1 DEF LoopTypes
    <3>3. view' \in [Executors -> Seq(Records)]
      BY <1>0, <2>2, <3>2 DEF LoopTypes
    <3>4. LoopTypes'
      BY <1>0, <1>2, <2>2, <3>2, <3>3 DEF Prepare, LoopTypes
    <3> QED
      BY <1>1, <1>2, <2>2, <3>4 DEF Prepare, ExecPcs
  <2> QED
    BY <1>2, <2>1, <2>2 DEF Prepare
<1>3. ASSUME NEW resp \in Responses, Ask(e, resp)
      PROVE  TypeInv'
  BY <1>3, TypeInvAsk
<1>4. CASE FailLoop(e)
  <2>1. LoopTypes'
    BY <1>0, <1>4 DEF FailLoop, LoopTypes, Outcomes
  <2> QED
    BY <1>1, <1>4, <2>1 DEF FailLoop, ExecPcs
<1>5. CASE AppendFinal(e)
  <2>1. \A q \in Seq(Records) : Append(q, Final) \in Seq(Records)
    BY RecordTypes
  <2>2. log' \in [Runs -> Seq(Records)] /\ view' \in [Executors -> Seq(Records)]
    BY <1>0, <1>5, <2>1 DEF AppendFinal, LoopTypes
  <2>3. outcome' \in [Executors -> Outcomes]
    BY <1>0, <1>5 DEF AppendFinal, LoopTypes, Outcomes
  <2>4. LoopTypes'
    BY <1>0, <1>5, <2>2, <2>3 DEF AppendFinal, LoopTypes
  <2>5. \E p \in {"claimFinal", "settle"} : pc' = [pc EXCEPT ![e] = p]
    BY <1>5 DEF AppendFinal
  <2> QED
    BY <1>1, <1>5, <2>4, <2>5 DEF AppendFinal, ExecPcs, LoopPcs
<1>6. CASE AppendCalls(e)
  <2>1. \A q \in Seq(Records) : Append(q, Assistant(said[e])) \in Seq(Records)
    BY <1>0, RecordTypes DEF LoopTypes
  <2>2. log' \in [Runs -> Seq(Records)] /\ view' \in [Executors -> Seq(Records)]
    BY <1>0, <1>6, <2>1 DEF AppendCalls, LoopTypes
  <2>3. outcome' \in [Executors -> Outcomes]
    BY <1>0, <1>6 DEF AppendCalls, LoopTypes, Outcomes
  <2>4. LoopTypes'
    BY <1>0, <1>6, <2>2, <2>3 DEF AppendCalls, LoopTypes
  <2>5. PICK p \in {"tools", "reject", "settle"} :
          pc' = [pc EXCEPT ![e] = p] /\ (p = "tools" => batch[e] # {})
    BY <1>6 DEF AppendCalls
  <2>6. pc'[e] = p /\ pc[e] = "calls" /\ UNCHANGED <<said, batch, rejects>>
    BY <1>0, <1>6, <2>5 DEF AppendCalls
  <2>7. Places(e)'
    BY <1>0, <2>5, <2>6 DEF Places
  <2> QED
    BY <1>6, <2>4, <2>5, <2>6, <2>7, TypeInvMove DEF AppendCalls, ExecPcs, LoopPcs
<1>7. ASSUME NEW i \in batch[e], StartTool(e, i)
      PROVE  TypeInv'
  <2>1. pc' \in [Executors -> ExecPcs] /\ \A d \in Executors : pc'[d] = pc[d] \/ pc'[d] = "started"
    BY <1>0, <1>7 DEF StartTool, ExecPcs
  <2>2. row' \in [Runs -> [Calls -> RowStates]]
    BY <1>7, TypeInvFacts DEF StartTool, RowStates
  <2>3. UNCHANGED <<turnVars, log, inbox, activeVars, view, outcome, said, batch, rejects, iterations,
                    steps, disabled, steerVars, stopVars>>
    BY <1>7 DEF StartTool
  <2>4. TypeOK'
    BY <2>1, <2>2, <2>3 DEF TypeInv, TypeOK, turnVars, activeVars, steerVars, stopVars
  <2>5. \A d \in Executors : Places(d)'
    BY <2>1, <2>3, TypeInvFacts DEF Places
  <2> QED
    BY <2>4, <2>5 DEF TypeInv
<1>8. CASE EndStep(e)
  <2>1. LoopTypes'
    BY <1>0, <1>8 DEF EndStep, LoopTypes
  <2> QED
    BY <1>1, <1>8, <2>1 DEF EndStep, ExecPcs, LoopPcs
<1>9. ASSUME Claim(e)
      PROVE  inbox' \in Seq(Steers) /\ view' \in [Executors -> Seq(Records)]
  <2>1. [i \in 1 .. Len(inbox) |-> User(inbox[i])] \in Seq(Records)
    BY <1>0, RecordTypes DEF LoopTypes
  <2>2. view[e] \o [i \in 1 .. Len(inbox) |-> User(inbox[i])] \in Seq(Records)
    BY <1>0, <2>1 DEF LoopTypes
  <2>3. <<>> \in Seq(Steers)
    OBVIOUS
  <2> QED
    BY <1>0, <1>9, <2>2, <2>3 DEF Claim, LoopTypes
<1>10. CASE ClaimStep(e)
  <2>1. LoopTypes'
    BY <1>0, <1>9, <1>10 DEF ClaimStep, LoopTypes
  <2> QED
    BY <1>1, <1>10, <2>1 DEF ClaimStep, ExecPcs, LoopPcs
<1>11. CASE ClaimFinal(e)
  <2>1. outcome' \in [Executors -> Outcomes]
    BY <1>0, <1>11 DEF ClaimFinal, LoopTypes, Outcomes
  <2>2. LoopTypes'
    BY <1>0, <1>9, <1>11, <2>1 DEF ClaimFinal, LoopTypes
  <2>3. \E p \in {"ask", "settle"} : pc' = [pc EXCEPT ![e] = p]
    BY <1>11 DEF ClaimFinal
  <2> QED
    BY <1>1, <1>11, <2>2, <2>3 DEF ClaimFinal, ExecPcs, LoopPcs
<1>12. CASE Notice(e)
  <2>1. LoopTypes'
    BY <1>0, <1>12 DEF Notice, LoopTypes, Outcomes
  <2> QED
    BY <1>1, <1>12, <2>1 DEF Notice, ExecPcs
<1> QED
  BY <1>2, <1>3, <1>4, <1>5, <1>6, <1>7, <1>8, <1>10, <1>11, <1>12, TypeInvRestore, TypeInvResult DEF Loop

\* Every step keeps the types.
LEMMA TypeInvNext == TypeInv /\ [Next]_vars => TypeInv'
<1> SUFFICES ASSUME TypeInv, [Next]_vars PROVE TypeInv'
  OBVIOUS
<1>1. CASE UNCHANGED vars
  BY <1>1 DEF TypeInv, TypeOK, Places, vars,
              turnVars, storeVars, activeVars, loopVars, execVars, steerVars, stopVars
<1>2. CASE Next
  BY <1>2, TypeInvTurn, TypeInvLoop DEF Next
<1> QED
  BY <1>1, <1>2

\* Every variable keeps its type, for any runs, executors, steers and responses.
THEOREM TypeCorrect == Spec => []TypeOK
<1>1. TypeInv => TypeOK
  BY DEF TypeInv
<1> QED
  BY <1>1, TypeInvInit, TypeInvNext, PTL DEF Spec

-----------------------------------------------------------------------------
(* An answer comes last.                                                   *)

\* What the loop of one executor leaves of another one; it may start a sub-agent.
LEMMA LoopIsLocal ==
  ASSUME TypeInv, NEW e \in Executors, Loop(e), NEW d \in Executors \ {e}
  PROVE  /\ view'[d] = view[d] /\ outcome'[d] = outcome[d] /\ iterations'[d] = iterations[d]
         /\ said'[d] = said[d] /\ batch'[d] = batch[d] /\ rejects'[d] = rejects[d]
         /\ \/ pc'[d] = pc[d]
            \/ pc'[d] = "started" /\ d \in Children /\ (StepInv => pc[d] = "idle")
<1> DEFINE Kept == /\ view'[d] = view[d] /\ outcome'[d] = outcome[d] /\ iterations'[d] = iterations[d]
                   /\ said'[d] = said[d] /\ batch'[d] = batch[d] /\ rejects'[d] = rejects[d]
<1>0. LoopTypes /\ pc \in [Executors -> ExecPcs] /\ Places(e)
  BY TypeInvFacts
<1> USE <1>0 DEF LoopTypes, Return, loopVars, storeVars
<1>1. CASE Prepare(e)
  BY <1>1 DEF Prepare
<1>2. CASE Restore(e)
  <2>1. Kept
    BY <1>2 DEF Restore
  <2>2. \E p : pc' = [pc EXCEPT ![e] = p]
    BY <1>2 DEF Restore
  <2> QED
    BY <2>1, <2>2
<1>3. CASE Recover(e)
  <2>1. Kept
    BY <1>3 DEF Recover
  <2>2. \E p : pc' = [pc EXCEPT ![e] = p]
    BY <1>3 DEF Recover
  <2> QED
    BY <2>1, <2>2
<1>4. ASSUME NEW resp \in Responses, Ask(e, resp)
      PROVE  Kept /\ pc'[d] = pc[d]
  BY <1>4 DEF Ask
<1>5. CASE FailLoop(e)
  BY <1>5 DEF FailLoop
<1>6. CASE AppendFinal(e)
  BY <1>6 DEF AppendFinal
<1>7. CASE AppendCalls(e)
  BY <1>7 DEF AppendCalls
<1>8. ASSUME NEW i \in batch[e], StartTool(e, i)
      PROVE  Kept /\ (pc'[d] = pc[d] \/ (pc'[d] = "started" /\ d \in Children /\ (StepInv => pc[d] = "idle")))
  <2> DEFINE r == RunOf[e]
             c == said[e][i]
  <2>1. /\ pc[e] = "tools" /\ row[r][c] = "none"
        /\ pc' = [x \in Executors |-> IF x = ChildOf[<<r, c>>] THEN "started" ELSE pc[x]]
    BY <1>8 DEF StartTool
  <2>2. r \in Runs /\ c \in Calls
    BY <2>1 DEF Places
  <2> HIDE DEF r, c
  <2>3. d = ChildOf[<<r, c>>] => d \in Children /\ (StepInv => pc[d] = "idle")
    BY <2>1, <2>2, ChildType DEF StepInv, RunsInCall
  <2>4. Kept
    BY <1>8 DEF StartTool
  <2> QED
    BY <2>1, <2>3, <2>4
<1>9. CASE AppendResult(e)
  BY <1>9 DEF AppendResult
<1>10. CASE AppendRejected(e)
  BY <1>10 DEF AppendRejected
<1>11. CASE EndStep(e)
  BY <1>11 DEF EndStep
<1>12. CASE ClaimStep(e)
  BY <1>12 DEF ClaimStep, Claim
<1>13. CASE ClaimFinal(e)
  BY <1>13 DEF ClaimFinal, Claim
<1>14. CASE Notice(e)
  BY <1>14 DEF Notice
<1> HIDE DEF Kept
<1>15. Kept /\ (pc'[d] = pc[d] \/ (pc'[d] = "started" /\ d \in Children /\ (StepInv => pc[d] = "idle")))
  BY <1>1, <1>2, <1>3, <1>4, <1>5, <1>6, <1>7, <1>8, <1>9, <1>10, <1>11, <1>12, <1>13, <1>14
  DEF Loop, Kept
<1> QED
  BY <1>15 DEF Kept

\* Outside of its loop an executor only comes and goes.
LEMMA TurnIsLocal ==
  ASSUME TypeInv,
         \/ \E r \in Runs : Begin(r) \/ Open(r) \/ Stop(r) \/ Interrupt(r)
                             \/ \E c \in Calls : FinishTool(r, c)
         \/ \E e \in Executors : Start(e) \/ Exit(e)
         \/ \E s \in Steers : Steer(s),
         NEW d \in Executors
  PROVE  /\ UNCHANGED <<view, outcome, loopVars>>
         /\ \/ pc'[d] = pc[d]
            \/ pc[d] = "idle" /\ pc'[d] = "started" /\ d \notin Children
            \/ pc[d] \in {"settle", "leave", "left", "clear"} /\ pc'[d] \in {"leave", "left", "clear", "done"}
<1> DEFINE Goal ==
      /\ UNCHANGED <<view, outcome, loopVars>>
      /\ \/ pc'[d] = pc[d]
         \/ pc[d] = "idle" /\ pc'[d] = "started" /\ d \notin Children
         \/ pc[d] \in {"settle", "leave", "left", "clear"} /\ pc'[d] \in {"leave", "left", "clear", "done"}
<1>0. pc \in [Executors -> ExecPcs]
  BY TypeInvFacts
<1>1. ASSUME NEW r \in Runs, Begin(r) \/ Open(r) \/ Stop(r) \/ Interrupt(r)
                               \/ \E c \in Calls : FinishTool(r, c)
      PROVE  Goal
  BY <1>1 DEF Begin, Open, Stop, Interrupt, StopClear, StopSignal, FinishTool, execVars
<1>2. ASSUME NEW e \in Executors, Start(e)
      PROVE  Goal
  BY <1>0, <1>2 DEF Start
<1>3. ASSUME NEW e \in Executors, Exit(e)
      PROVE  Goal
  BY <1>0, <1>3 DEF Exit, Settle, Leave, CheckSession, ClearInbox
<1>4. ASSUME NEW s \in Steers, Steer(s)
      PROVE  Goal
  BY <1>4 DEF Steer, SteerLook, SteerCheck, SteerAppend, Enqueue, execVars
<1> HIDE DEF Goal
<1>5. Goal
  BY <1>1, <1>2, <1>3, <1>4
<1> QED
  BY <1>5 DEF Goal

\* An executor has an answer only if the last record it saw is final.
Answers(e) ==
  /\ pc[e] \in {"idle", "started", "restore", "recover"} \cup LoopPcs => outcome[e] = "none"
  /\ pc[e] = "claimFinal" => Last(view[e]) = Final
  /\ outcome[e] = "answer" => Capped(e) \/ Last(view[e]) = Final

AnswerInv == \A e \in Executors : Answers(e)

\* An executor that has claimed for the last time keeps its answer last.
LEMMA AnswerInvLoop ==
  ASSUME TypeInv, NEW e \in Executors, Answers(e), Loop(e)
  PROVE  Answers(e)'
<1>0. LoopTypes /\ pc \in [Executors -> ExecPcs] /\ pc[e] \in ExecPcs
  BY TypeInvFacts
<1> USE <1>0 DEF LoopTypes, LoopPcs, Answers, Capped
<1>1. ASSUME NEW how \in Outcomes \ {"answer"}, Return(e, how)
      PROVE  Answers(e)'
  BY <1>1 DEF Return
<1>2. ASSUME NEW p \in ExecPcs \ {"claimFinal"}, pc' = [pc EXCEPT ![e] = p], UNCHANGED outcome,
             outcome[e] = "none"
      PROVE  Answers(e)'
  BY <1>2
<1> USE DEF ExecPcs, Outcomes
<1>3. CASE Prepare(e)
  BY <1>1, <1>2, <1>3 DEF Prepare
<1>4. CASE Restore(e)
  <2> DEFINE past == Restored(view[e], row[RunOf[e]])
  <2>1. /\ past.verdict \in {"continue", "corrupt", "blocked", "completed"}
        /\ past.verdict = "completed" => Last(view[e]) = Final
    BY RestoredType
  <2>2. CASE past.verdict = "completed"
    <3>1. Return(e, "answer") /\ UNCHANGED view
      BY <1>4, <2>2 DEF Restore
    <3> HIDE DEF past
    <3> QED
      BY <2>1, <2>2, <3>1 DEF Return
  <2>3. CASE past.verdict \in {"corrupt", "blocked"}
    <3>1. \E how \in {"corrupt", "blocked"} : Return(e, how)
      BY <1>4, <2>3 DEF Restore
    <3> QED
      BY <1>1, <3>1
  <2>4. CASE past.verdict = "continue"
    <3>1. UNCHANGED outcome /\ pc[e] = "restore" /\ \E p \in {"ask", "recover"} : pc' = [pc EXCEPT ![e] = p]
      BY <1>4, <2>4 DEF Restore
    <3> QED
      BY <1>2, <3>1
  <2> QED
    BY <2>1, <2>2, <2>3, <2>4
<1>5. CASE Recover(e)
  <2>1. \/ \E how \in {"blocked", "duplicate"} : Return(e, how)
        \/ UNCHANGED outcome /\ pc[e] = "recover" /\ \E p \in {"ask", "recover"} : pc' = [pc EXCEPT ![e] = p]
    BY <1>5 DEF Recover
  <2> QED
    BY <1>1, <1>2, <2>1
<1>6. ASSUME NEW resp \in Responses, Ask(e, resp)
      PROVE  Answers(e)'
  <2>1. UNCHANGED outcome /\ pc[e] = "ask" /\ \E p \in {"final", "ask", "calls"} : pc' = [pc EXCEPT ![e] = p]
    BY <1>6 DEF Ask
  <2> QED
    BY <1>2, <2>1
<1>7. CASE FailLoop(e)
  BY <1>1, <1>7 DEF FailLoop
<1>8. CASE AppendFinal(e)
  <2>1. view'[e] = Append(view[e], Final) /\ Last(view'[e]) = Final
    <3>1. view'[e] = Append(view[e], Final)
      BY <1>8 DEF AppendFinal
    <3>2. Sequence(view[e])
      BY DEF Sequence
    <3> QED
      BY <3>1, <3>2, LastAppend
  <2>2. CASE pc' = [pc EXCEPT ![e] = "claimFinal"] /\ UNCHANGED outcome
    BY <1>8, <2>1, <2>2 DEF AppendFinal
  <2> QED
    BY <1>1, <1>8, <2>2 DEF AppendFinal
<1>9. CASE AppendCalls(e)
  <2>1. \/ Return(e, "error")
        \/ UNCHANGED outcome /\ pc[e] = "calls" /\ \E p \in {"tools", "reject"} : pc' = [pc EXCEPT ![e] = p]
    BY <1>9 DEF AppendCalls
  <2> QED
    BY <1>1, <1>2, <2>1
<1>10. ASSUME NEW i \in batch[e], StartTool(e, i)
       PROVE  Answers(e)'
  <2>1. UNCHANGED <<outcome, view, iterations>> /\ (pc'[e] = pc[e] \/ pc'[e] = "started") /\ pc[e] = "tools"
    BY <1>10 DEF StartTool, loopVars
  <2> QED
    BY <2>1
<1>11. CASE AppendResult(e)
  <2>1. UNCHANGED outcome /\ pc[e] = "tools" /\ \E p \in {"tools", "reject"} : pc' = [pc EXCEPT ![e] = p]
    BY <1>11 DEF AppendResult
  <2> QED
    BY <1>2, <2>1
<1>12. CASE AppendRejected(e)
  <2>1. \/ Return(e, "duplicate")
        \/ UNCHANGED <<pc, outcome>> /\ pc[e] = "reject"
    BY <1>12 DEF AppendRejected
  <2>2. CASE UNCHANGED <<pc, outcome>> /\ pc[e] = "reject"
    BY <2>2
  <2> QED
    BY <1>1, <2>1, <2>2
<1>13. CASE EndStep(e)
  BY <1>2, <1>13 DEF EndStep
<1>14. CASE ClaimStep(e)
  BY <1>2, <1>14 DEF ClaimStep
<1>15. CASE ClaimFinal(e)
  <2>1. CASE inbox # <<>> /\ ~Capped(e)
    <3>1. UNCHANGED outcome /\ pc[e] = "claimFinal" /\ pc' = [pc EXCEPT ![e] = "ask"]
      BY <1>15, <2>1 DEF ClaimFinal
    <3> QED
      BY <1>2, <3>1
  <2>2. CASE ~ (inbox # <<>> /\ ~Capped(e))
    <3>1. Return(e, "answer") /\ UNCHANGED iterations /\ pc[e] = "claimFinal"
      BY <1>15, <2>2 DEF ClaimFinal, loopVars
    <3>2. CASE inbox = <<>>
      <4>1. view'[e] = view[e] \o [i \in 1 .. Len(inbox) |-> User(inbox[i])]
        BY <1>15 DEF ClaimFinal, Claim
      <4>2. [i \in 1 .. Len(inbox) |-> User(inbox[i])] = <<>>
        BY <3>2
      <4>3. view[e] \o <<>> = view[e]
        OBVIOUS
      <4> QED
        BY <3>1, <4>1, <4>2, <4>3 DEF Return
    <3>3. CASE Capped(e)
      BY <3>1, <3>3 DEF Return
    <3> QED
      BY <2>2, <3>2, <3>3
  <2> QED
    BY <2>1, <2>2
<1>16. CASE Notice(e)
  BY <1>1, <1>16 DEF Notice
<1> HIDE DEF Answers
<1> QED
  BY <1>3, <1>4, <1>5, <1>6, <1>7, <1>8, <1>9, <1>10, <1>11, <1>12, <1>13, <1>14, <1>15, <1>16 DEF Loop

\* Every step keeps the answer last while its last claim is pending.
LEMMA AnswerInvNext ==
  ASSUME TypeInv, StepInv, AnswerInv, [Next]_vars
  PROVE  AnswerInv'
<1> SUFFICES ASSUME NEW d \in Executors PROVE Answers(d)'
  BY DEF AnswerInv
<1>0. Answers(d)
  BY DEF AnswerInv
<1>1. CASE UNCHANGED vars
  BY <1>0, <1>1 DEF vars, execVars, loopVars, Answers, Capped
<1>2. ASSUME NEW e \in Executors, Loop(e)
      PROVE  Answers(d)'
  <2>1. CASE d = e
    BY <1>0, <1>2, <2>1, AnswerInvLoop
  <2>2. CASE d # e
    <3>1. /\ view'[d] = view[d] /\ outcome'[d] = outcome[d] /\ iterations'[d] = iterations[d]
          /\ pc'[d] = pc[d] \/ (pc[d] = "idle" /\ pc'[d] = "started")
      BY <1>2, <2>2, LoopIsLocal
    <3> QED
      BY <1>0, <3>1 DEF Answers, Capped
  <2> QED
    BY <2>1, <2>2
<1>3. ASSUME \/ \E r \in Runs : Begin(r) \/ Open(r) \/ Stop(r) \/ Interrupt(r)
                                 \/ \E c \in Calls : FinishTool(r, c)
             \/ \E e \in Executors : Start(e) \/ Exit(e)
             \/ \E s \in Steers : Steer(s)
      PROVE  Answers(d)'
  <2>1. /\ UNCHANGED <<view, outcome, loopVars>>
        /\ \/ pc'[d] = pc[d]
           \/ pc[d] = "idle" /\ pc'[d] = "started"
           \/ pc'[d] \in {"leave", "left", "clear", "done"}
    BY <1>3, TurnIsLocal
  <2> QED
    BY <1>0, <2>1 DEF Answers, Capped, loopVars, LoopPcs
<1>4. CASE Next
  BY <1>2, <1>3, <1>4 DEF Next
<1> QED
  BY <1>1, <1>4

\* When no run is executed twice, whoever returns an answer before the cap has
\* seen nothing after it: no steer is claimed and forgotten.
THEOREM AnswerIsLast == (OneExecutorPerRun /\ OneParent) => (Spec => []AnswerComesLast)
<1> SUFFICES ASSUME OneExecutorPerRun, OneParent PROVE Spec => []AnswerComesLast
  OBVIOUS
<1>1. AnswerInv => AnswerComesLast
  BY DEF AnswerInv, Answers, AnswerComesLast
<1>2. Init => AnswerInv
  BY DEF Init, AnswerInv, Answers
<1>3. StepInv /\ [Next]_vars => StepInv'
  BY StepInvNext
<1> QED
  BY <1>1, <1>2, <1>3, StepInvInit, TypeInvInit, TypeInvNext, AnswerInvNext, PTL DEF Spec

-----------------------------------------------------------------------------
(* A steer is shown once.                                                  *)

\* The places where a steer is shown.
Shown(s) ==
  { x \in Executors \X Nat : x[2] \in 1 .. Len(view[x[1]]) /\ view[x[1]][x[2]] = User(s) }

\* A steer is queued once or shown once, and not before it is accepted.
Once(s) ==
  /\ \A x, y \in Shown(s) : x = y
  /\ Shown(s) # {} => s \notin ToSet(inbox) /\ spc[s] = "acked"
  /\ \A i, j \in 1 .. Len(inbox) : (inbox[i] = s /\ inbox[j] = s) => i = j
  /\ s \in ToSet(inbox) => spc[s] = "acked"

\* An executor that has not read its log yet finds no prompt in it.
Fresh(e) ==
  pc[e] \in {"idle", "started"} => log[RunOf[e]] = <<>> \/ Head(log[RunOf[e]]) # Prompt

OnceInv == (\A s \in Steers : Once(s)) /\ (\A e \in Executors : Fresh(e))

\* What a step of the loop does to the view of its executor.
LEMMA LoopShows ==
  ASSUME TypeInv, NEW e \in Executors, Fresh(e), Loop(e)
  PROVE  /\ UNCHANGED spc
         /\ \/ Claim(e)
            \/ /\ inbox' = inbox
               /\ \/ view'[e] = view[e]
                  \/ view'[e] = <<Prompt>>
                  \/ \E rec : (\A s \in Steers : rec # User(s)) /\ view'[e] = Append(view[e], rec)
<1> DEFINE Goal ==
      /\ UNCHANGED spc
      /\ \/ Claim(e)
         \/ /\ inbox' = inbox
            /\ \/ view'[e] = view[e]
               \/ view'[e] = <<Prompt>>
               \/ \E rec : (\A s \in Steers : rec # User(s)) /\ view'[e] = Append(view[e], rec)
<1>0. LoopTypes
  BY TypeInvFacts
<1> USE <1>0, NotSteers DEF LoopTypes, loopVars, storeVars, steerVars
<1>1. CASE Prepare(e)
  <2>1. CASE Head(log[RunOf[e]]) # Prompt /\ log[RunOf[e]] # <<>>
    BY <1>1, <2>1 DEF Prepare
  <2>2. CASE log[RunOf[e]] = <<>>
    BY <1>1, <2>2 DEF Prepare
  <2>3. log[RunOf[e]] = <<>> \/ Head(log[RunOf[e]]) # Prompt
    BY <1>1 DEF Prepare, Fresh
  <2> QED
    BY <2>1, <2>2, <2>3
<1>2. CASE Restore(e)
  BY <1>2 DEF Restore
<1>3. CASE Recover(e)
  BY <1>3 DEF Recover
<1>4. ASSUME NEW resp \in Responses, Ask(e, resp)
      PROVE  Goal
  BY <1>4 DEF Ask
<1>5. CASE FailLoop(e)
  BY <1>5 DEF FailLoop
<1>6. CASE AppendFinal(e)
  BY <1>6 DEF AppendFinal
<1>7. CASE AppendCalls(e)
  BY <1>7 DEF AppendCalls
<1>8. ASSUME NEW i \in batch[e], StartTool(e, i)
      PROVE  Goal
  BY <1>8 DEF StartTool
<1>9. CASE AppendResult(e)
  BY <1>9 DEF AppendResult
<1>10. CASE AppendRejected(e)
  <2>1. UNCHANGED <<inbox, spc>>
    BY <1>10 DEF AppendRejected
  <2>2. UNCHANGED view \/ \E c : view' = [view EXCEPT ![e] = Append(@, Result(c, FALSE))]
    BY <1>10 DEF AppendRejected
  <2>3. ASSUME NEW c, view' = [view EXCEPT ![e] = Append(@, Result(c, FALSE))]
        PROVE  \E rec : (\A s \in Steers : rec # User(s)) /\ view'[e] = Append(view[e], rec)
    BY <2>3
  <2> QED
    BY <2>1, <2>2, <2>3
<1>11. CASE EndStep(e)
  BY <1>11 DEF EndStep
<1>12. CASE ClaimStep(e)
  BY <1>12 DEF ClaimStep
<1>13. CASE ClaimFinal(e)
  BY <1>13 DEF ClaimFinal
<1>14. CASE Notice(e)
  BY <1>14 DEF Notice
<1> HIDE DEF Goal
<1>15. Goal
  BY <1>1, <1>2, <1>3, <1>4, <1>5, <1>6, <1>7, <1>8, <1>9, <1>10, <1>11, <1>12, <1>13, <1>14
  DEF Loop, Goal
<1> QED
  BY <1>15 DEF Goal

\* Nothing more is shown, and what is queued is kept or cleared.
LEMMA OnceFewer ==
  ASSUME NEW s \in Steers, Once(s), Shown(s)' \subseteq Shown(s), spc[s] = "acked" => spc'[s] = "acked",
         inbox' = inbox \/ inbox' = <<>>
  PROVE  Once(s)'
<1>1. CASE inbox' = inbox
  BY <1>1 DEF Once
<1>2. CASE inbox' = <<>>
  <2>1. ToSet(inbox') = {} /\ Len(inbox') = 0
    BY <1>2 DEF ToSet
  <2> QED
    BY <2>1 DEF Once
<1> QED
  BY <1>1, <1>2

\* A claim shows what was queued, and only that.
LEMMA OnceClaim ==
  ASSUME TypeInv, NEW e \in Executors, NEW s \in Steers, Once(s), Claim(e), UNCHANGED spc
  PROVE  Once(s)'
<1> DEFINE old == view[e]
           n == Len(old)
           users == [i \in 1 .. Len(inbox) |-> User(inbox[i])]
<1>0. LoopTypes
  BY TypeInvFacts
<1>1. inbox \in Seq(Steers) /\ old \in Seq(Records) /\ n \in Nat /\ view \in [Executors -> Seq(Records)]
  BY <1>0 DEF LoopTypes
<1>2. users \in Seq(Records) /\ Len(users) = Len(inbox) /\ Len(inbox) \in Nat
  BY <1>1, RecordTypes
<1>3. view'[e] = old \o users /\ (\A d \in Executors \ {e} : view'[d] = view[d]) /\ inbox' = <<>>
  BY <1>1 DEF Claim
<1>4. /\ Len(view'[e]) = n + Len(inbox)
      /\ \A i \in 1 .. n : view'[e][i] = old[i]
      /\ \A i \in 1 .. Len(inbox) : view'[e][n + i] = User(inbox[i])
  BY <1>1, <1>2, <1>3
<1>5. ToSet(inbox') = {} /\ Len(inbox') = 0
  BY <1>3 DEF ToSet
<1>6. ASSUME NEW x \in Shown(s)'
      PROVE  \/ x \in Shown(s)
             \/ \E i \in 1 .. Len(inbox) : inbox[i] = s /\ x = <<e, n + i>>
  <2>1. x \in Executors \X Nat /\ x[2] \in 1 .. Len(view'[x[1]]) /\ view'[x[1]][x[2]] = User(s)
    BY <1>6 DEF Shown
  <2>2. CASE x[1] # e
    <3>1. view'[x[1]] = view[x[1]]
      BY <1>3, <2>1, <2>2
    <3> QED
      BY <2>1, <3>1 DEF Shown
  <2>3. CASE x[1] = e /\ x[2] <= n
    <3>1. x[2] \in 1 .. n /\ old[x[2]] = User(s)
      BY <1>1, <1>4, <2>1, <2>3
    <3> QED
      BY <2>1, <2>3, <3>1 DEF Shown
  <2>4. CASE x[1] = e /\ x[2] > n
    <3> DEFINE i == x[2] - n
    <3>1. i \in 1 .. Len(inbox) /\ x[2] = n + i
      BY <1>1, <1>2, <1>4, <2>1, <2>4
    <3>2. view'[e][n + i] = User(inbox[i]) /\ view'[e][n + i] = User(s)
      BY <1>4, <2>1, <2>4, <3>1
    <3>3. inbox[i] = s
      BY <3>2, UserInjective
    <3>4. x = <<e, n + i>>
      BY <2>1, <2>4, <3>1
    <3> QED
      BY <3>1, <3>3, <3>4
  <2> QED
    BY <1>1, <2>1, <2>2, <2>3, <2>4
<1> HIDE DEF n
<1>7. CASE s \in ToSet(inbox)
  <2>1. Shown(s) = {} /\ spc[s] = "acked"
    BY <1>7 DEF Once
  <2>2. \A x \in Shown(s)' : \E i \in 1 .. Len(inbox) : inbox[i] = s /\ x = <<e, n + i>>
    BY <1>6, <2>1
  <2>3. \A x, y \in Shown(s)' : x = y
    BY <2>2 DEF Once
  <2> QED
    BY <1>5, <2>1, <2>3 DEF Once
<1>8. CASE s \notin ToSet(inbox)
  <2>1. \A i \in 1 .. Len(inbox) : inbox[i] # s
    BY <1>8 DEF ToSet
  <2>2. Shown(s)' \subseteq Shown(s)
    BY <1>6, <2>1
  <2> QED
    BY <1>3, <2>2, OnceFewer
<1> QED
  BY <1>7, <1>8

\* A step of an executor shows no steer twice.
LEMMA OnceLoop ==
  ASSUME TypeInv, StepInv, NEW e \in Executors, Fresh(e), Loop(e), NEW s \in Steers, Once(s)
  PROVE  Once(s)'
<1>0. view \in [Executors -> Seq(Records)]
  BY TypeInvFacts DEF LoopTypes
<1>1. CASE Claim(e)
  BY <1>1, LoopShows, OnceClaim
<1>2. CASE ~ Claim(e)
  <2>1. /\ UNCHANGED <<spc, inbox>>
        /\ \/ view'[e] = view[e]
           \/ view'[e] = <<Prompt>>
           \/ \E rec : (\A t \in Steers : rec # User(t)) /\ view'[e] = Append(view[e], rec)
    BY <1>2, LoopShows
  <2>2. \A d \in Executors \ {e} : view'[d] = view[d]
    BY LoopIsLocal
  <2>3. ASSUME NEW i \in 1 .. Len(view'[e]), view'[e][i] = User(s)
        PROVE  i \in 1 .. Len(view[e]) /\ view[e][i] = User(s)
    <3>1. CASE view'[e] = <<Prompt>>
      <4>1. i = 1 /\ view'[e][1] = Prompt
        BY <3>1
      <4> QED
        BY <2>3, <4>1, NotSteers
    <3>2. ASSUME NEW rec, \A t \in Steers : rec # User(t), view'[e] = Append(view[e], rec)
          PROVE  i \in 1 .. Len(view[e]) /\ view[e][i] = User(s)
      <4>1. /\ Len(view'[e]) = Len(view[e]) + 1 /\ Len(view[e]) \in Nat
            /\ view'[e][Len(view[e]) + 1] = rec
            /\ \A j \in 1 .. Len(view[e]) : view'[e][j] = view[e][j]
        <5>1. Sequence(view[e])
          BY <1>0 DEF Sequence
        <5> QED
          BY <3>2, <5>1, SequenceAppend
      <4>2. i # Len(view[e]) + 1
        BY <2>3, <3>2, <4>1
      <4>3. i \in 1 .. Len(view[e])
        BY <4>1, <4>2
      <4> QED
        BY <2>3, <4>1, <4>3
    <3> QED
      BY <2>1, <2>3, <3>1, <3>2
  <2>4. Shown(s)' \subseteq Shown(s)
    <3> SUFFICES ASSUME NEW x \in Shown(s)' PROVE x \in Shown(s)
      OBVIOUS
    <3>1. x \in Executors \X Nat /\ x[2] \in 1 .. Len(view'[x[1]]) /\ view'[x[1]][x[2]] = User(s)
      BY DEF Shown
    <3>2. x[2] \in 1 .. Len(view[x[1]]) /\ view[x[1]][x[2]] = User(s)
      BY <2>2, <2>3, <3>1
    <3> QED
      BY <3>1, <3>2 DEF Shown
  <2> QED
    BY <2>1, <2>4, OnceFewer
<1> QED
  BY <1>1, <1>2

\* A steer is queued when it is accepted.
LEMMA OnceSteer ==
  ASSUME TypeInv, NEW t \in Steers, Steer(t), NEW s \in Steers, Once(s)
  PROVE  Once(s)'
<1>0. inbox \in Seq(Steers) /\ spc \in [Steers -> SteerPcs]
  BY DEF TypeInv, TypeOK
<1>1. UNCHANGED view
  BY DEF Steer, SteerLook, SteerCheck, SteerAppend, Enqueue, execVars
<1>2. Shown(s)' = Shown(s)
  BY <1>1 DEF Shown
<1>3. CASE SteerLook(t) \/ SteerCheck(t) \/ SteerAppend(t)
  <2>1. UNCHANGED inbox /\ spc[t] # "acked" /\ \E p : spc' = [spc EXCEPT ![t] = p]
    BY <1>3 DEF SteerLook, SteerCheck, SteerAppend
  <2>2. spc[s] = "acked" => spc'[s] = "acked"
    BY <1>0, <2>1
  <2> QED
    BY <1>2, <2>1, <2>2, OnceFewer
<1>4. CASE Enqueue(t)
  <2>1. inbox' = Append(inbox, t) /\ spc[t] = "stored" /\ spc' = [spc EXCEPT ![t] = "acked"]
    BY <1>4 DEF Enqueue
  <2>2. /\ ToSet(inbox') = ToSet(inbox) \cup {t}
        /\ Len(inbox') = Len(inbox) + 1 /\ Len(inbox) \in Nat
        /\ inbox'[Len(inbox) + 1] = t
        /\ \A i \in 1 .. Len(inbox) : inbox'[i] = inbox[i]
    <3>1. Sequence(inbox)
      BY <1>0 DEF Sequence
    <3> QED
      BY <2>1, <3>1, SequenceAppend
  <2>3. CASE s = t
    <3>1. s \notin ToSet(inbox) /\ Shown(s) = {}
      BY <2>1, <2>3 DEF Once
    <3>2. \A i \in 1 .. Len(inbox) : inbox[i] # s
      BY <3>1 DEF ToSet
    <3>3. \A i \in 1 .. Len(inbox') : inbox'[i] = s => i = Len(inbox) + 1
      BY <2>2, <3>2
    <3>4. spc'[s] = "acked"
      BY <1>0, <2>1, <2>3
    <3> QED
      BY <1>2, <3>1, <3>3, <3>4 DEF Once
  <2>4. CASE s # t
    <3>1. spc'[s] = spc[s] /\ (s \in ToSet(inbox') <=> s \in ToSet(inbox))
      BY <1>0, <2>1, <2>2, <2>4
    <3>2. \A i \in 1 .. Len(inbox') : inbox'[i] = s => i \in 1 .. Len(inbox) /\ inbox[i] = s
      BY <2>2, <2>4
    <3> QED
      BY <1>2, <3>1, <3>2 DEF Once
  <2> QED
    BY <2>3, <2>4
<1> QED
  BY <1>3, <1>4 DEF Steer

\* The log of an executor that has not read it gets steers only.
LEMMA FreshNext ==
  ASSUME TypeInv, StepInv, SteerInv, OneExecutorPerRun, NEW d \in Executors, Fresh(d), Next
  PROVE  Fresh(d)'
<1> DEFINE r == RunOf[d]
<1>0. LoopTypes /\ pc \in [Executors -> ExecPcs] /\ r \in Runs /\ log \in [Runs -> Seq(Records)]
  BY TypeInvFacts DEF LoopTypes
<1>1. CASE pc'[d] \notin {"idle", "started"}
  BY <1>1 DEF Fresh
<1>2. ASSUME pc[d] \in {"idle", "started"}, log'[r] = log[r]
      PROVE  Fresh(d)'
  BY <1>2 DEF Fresh
<1>3. ASSUME NEW e \in Executors, Loop(e), pc'[d] \in {"idle", "started"}
      PROVE  Fresh(d)'
  <2>1. CASE d # e
    <3>1. pc[d] \in {"idle", "started"}
      BY <1>3, <2>1, LoopIsLocal
    <3>2. RunOf[e] # r /\ RunOf[e] \in Runs
      BY <2>1 DEF OneExecutorPerRun
    <3>3. \/ UNCHANGED log
          \/ \E q : log' = [log EXCEPT ![RunOf[e]] = q]
      BY <1>3
      DEF Loop, Prepare, Restore, Recover, Ask, FailLoop, AppendFinal, AppendCalls, StartTool,
          AppendResult, AppendRejected, EndStep, ClaimStep, ClaimFinal, Notice, storeVars
    <3>4. log'[r] = log[r]
      BY <1>0, <3>2, <3>3
    <3> QED
      BY <1>2, <3>1, <3>4
  <2>2. CASE d = e
    <3>1. pc[e] \notin {"idle", "started"} => pc'[e] \notin {"idle", "started"}
      <4> USE <1>0 DEF Return
      <4>1. CASE \E i \in batch[e] : StartTool(e, i)
        <5>1. PICK i \in batch[e] : StartTool(e, i)
          BY <4>1
        <5> DEFINE c == said[e][i]
        <5>2. /\ pc[e] = "tools" /\ row[RunOf[e]][c] = "none"
              /\ pc' = [x \in Executors |-> IF x = ChildOf[<<RunOf[e], c>>] THEN "started" ELSE pc[x]]
          BY <5>1 DEF StartTool
        <5>3. RunOf[e] \in Runs /\ c \in Calls
          BY <5>2 DEF StepInv, StepShape
        <5> HIDE DEF c
        <5>4. ChildOf[<<RunOf[e], c>>] # e
          BY <5>2, <5>3, ChildType DEF StepInv, RunsInCall
        <5> QED
          BY <5>2, <5>4
      <4>2. CASE Restore(e)
        <5>1. \E p \in {"settle", "ask", "recover"} : pc' = [pc EXCEPT ![e] = p]
          BY <4>2 DEF Restore
        <5> QED
          BY <5>1
      <4>3. CASE Recover(e)
        <5>1. \E p \in {"settle", "ask", "recover"} : pc' = [pc EXCEPT ![e] = p]
          BY <4>3 DEF Recover
        <5> QED
          BY <5>1
      <4>4. ASSUME NEW resp \in Responses, Ask(e, resp)
            PROVE  pc'[e] \notin {"idle", "started"}
        <5>1. \E p \in {"final", "ask", "calls"} : pc' = [pc EXCEPT ![e] = p]
          BY <4>4 DEF Ask
        <5> QED
          BY <5>1
      <4>5. CASE AppendCalls(e)
        <5>1. \E p \in {"tools", "reject", "settle"} : pc' = [pc EXCEPT ![e] = p]
          BY <4>5 DEF AppendCalls
        <5> QED
          BY <5>1
      <4>6. CASE AppendResult(e) \/ AppendRejected(e)
        <5>1. \E p \in {"tools", "reject", "settle"} : pc' = [pc EXCEPT ![e] = p]
          BY <4>6 DEF AppendResult, AppendRejected
        <5> QED
          BY <5>1
      <4>7. CASE ClaimFinal(e)
        <5>1. \E p \in {"ask", "settle"} : pc' = [pc EXCEPT ![e] = p]
          BY <4>7 DEF ClaimFinal
        <5> QED
          BY <5>1
      <4> QED
        BY <1>3, <4>1, <4>2, <4>3, <4>4, <4>5, <4>6, <4>7
        DEF Loop, Prepare, FailLoop, AppendFinal, EndStep, ClaimStep, Notice
    <3>2. pc[e] = "started" => pc'[e] \in {"restore", "settle"}
      BY <1>0, <1>3
      DEF Loop, Prepare, Restore, Recover, Ask, FailLoop, AppendFinal, AppendCalls, StartTool,
          AppendResult, AppendRejected, EndStep, ClaimStep, ClaimFinal, Notice, Return
    <3>3. pc[e] # "idle"
      BY <1>3
      DEF Loop, Prepare, Restore, Recover, Ask, FailLoop, AppendFinal, AppendCalls, StartTool,
          AppendResult, AppendRejected, EndStep, ClaimStep, ClaimFinal, Notice
    <3> QED
      BY <1>3, <2>2, <3>1, <3>2, <3>3
  <2> QED
    BY <2>1, <2>2
<1>4. ASSUME \/ \E q \in Runs : Begin(q) \/ Open(q) \/ Stop(q) \/ Interrupt(q)
                                 \/ \E c \in Calls : FinishTool(q, c)
             \/ \E e \in Executors : Start(e) \/ Exit(e)
             \/ \E s \in Steers : Steer(s),
             pc'[d] \in {"idle", "started"}
      PROVE  Fresh(d)'
  <2>1. pc[d] \in {"idle", "started"}
    BY <1>4, TurnIsLocal
  <2>2. UNCHANGED log \/ \E s \in Steers : SteerAppend(s)
    BY <1>4
    DEF Begin, Open, Stop, Interrupt, StopClear, StopSignal, FinishTool, Start, Exit, Settle, Leave,
        CheckSession, ClearInbox, Steer, SteerLook, SteerCheck, Enqueue, storeVars
  <2>3. ASSUME NEW s \in Steers, SteerAppend(s)
        PROVE  Fresh(d)'
    <3>1. log' = [log EXCEPT ![target[s]] = Append(@, User(s))]
      BY <2>3 DEF SteerAppend
    <3>2. CASE target[s] # r
      BY <1>0, <1>2, <2>1, <3>1, <3>2
    <3>3. CASE target[s] = r
      <4>1. log'[r] = Append(log[r], User(s)) /\ log[r] \in Seq(Records) /\ User(s) \in Records
        BY <1>0, <3>1, <3>3, RecordTypes
      <4>2. CASE log[r] = <<>>
        <5>1. Head(log'[r]) = User(s)
          BY <4>1, <4>2
        <5> QED
          BY <5>1, NotSteers DEF Fresh
      <4>3. CASE log[r] # <<>>
        <5>1. Head(log'[r]) = Head(log[r])
          BY <4>1, <4>3
        <5> QED
          BY <2>1, <4>3, <5>1 DEF Fresh
      <4> QED
        BY <4>2, <4>3
    <3> QED
      BY <3>2, <3>3
  <2> QED
    BY <1>2, <2>1, <2>2, <2>3
<1> QED
  BY <1>1, <1>3, <1>4 DEF Next

\* Every step keeps a steer queued or shown, once.
LEMMA OnceInvNext ==
  ASSUME TypeInv, StepInv, SteerInv, OneExecutorPerRun, OnceInv, [Next]_vars
  PROVE  OnceInv'
<1>1. CASE UNCHANGED vars
  BY <1>1 DEF vars, execVars, steerVars, storeVars, OnceInv, Once, Fresh, Shown
<1>2. CASE Next
  <2>1. \A d \in Executors : Fresh(d)'
    BY <1>2, FreshNext DEF OnceInv
  <2>2. ASSUME NEW s \in Steers PROVE Once(s)'
    <3>0. Once(s)
      BY DEF OnceInv
    <3>1. ASSUME NEW e \in Executors, Loop(e)
          PROVE  Once(s)'
      BY <3>0, <3>1, OnceLoop DEF OnceInv
    <3>2. ASSUME NEW t \in Steers, Steer(t)
          PROVE  Once(s)'
      BY <3>0, <3>2, OnceSteer
    <3>3. ASSUME \/ \E r \in Runs : Begin(r) \/ Open(r) \/ Stop(r) \/ Interrupt(r)
                                     \/ \E c \in Calls : FinishTool(r, c)
                 \/ \E e \in Executors : Start(e) \/ Exit(e)
          PROVE  Once(s)'
      <4>1. UNCHANGED <<view, spc>> /\ (inbox' = inbox \/ inbox' = <<>>)
        <5> USE DEF storeVars, execVars, steerVars
        <5>1. ASSUME NEW r \in Runs, Begin(r) \/ Open(r) \/ Stop(r) \/ Interrupt(r)
                                       \/ \E c \in Calls : FinishTool(r, c)
              PROVE  UNCHANGED <<view, spc>> /\ (inbox' = inbox \/ inbox' = <<>>)
          BY <5>1 DEF Begin, Open, Stop, Interrupt, StopClear, StopSignal, FinishTool
        <5>2. ASSUME NEW e \in Executors, Start(e) \/ Exit(e)
              PROVE  UNCHANGED <<view, spc>> /\ (inbox' = inbox \/ inbox' = <<>>)
          BY <5>2 DEF Start, Exit, Settle, Leave, CheckSession, ClearInbox
        <5> QED
          BY <3>3, <5>1, <5>2
      <4>2. Shown(s)' = Shown(s)
        BY <4>1 DEF Shown
      <4> QED
        BY <3>0, <4>1, <4>2, OnceFewer
    <3> QED
      BY <1>2, <3>1, <3>2, <3>3 DEF Next
  <2> QED
    BY <2>1, <2>2 DEF OnceInv
<1> QED
  BY <1>1, <1>2

\* When no run is executed twice, no steer is shown a second time, however many
\* steers, runs and interrupts there are.
THEOREM ShownOnce == (OneExecutorPerRun /\ OneParent) => (Spec => []DeliveredOnce)
<1> SUFFICES ASSUME OneExecutorPerRun, OneParent PROVE Spec => []DeliveredOnce
  OBVIOUS
<1>1. OnceInv => DeliveredOnce
  <2> SUFFICES ASSUME OnceInv, NEW s \in Steers
               PROVE  Cardinality({ x \in UNION { {e} \X (1 .. Len(view[e])) : e \in Executors } :
                                      view[x[1]][x[2]] = User(s) }) <= 1
    BY DEF DeliveredOnce
  <2> DEFINE S == { x \in UNION { {e} \X (1 .. Len(view[e])) : e \in Executors } :
                      view[x[1]][x[2]] = User(s) }
  <2>1. \A x, y \in Shown(s) : x = y
    BY DEF OnceInv, Once
  <2>2. \A x \in S : x \in Shown(s)
    <3> SUFFICES ASSUME NEW x \in S PROVE x \in Shown(s)
      OBVIOUS
    <3>1. PICK e \in Executors : x \in {e} \X (1 .. Len(view[e]))
      OBVIOUS
    <3>2. x[1] = e /\ x[2] \in 1 .. Len(view[e]) /\ x \in Executors \X Nat
      BY <3>1
    <3> QED
      BY <3>2 DEF Shown
  <2> HIDE DEF S
  <2>3. CASE S = {}
    <3>1. Cardinality(S) = 0
      BY <2>3, FS_EmptySet
    <3> QED
      BY <3>1 DEF S
  <2>4. CASE S # {}
    <3>1. PICK x \in S : TRUE
      BY <2>4
    <3>2. S = {x}
      BY <2>1, <2>2, <3>1
    <3>3. Cardinality(S) = 1
      BY <3>2, FS_Singleton
    <3> QED
      BY <3>3 DEF S
  <2> QED
    BY <2>3, <2>4
<1>2. Init => OnceInv
  <2> SUFFICES ASSUME Init PROVE OnceInv
    OBVIOUS
  <2>1. \A e \in Executors : view[e] = <<>> /\ log[RunOf[e]] = <<>>
    BY DEF Init
  <2>2. inbox = <<>> /\ ToSet(<<>>) = {} /\ Len(inbox) = 0
    BY DEF Init, ToSet
  <2>3. \A s \in Steers : Shown(s) = {}
    BY <2>1 DEF Shown
  <2> QED
    BY <2>1, <2>2, <2>3 DEF OnceInv, Once, Fresh
<1>3. StepInv /\ [Next]_vars => StepInv'
  BY StepInvNext
<1>4. TypeInv /\ StepInv /\ SteerInv /\ OnceInv /\ [Next]_vars => OnceInv'
  BY OnceInvNext
<1> QED
  BY <1>1, <1>2, <1>3, <1>4, StepInvInit, SteerInvInit, SteerInvNext, TypeInvInit, TypeInvNext, PTL DEF Spec

-----------------------------------------------------------------------------
(* What a record more means for restore.                                   *)

\* Restore looks at the rows of the calls that have a result.
LEMMA ReplayAgrees ==
  ASSUME NEW C, NEW O, NEW q \in Seq(RecordsOf(C, O)), NEW rows, NEW more,
         \A c \in Told(q) : (rows[c] = "succeeded") = (more[c] = "succeeded")
  PROVE  Replayed(q, rows) = Replayed(q, more)
<1> DEFINE n == Len(q)
<1>1. n \in Nat /\ \A i \in 1 .. n : q[i] \in RecordsOf(C, O)
  OBVIOUS
<1>2. PICK t : IsReplay(t, C, q, rows)
  BY ReplayTable
<1>3. PICK u : IsReplay(u, C, q, more)
  BY ReplayTable
<1> DEFINE T == { k \in Nat : k <= n => t[k] = u[k] }
<1>4. 0 \in T
  BY <1>2, <1>3 DEF IsReplay
<1>5. ASSUME NEW k \in Nat, k \in T PROVE k + 1 \in T
  <2> SUFFICES ASSUME k + 1 <= n PROVE t[k + 1] = u[k + 1]
    OBVIOUS
  <2> DEFINE rec == q[k + 1]
  <2>1. k <= n /\ k + 1 \in 1 .. n /\ t[k] = u[k]
    BY <1>1, <1>5
  <2>2. rec \in RecordsOf(C, O)
    BY <1>1, <2>1
  <2>3. rec.type = "result" => CallOf(rec) \in Told(q)
    BY <2>1 DEF Told
  <2>4. t[k + 1] = RestoreRecord(t[k], rec, rows) /\ u[k + 1] = RestoreRecord(t[k], rec, more)
    BY <1>2, <1>3, <2>1 DEF IsReplay
  <2> HIDE DEF rec
  <2>5. RestoreRecord(t[k], rec, rows) = RestoreRecord(t[k], rec, more)
    <3>1. rec.type \in {"input", "assistant", "result"}
      BY <2>2 DEF RecordsOf
    <3>2. CASE rec.type # "result"
      BY <3>1, <3>2 DEF RestoreRecord
    <3>3. CASE rec.type = "result"
      <4>1. (rows[CallOf(rec)] = "succeeded") = (more[CallOf(rec)] = "succeeded")
        BY <2>3, <3>3
      <4> QED
        BY <4>1 DEF RestoreRecord
    <3> QED
      BY <3>2, <3>3
  <2> QED
    BY <2>4, <2>5
<1>6. Nat \subseteq T
  <2> HIDE DEF T
  <2> QED
    BY <1>4, <1>5, Induction
<1>7. t[n] = u[n]
  BY <1>1, <1>6
<1> QED
  BY <1>2, <1>3, <1>7 DEF IsReplay

\* Whom a record more asks and tells.
LEMMA AskedTold ==
  ASSUME NEW C, NEW O, NEW q \in Seq(RecordsOf(C, O)), NEW rec \in RecordsOf(C, O)
  PROVE  /\ Asked(Append(q, rec)) =
              Asked(q) \cup (IF rec.type = "assistant" THEN ToSet(rec.calls) ELSE {})
         /\ Told(Append(q, rec)) =
              Told(q) \cup (IF rec.type = "result" THEN {CallOf(rec)} ELSE {})
<1> DEFINE p == Append(q, rec)
           n == Len(q)
<1>1. n \in Nat /\ Len(p) = n + 1 /\ p[n + 1] = rec /\ \A i \in 1 .. n : p[i] = q[i]
  OBVIOUS
<1>2. 1 .. n + 1 = (1 .. n) \cup {n + 1}
  BY <1>1
<1> HIDE DEF p, n
<1>3. /\ Asked(p) = UNION { ToSet(p[i].calls) : i \in { j \in 1 .. n + 1 : p[j].type = "assistant" } }
      /\ Asked(q) = UNION { ToSet(q[i].calls) : i \in { j \in 1 .. n : q[j].type = "assistant" } }
  BY <1>1 DEF Asked, n
<1>4. Asked(p) = Asked(q) \cup (IF rec.type = "assistant" THEN ToSet(rec.calls) ELSE {})
  <2>1. ASSUME NEW x \in Asked(p)
        PROVE  x \in Asked(q) \/ (rec.type = "assistant" /\ x \in ToSet(rec.calls))
    <3>1. PICK i \in 1 .. n + 1 : p[i].type = "assistant" /\ x \in ToSet(p[i].calls)
      BY <1>3
    <3> QED
      BY <1>1, <1>2, <1>3, <3>1
  <2>2. \A x \in Asked(q) : x \in Asked(p)
    BY <1>1, <1>2, <1>3
  <2>3. ASSUME rec.type = "assistant", NEW x \in ToSet(rec.calls)
        PROVE  x \in Asked(p)
    <3>1. n + 1 \in 1 .. n + 1 /\ p[n + 1] = rec
      BY <1>1
    <3> QED
      BY <1>3, <2>3, <3>1
  <2> QED
    BY <2>1, <2>2, <2>3
<1>5. /\ Told(p) = { CallOf(p[i]) : i \in { j \in 1 .. n + 1 : p[j].type = "result" } }
      /\ Told(q) = { CallOf(q[i]) : i \in { j \in 1 .. n : q[j].type = "result" } }
  BY <1>1 DEF Told, n
<1>6. Told(p) = Told(q) \cup (IF rec.type = "result" THEN {CallOf(rec)} ELSE {})
  <2>1. ASSUME NEW x \in Told(p)
        PROVE  x \in Told(q) \/ (rec.type = "result" /\ x = CallOf(rec))
    <3>1. PICK i \in 1 .. n + 1 : p[i].type = "result" /\ x = CallOf(p[i])
      BY <1>5
    <3> QED
      BY <1>1, <1>2, <1>5, <3>1
  <2>2. \A x \in Told(q) : x \in Told(p)
    BY <1>1, <1>2, <1>5
  <2>3. rec.type = "result" => CallOf(rec) \in Told(p)
    <3>1. n + 1 \in 1 .. n + 1 /\ p[n + 1] = rec
      BY <1>1
    <3> QED
      BY <1>5, <3>1
  <2> QED
    BY <2>1, <2>2, <2>3
<1> QED
  BY <1>4, <1>6 DEF p

\* The elements of the rest of a sequence.
LEMMA RestElements ==
  ASSUME NEW S, NEW s \in Seq(S), NEW k \in Nat, k <= Len(s)
  PROVE  ToSet(SubSeq(s, k + 1, Len(s))) = { s[i] : i \in k + 1 .. Len(s) }
<1> DEFINE rest == SubSeq(s, k + 1, Len(s))
<1>1. rest \in Seq(S) /\ Len(rest) = Len(s) - k /\ Len(s) \in Nat
  OBVIOUS
<1>2. \A i \in 1 .. Len(s) - k : rest[i] = s[k + i]
  OBVIOUS
<1> HIDE DEF rest
<1>3. \A x : x \in ToSet(rest) <=> \E i \in 1 .. Len(s) - k : x = rest[i]
  <2>1. DOMAIN rest = 1 .. Len(s) - k
    BY <1>1
  <2>2. ToSet(rest) = { rest[i] : i \in DOMAIN rest }
    BY DEF ToSet
  <2> QED
    BY <2>1, <2>2
<1>4. ASSUME NEW i \in k + 1 .. Len(s) PROVE s[i] \in ToSet(rest)
  <2>1. i - k \in 1 .. Len(s) - k /\ k + (i - k) = i
    BY <1>1
  <2> QED
    BY <1>2, <1>3, <2>1
<1>5. ASSUME NEW x \in ToSet(rest) PROVE \E i \in k + 1 .. Len(s) : x = s[i]
  <2>1. PICK i \in 1 .. Len(s) - k : x = rest[i]
    BY <1>3
  <2>2. k + i \in k + 1 .. Len(s)
    BY <1>1
  <2> QED
    BY <1>2, <2>1, <2>2
<1> QED
  BY <1>4, <1>5 DEF rest

\* An answer is accepted when nothing is pending, and is pending then.
LEMMA AnswerReplayed ==
  ASSUME NEW q \in Seq(Records), NEW rows, NEW calls \in Seq(Calls),
         Replayed(q, rows).verdict = "continue", Replayed(q, rows).pending = <<>>
  PROVE  LET acc == Replayed(Append(q, Assistant(calls)), rows) IN
         acc.verdict = "continue" /\ acc.pending = calls
<1> DEFINE acc == Replayed(q, rows)
           rec == Assistant(calls)
           now == Replayed(Append(q, rec), rows)
<1>1. rec \in Records /\ rec.type = "assistant" /\ rec.calls = calls
  BY RecordTypes DEF Assistant
<1> HIDE DEF rec
<1>2. acc \in Replays(Calls) /\ now = RestoreRecord(acc, rec, rows)
  BY <1>1, RecordTypes, ReplayType, ReplayAppend
<1>3. acc.verdict = "continue" /\ acc.pending = <<>>
  OBVIOUS
<1> HIDE DEF acc, now
<1>4. now = [verdict |-> "continue", pending |-> rec.calls, answers |-> acc.answers + 1]
  BY <1>1, <1>2, <1>3, RestoreCases
<1> QED
  BY <1>1, <1>4 DEF now, rec

\* A result of the first pending call that agrees with its row.
LEMMA ResultAccepted ==
  ASSUME NEW C, NEW acc \in Replays(C), NEW rec, NEW rows
  PROVE  (/\ acc.verdict = "continue" /\ rec.type = "result"
          /\ acc.pending # <<>> /\ Head(acc.pending) = CallOf(rec) /\ Agreeing(rec, rows))
         => RestoreRecord(acc, rec, rows) =
              [verdict |-> "continue", pending |-> Tail(acc.pending), answers |-> acc.answers]
<1> DEFINE now == RestoreRecord(acc, rec, rows)
           agrees == Agreeing(rec, rows)
<1> HIDE DEF now
<1>1. now = RestoreRecord(acc, rec, rows)
  BY DEF now
<1>2. acc.verdict = "continue" /\ rec.type = "result" =>
        now = IF acc.pending = <<>> \/ Head(acc.pending) # CallOf(rec)
              THEN Refused(acc, "corrupt")
              ELSE IF ~ agrees
              THEN Refused(acc, IF rec.ok THEN "blocked" ELSE "corrupt")
              ELSE [verdict |-> "continue", pending |-> Tail(acc.pending), answers |-> acc.answers]
  BY <1>1, RestoreCases DEF Agreeing
<1> HIDE DEF agrees
<1>3. (/\ acc.verdict = "continue" /\ rec.type = "result"
       /\ acc.pending # <<>> /\ Head(acc.pending) = CallOf(rec) /\ agrees)
      => now = [verdict |-> "continue", pending |-> Tail(acc.pending), answers |-> acc.answers]
  BY <1>2
<1> QED
  BY <1>3 DEF now, agrees

\* The result of the first pending call is accepted when it tells what its row tells.
LEMMA ResultReplayed ==
  ASSUME NEW q \in Seq(Records), NEW rows, NEW s \in Seq(Calls), NEW k \in Nat, k < Len(s),
         NEW ok \in BOOLEAN, Agreeing(Result(s[k + 1], ok), rows),
         Replayed(q, rows).verdict = "continue",
         Replayed(q, rows).pending = SubSeq(s, k + 1, Len(s))
  PROVE  LET acc == Replayed(Append(q, Result(s[k + 1], ok)), rows) IN
         acc.verdict = "continue" /\ acc.pending = SubSeq(s, k + 2, Len(s))
<1> DEFINE acc == Replayed(q, rows)
           c == s[k + 1]
           rec == Result(c, ok)
           now == Replayed(Append(q, rec), rows)
           rest == SubSeq(s, k + 1, Len(s))
           agrees == Agreeing(rec, rows)
<1>1. c \in Calls /\ k <= Len(s)
  OBVIOUS
<1>2. /\ rest = <<>> <=> k = Len(s)
      /\ k < Len(s) => Head(rest) = c /\ Tail(rest) = SubSeq(s, k + 2, Len(s))
  BY <1>1, RestOf
<1>3. rest # <<>> /\ Head(rest) = c /\ Tail(rest) = SubSeq(s, k + 2, Len(s))
  <2>1. k # Len(s)
    OBVIOUS
  <2> HIDE DEF rest
  <2> QED
    BY <1>2, <2>1
<1>4. acc.verdict = "continue" /\ acc.pending = rest /\ agrees
  OBVIOUS
<1> HIDE DEF rest, c
<1>5. rec \in Records /\ rec.type = "result" /\ CallOf(rec) = c
  <2>1. rec \in Records
    BY <1>1, RecordTypes
  <2>2. rec.type = "result" /\ rec.calls = <<c>>
    BY DEF Result
  <2>3. Head(<<c>>) = c
    OBVIOUS
  <2> HIDE DEF rec
  <2> QED
    BY <2>1, <2>2, <2>3 DEF CallOf
<1> HIDE DEF rec
<1>6. acc \in Replays(Calls) /\ now = RestoreRecord(acc, rec, rows)
  BY <1>5, RecordTypes, ReplayType, ReplayAppend
<1> HIDE DEF acc, now
<1>8. now = [verdict |-> "continue", pending |-> Tail(acc.pending), answers |-> acc.answers]
  BY <1>3, <1>4, <1>5, <1>6, ResultAccepted
<1>9. now.verdict = "continue" /\ now.pending = SubSeq(s, k + 2, Len(s))
  BY <1>3, <1>4, <1>8
<1> QED
  BY <1>9 DEF now, rec, c

-----------------------------------------------------------------------------
(* Who may write to a log.                                                 *)

\* A run has at most two executors, and the run of a sub-agent only one.
AtMostTwo ==
  \A c, d, e \in Executors :
    (RunOf[c] = RunOf[d] /\ RunOf[d] = RunOf[e]) => (c = d \/ d = e \/ c = e)

ChildrenApart == \A d \in Children, e \in Executors : RunOf[d] = RunOf[e] => d = e

Working == {"started", "restore", "recover"} \cup LoopPcs

\* An executor that may still write to its run.
Writes(e) == pc[e] \in Working /\ ~cancelled[e]

OneWriter == \A d, e \in Executors : (RunOf[d] = RunOf[e] /\ Writes(d) /\ Writes(e)) => d = e

\* The first executor of a run is registered until it leaves or another one starts.
Registered ==
  \A e \in Executors \ Children :
    (/\ pc[e] \notin {"idle", "left", "clear", "done"}
     /\ \A d \in Executors : (RunOf[d] = RunOf[e] /\ d # e) => pc[d] = "idle")
    => active[RunOf[e]] = e

Alone == OneWriter /\ Registered

\* A step of the loop moves its executor, and may start a sub-agent.
LEMMA LoopMoves ==
  ASSUME TypeInv, NEW e \in Executors, Loop(e)
  PROVE  /\ UNCHANGED activeVars /\ pc[e] \in Working
         /\ pc'[e] \in Working \cup {"settle"}
<1> DEFINE Goal == /\ UNCHANGED activeVars /\ pc[e] \in Working
                   /\ pc'[e] \in Working \cup {"settle"}
<1>0. pc \in [Executors -> ExecPcs]
  BY TypeInvFacts
<1> USE <1>0 DEF Return, loopVars, storeVars, Working, LoopPcs
<1>1. CASE Prepare(e)
  BY <1>1 DEF Prepare
<1>2. CASE Restore(e)
  <2>1. \E p \in {"settle", "ask", "recover"} : pc' = [pc EXCEPT ![e] = p]
    BY <1>2 DEF Restore
  <2> QED
    BY <1>2, <2>1 DEF Restore
<1>3. CASE Recover(e)
  <2>1. \E p \in {"settle", "ask", "recover"} : pc' = [pc EXCEPT ![e] = p]
    BY <1>3 DEF Recover
  <2> QED
    BY <1>3, <2>1 DEF Recover
<1>4. ASSUME NEW resp \in Responses, Ask(e, resp)
      PROVE  Goal
  <2>1. \E p \in {"final", "ask", "calls"} : pc' = [pc EXCEPT ![e] = p]
    BY <1>4 DEF Ask
  <2>2. UNCHANGED activeVars /\ pc[e] = "ask"
    BY <1>4 DEF Ask
  <2> QED
    BY <2>1, <2>2
<1>5. CASE FailLoop(e)
  BY <1>5 DEF FailLoop
<1>6. CASE AppendFinal(e)
  BY <1>6 DEF AppendFinal
<1>7. CASE AppendCalls(e)
  <2>1. \E p \in {"tools", "reject", "settle"} : pc' = [pc EXCEPT ![e] = p]
    BY <1>7 DEF AppendCalls
  <2> QED
    BY <1>7, <2>1 DEF AppendCalls
<1>8. ASSUME NEW i \in batch[e], StartTool(e, i)
      PROVE  Goal
  <2>1. pc'[e] = pc[e] \/ pc'[e] = "started"
    BY <1>8 DEF StartTool
  <2> QED
    BY <1>8, <2>1 DEF StartTool
<1>9. CASE AppendResult(e)
  <2>1. \E p \in {"tools", "reject"} : pc' = [pc EXCEPT ![e] = p]
    BY <1>9 DEF AppendResult
  <2> QED
    BY <1>9, <2>1 DEF AppendResult
<1>10. CASE AppendRejected(e)
  <2>1. pc' = pc \/ pc' = [pc EXCEPT ![e] = "settle"]
    BY <1>10 DEF AppendRejected
  <2> QED
    BY <1>10, <2>1 DEF AppendRejected
<1>11. CASE EndStep(e)
  BY <1>11 DEF EndStep
<1>12. CASE ClaimStep(e)
  BY <1>12 DEF ClaimStep
<1>13. CASE ClaimFinal(e)
  <2>1. \E p \in {"ask", "settle"} : pc' = [pc EXCEPT ![e] = p]
    BY <1>13 DEF ClaimFinal
  <2> QED
    BY <1>13, <2>1 DEF ClaimFinal
<1>14. CASE Notice(e)
  BY <1>14 DEF Notice
<1> HIDE DEF Goal
<1>15. Goal
  BY <1>1, <1>2, <1>3, <1>4, <1>5, <1>6, <1>7, <1>8, <1>9, <1>10, <1>11, <1>12, <1>13, <1>14
  DEF Loop, Goal
<1> QED
  BY <1>15 DEF Goal

\* Nobody but sub-agents takes up work, and nobody is registered or removed.
LEMMA AloneKept ==
  ASSUME Alone, ChildrenApart, UNCHANGED active,
         \A d \in Executors : cancelled[d] => cancelled'[d],
         \A d \in Executors : \/ pc'[d] = pc[d]
                              \/ d \in Children /\ pc'[d] = "started"
                              \/ pc[d] \in Working /\ pc'[d] \in Working \cup {"settle"}
                              \/ pc[d] = "settle" /\ pc'[d] \in {"leave", "done"}
                              \/ pc[d] \in {"left", "clear"} /\ pc'[d] \in {"clear", "done"}
  PROVE  Alone'
<1>1. ASSUME NEW c \in Executors, NEW d \in Executors, RunOf[c] = RunOf[d], Writes(c)', Writes(d)'
      PROVE  c = d
  <2>1. CASE c \in Children \/ d \in Children
    BY <1>1, <2>1 DEF ChildrenApart
  <2>2. CASE c \notin Children /\ d \notin Children
    <3>1. Writes(c) /\ Writes(d)
      BY <1>1, <2>2 DEF Writes, Working, LoopPcs
    <3> QED
      BY <1>1, <3>1 DEF Alone, OneWriter
  <2> QED
    BY <2>1, <2>2
<1>2. ASSUME NEW e \in Executors \ Children, pc'[e] \notin {"idle", "left", "clear", "done"},
             \A d \in Executors : (RunOf[d] = RunOf[e] /\ d # e) => pc'[d] = "idle"
      PROVE  active'[RunOf[e]] = e
  <2>1. pc[e] \notin {"idle", "left", "clear", "done"}
    BY <1>2 DEF Working, LoopPcs
  <2>2. \A d \in Executors : (RunOf[d] = RunOf[e] /\ d # e) => pc[d] = "idle"
    BY <1>2 DEF Working, LoopPcs
  <2> QED
    BY <2>1, <2>2 DEF Alone, Registered
<1>3. OneWriter'
  BY <1>1 DEF OneWriter
<1>4. Registered'
  BY <1>2 DEF Registered
<1> QED
  BY <1>3, <1>4 DEF Alone

\* The second executor of a run cancels the first if that is still at work.
LEMMA AloneStart ==
  ASSUME TypeInv, Alone, AtMostTwo, ChildrenApart, NEW e \in Executors, Start(e)
  PROVE  Alone'
<1> DEFINE r == RunOf[e]
<1>0. pc \in [Executors -> ExecPcs] /\ r \in Runs /\ active \in [Runs -> Executors \cup {NoOne}]
  BY TypeInvFacts DEF TypeInv, TypeOK
<1>1. /\ pc[e] = "idle" /\ e \notin Children
      /\ Cancel({active[r]} \ {NoOne})
      /\ active' = [active EXCEPT ![r] = e] /\ pc' = [pc EXCEPT ![e] = "started"]
  BY DEF Start
<1> HIDE DEF r
<1>2. pc'[e] = "started" /\ \A d \in Executors \ {e} : pc'[d] = pc[d]
  BY <1>0, <1>1
<1>3. active'[r] = e /\ \A q \in Runs \ {r} : active'[q] = active[q]
  BY <1>0, <1>1
<1>4. \A d \in Executors : /\ cancelled[d] => cancelled'[d]
                           /\ active[r] = d => cancelled'[d]
  BY <1>1 DEF Cancel
<1>5. ASSUME NEW d \in Executors \ {e}, RunOf[d] = r, Writes(d)'
      PROVE  FALSE
  <2>1. pc[d] \in Working /\ d \notin Children
    BY <1>1, <1>2, <1>5 DEF Writes, ChildrenApart, r
  <2>2. \A c \in Executors : (RunOf[c] = RunOf[d] /\ c # d) => c = e
    BY <1>5 DEF AtMostTwo, r
  <2>3. active[r] = d
    BY <1>1, <1>5, <2>1, <2>2 DEF Alone, Registered, Working, LoopPcs
  <2> QED
    BY <1>4, <1>5, <2>3 DEF Writes
<1>6. OneWriter'
  <2> SUFFICES ASSUME NEW c \in Executors, NEW d \in Executors, RunOf[c] = RunOf[d], Writes(c)', Writes(d)'
               PROVE  c = d
    BY DEF OneWriter
  <2>1. CASE c # e /\ d # e
    <3>1. Writes(c) /\ Writes(d)
      BY <1>2, <1>4, <2>1 DEF Writes
    <3> QED
      BY <3>1 DEF Alone, OneWriter
  <2> QED
    BY <1>5, <2>1 DEF r
<1>7. Registered'
  <2> SUFFICES ASSUME NEW d \in Executors \ Children, pc'[d] \notin {"idle", "left", "clear", "done"},
                      \A c \in Executors : (RunOf[c] = RunOf[d] /\ c # d) => pc'[c] = "idle"
               PROVE  active'[RunOf[d]] = d
    BY DEF Registered
  <2>1. CASE d = e
    BY <1>3, <2>1 DEF r
  <2>2. CASE d # e
    <3>1. RunOf[d] # r
      BY <1>2, <2>2 DEF r
    <3>2. RunOf[d] \in Runs /\ \A c \in Executors : (RunOf[c] = RunOf[d] /\ c # d) => pc[c] = "idle"
      BY <1>2, <3>1 DEF r
    <3>3. active[RunOf[d]] = d
      BY <1>2, <2>2, <3>2 DEF Alone, Registered
    <3> QED
      BY <1>3, <3>1, <3>2, <3>3
  <2> QED
    BY <2>1, <2>2
<1> QED
  BY <1>6, <1>7 DEF Alone

\* Who leaves takes the registration of its run away; the other one has started.
LEMMA AloneLeave ==
  ASSUME TypeInv, Alone, ChildrenApart, NEW e \in Executors, Leave(e)
  PROVE  Alone'
<1> DEFINE r == RunOf[e]
<1>0. pc \in [Executors -> ExecPcs] /\ r \in Runs /\ active \in [Runs -> Executors \cup {NoOne}]
  BY TypeInvFacts DEF TypeInv, TypeOK
<1>1. pc' = [pc EXCEPT ![e] = "left"] /\ active' = [active EXCEPT ![r] = NoOne] /\ UNCHANGED cancelled
  BY DEF Leave
<1> HIDE DEF r
<1>2. pc'[e] = "left" /\ \A d \in Executors \ {e} : pc'[d] = pc[d]
  BY <1>0, <1>1
<1>3. \A q \in Runs \ {r} : active'[q] = active[q]
  BY <1>0, <1>1
<1>4. OneWriter'
  <2>1. \A d \in Executors : Writes(d)' => Writes(d)
    BY <1>1, <1>2 DEF Writes, Working, LoopPcs
  <2> QED
    BY <2>1 DEF Alone, OneWriter
<1>5. Registered'
  <2> SUFFICES ASSUME NEW d \in Executors \ Children, pc'[d] \notin {"idle", "left", "clear", "done"},
                      \A c \in Executors : (RunOf[c] = RunOf[d] /\ c # d) => pc'[c] = "idle"
               PROVE  active'[RunOf[d]] = d
    BY DEF Registered
  <2>1. d # e /\ RunOf[d] # r /\ RunOf[d] \in Runs
    BY <1>2 DEF r
  <2>2. \A c \in Executors : (RunOf[c] = RunOf[d] /\ c # d) => pc[c] = "idle"
    BY <1>2, <2>1 DEF r
  <2>3. active[RunOf[d]] = d
    BY <1>2, <2>1, <2>2 DEF Alone, Registered
  <2> QED
    BY <1>3, <2>1, <2>3
<1> QED
  BY <1>4, <1>5 DEF Alone

\* Of two executors of a run only one can write, after any step.
LEMMA AloneNext ==
  ASSUME TypeInv, Alone, AtMostTwo, ChildrenApart, [Next]_vars
  PROVE  Alone'
<1>0. pc \in [Executors -> ExecPcs] /\ cancelled \in [Executors -> BOOLEAN]
  BY TypeInvFacts DEF TypeInv, TypeOK
<1>1. CASE UNCHANGED vars
  BY <1>1, AloneKept DEF vars, execVars, activeVars
<1>2. ASSUME NEW e \in Executors, Loop(e)
      PROVE  Alone'
  <2>1. UNCHANGED activeVars /\ pc[e] \in Working /\ pc'[e] \in Working \cup {"settle"}
    BY <1>2, LoopMoves DEF Working
  <2>2. \A d \in Executors \ {e} : pc'[d] = pc[d] \/ (pc'[d] = "started" /\ d \in Children)
    BY <1>2, LoopIsLocal
  <2> QED
    BY <2>1, <2>2, AloneKept DEF activeVars
<1>3. ASSUME NEW e \in Executors, Settle(e) \/ CheckSession(e) \/ ClearInbox(e)
      PROVE  Alone'
  <2>1. /\ UNCHANGED activeVars
        /\ \E p : /\ pc' = [pc EXCEPT ![e] = p]
                  /\ \/ pc[e] = "settle" /\ p \in {"leave", "done"}
                     \/ pc[e] \in {"left", "clear"} /\ p \in {"clear", "done"}
    BY <1>3 DEF Settle, CheckSession, ClearInbox
  <2>2. \A d \in Executors : \/ pc'[d] = pc[d]
                             \/ pc[d] = "settle" /\ pc'[d] \in {"leave", "done"}
                             \/ pc[d] \in {"left", "clear"} /\ pc'[d] \in {"clear", "done"}
    BY <1>0, <2>1
  <2> QED
    BY <2>1, <2>2, AloneKept DEF activeVars
<1>4. ASSUME NEW r \in Runs, Begin(r) \/ Open(r) \/ Stop(r) \/ Interrupt(r)
                               \/ \E c \in Calls : FinishTool(r, c)
      PROVE  Alone'
  <2>1. UNCHANGED <<pc, active>> /\ (UNCHANGED cancelled \/ \E S : Cancel(S))
    BY <1>4 DEF Begin, Open, Stop, Interrupt, StopClear, StopSignal, FinishTool, execVars, activeVars
  <2>2. \A d \in Executors : cancelled[d] => cancelled'[d]
    BY <2>1 DEF Cancel
  <2> QED
    BY <2>1, <2>2, AloneKept
<1>5. ASSUME NEW s \in Steers, Steer(s)
      PROVE  Alone'
  <2>1. UNCHANGED <<pc, activeVars>>
    BY <1>5 DEF Steer, SteerLook, SteerCheck, SteerAppend, Enqueue, execVars
  <2> QED
    BY <2>1, AloneKept DEF activeVars
<1>6. CASE Next
  BY <1>2, <1>3, <1>4, <1>5, <1>6, AloneStart, AloneLeave DEF Next, Exit
<1> QED
  BY <1>1, <1>6

-----------------------------------------------------------------------------
(* The log of a run and the executor that writes to it.                    *)

Past(r) == Replayed(log[r], row[r])

Calm(r) == ~ Disturbed(log[r])

\* A log that can be restored: who was asked has a result or is pending, no call
\* with a result runs, and what was started is advertised.
RunInv(r) ==
  /\ Past(r).verdict = "continue"
  /\ Asked(log[r]) = Told(log[r]) \cup ToSet(Past(r).pending)
  /\ \A c \in Calls : /\ row[r][c] = "running" => c \notin Told(log[r])
                      /\ row[r][c] # "none" => c \in Advertised

\* The positions without a result are the last ones of the batch.
Unanswered(e, positions) ==
  \E k \in 0 .. Len(said[e]) :
    /\ positions = k + 1 .. Len(said[e])
    /\ Past(RunOf[e]).pending = SubSeq(said[e], k + 1, Len(said[e]))

\* What is executed was never told, what is rejected was never started.
Batch(e) ==
  LET r == RunOf[e] IN
  /\ said[e] # <<>> /\ batch[e] \cap rejects[e] = {}
  /\ \A i \in batch[e] : said[e][i] \in Advertised /\ said[e][i] \notin Told(log[r])
  /\ \A i, j \in batch[e] : said[e][i] = said[e][j] => i = j
  /\ \A j \in rejects[e] : \/ row[r][said[e][j]] = "none"
                           \/ said[e][j] \in Told(log[r])
                           \/ \E i \in batch[e] : said[e][i] = said[e][j]

\* The batch at work is recorded: batch[e] holds what of it is executed, rejects[e]
\* what is not.
RecordedAt(e, k, q) ==
  LET executed == Executable(Asked(SubSeq(q, 1, k - 1)), said[e]) IN
  /\ k \in 1 .. Len(q) /\ q[k] = Assistant(said[e])
  /\ batch[e] \subseteq executed /\ rejects[e] \cap executed = {}

Recorded(e) == \E k \in Nat : RecordedAt(e, k, log[RunOf[e]])

\* All of the response is to be executed or rejected.
Divided(e) ==
  /\ batch[e] = Executable(Asked(log[RunOf[e]]), said[e])
  /\ rejects[e] = (1 .. Len(said[e])) \ batch[e]

\* What a writing executor has at hand agrees with the log of its run.
AtHand(e) ==
  LET r == RunOf[e] IN
  /\ pc[e] = "restore" => Replayed(view[e], row[r]) = Past(r) /\ Told(view[e]) = Told(log[r])
  /\ pc[e] # "started" => Asked(view[e]) = Asked(log[r])
  /\ pc[e] = "recover" => Unanswered(e, batch[e])
  /\ pc[e] \in {"ask", "final", "calls", "claimFinal", "claimStep"} => Past(r).pending = <<>>
  /\ pc[e] \in {"calls", "tools", "reject"} => Batch(e)
  /\ pc[e] = "calls" => Divided(e)
  /\ pc[e] \in {"tools", "reject"} => Unanswered(e, batch[e] \cup rejects[e]) /\ Recorded(e)
  /\ pc[e] = "reject" => batch[e] = {}

\* What a step does to a run and its executor.
StoreTypes(r, e) ==
  /\ r = RunOf[e] /\ r \in Runs
  /\ log[r] \in Seq(Records) /\ view[e] \in Seq(Records) /\ said[e] \in Seq(Calls)
  /\ row[r] \in [Calls -> RowStates]
  /\ batch[e] \in SUBSET Nat /\ rejects[e] \in SUBSET Nat
  /\ pc \in [Executors -> ExecPcs] /\ log \in [Runs -> Seq(Records)] /\ row \in [Runs -> [Calls -> RowStates]]
  /\ view \in [Executors -> Seq(Records)] /\ said \in [Executors -> Seq(Calls)]
  /\ batch \in [Executors -> SUBSET Nat] /\ rejects \in [Executors -> SUBSET Nat]
  /\ Places(e)

\* What the rows, the log and the view of an executor are typed as.
LEMMA StoreFacts ==
  ASSUME TypeInv, NEW e \in Executors
  PROVE  StoreTypes(RunOf[e], e)
  BY TypeInvFacts DEF LoopTypes, StoreTypes

\* Of the rows, restore sees which of the calls with a result succeeded.
LEMMA PastKept ==
  ASSUME NEW r \in Runs, log[r] \in Seq(Records), log'[r] = log[r],
         \A c \in Told(log[r]) : (row[r][c] = "succeeded") = (row'[r][c] = "succeeded")
  PROVE  Past(r)' = Past(r)
<1>1. Replayed(log[r], row[r]) = Replayed(log[r], row'[r])
  BY RecordTypes, ReplayAgrees
<1> QED
  BY <1>1 DEF Past

\* A record more in the log of a run.
LEMMA RecordAppended ==
  ASSUME NEW q \in Seq(Records), NEW rec \in Records
  PROVE  /\ Asked(Append(q, rec)) =
              Asked(q) \cup (IF rec.type = "assistant" THEN ToSet(rec.calls) ELSE {})
         /\ Told(Append(q, rec)) = Told(q) \cup (IF rec.type = "result" THEN {CallOf(rec)} ELSE {})
         /\ Last(Append(q, rec)) = rec
<1>1. Sequence(q)
  BY DEF Sequence
<1> QED
  BY <1>1, RecordTypes, AskedTold, LastAppend

\* The first of the last positions.
LEMMA LastPositions ==
  ASSUME NEW n \in Nat, NEW k \in 0 .. n, NEW P \in SUBSET Nat, NEW R \in SUBSET Nat,
         P \cup R = k + 1 .. n, P \cap R = {}, P # {}, \A j \in R : Min(P) < j
  PROVE  /\ Min(P) = k + 1 /\ k < n /\ k + 1 \in 0 .. n
         /\ (P \ {Min(P)}) \cup R = (k + 1) + 1 .. n
<1>1. Min(P) \in P /\ \A x \in P : Min(P) <= x
  BY FirstPosition
<1>2. Min(P) \in k + 1 .. n /\ k + 1 \in k + 1 .. n
  BY <1>1
<1>3. Min(P) = k + 1
  <2>1. CASE k + 1 \in P
    BY <1>1, <1>2, <2>1
  <2>2. CASE k + 1 \in R
    <3>1. Min(P) < k + 1
      BY <1>1, <2>2
    <3> QED
      BY <1>2, <3>1
  <2> QED
    BY <1>2, <2>1, <2>2
<1>4. Min(P) \notin R
  BY <1>1
<1>5. (P \ {Min(P)}) \cup R = (k + 1 .. n) \ {k + 1}
  BY <1>3, <1>4
<1>6. (k + 1 .. n) \ {k + 1} = (k + 1) + 1 .. n
  OBVIOUS
<1> QED
  BY <1>2, <1>3, <1>5, <1>6

\* What may happen to a run behind the back of an executor: tools end, and a steer
\* is recorded.
Spared(r) ==
  /\ Past(r)' = Past(r) /\ Asked(log'[r]) = Asked(log[r]) /\ Told(log'[r]) = Told(log[r])
  /\ log'[r] = log[r] \/ \E s \in Steers : log'[r] = Append(log[r], User(s))
  /\ \A c \in Told(log[r]) : (row[r][c] = "succeeded") = (row'[r][c] = "succeeded")
  /\ \A c \in Calls : row[r][c] = "none" => row'[r][c] = "none"

\* A record more leaves those before it alone.
LEMMA AppendBefore ==
  ASSUME NEW S, NEW q \in Seq(S), NEW rec \in S, NEW k \in 1 .. Len(q) + 1
  PROVE  /\ SubSeq(Append(q, rec), 1, k - 1) = SubSeq(q, 1, k - 1)
         /\ k <= Len(q) => Append(q, rec)[k] = q[k]
         /\ Len(Append(q, rec)) = Len(q) + 1
<1> DEFINE p == Append(q, rec)
           x == SubSeq(p, 1, k - 1)
           y == SubSeq(q, 1, k - 1)
<1>1. p \in Seq(S) /\ Len(p) = Len(q) + 1 /\ Len(q) \in Nat /\ \A i \in 1 .. Len(q) : p[i] = q[i]
  OBVIOUS
<1> HIDE DEF p
<1>2. x \in Seq(S) /\ Len(x) = k - 1 /\ \A i \in 1 .. k - 1 : x[i] = p[i]
  BY <1>1
<1>3. y \in Seq(S) /\ Len(y) = k - 1 /\ \A i \in 1 .. k - 1 : y[i] = q[i]
  BY <1>1
<1>4. \A i \in 1 .. k - 1 : i \in 1 .. Len(q)
  BY <1>1
<1> HIDE DEF x, y
<1>5. \A i \in 1 .. Len(x) : x[i] = y[i]
  BY <1>1, <1>2, <1>3, <1>4
<1>6. x = y
  BY <1>2, <1>3, <1>5, SeqEqual
<1> QED
  BY <1>1, <1>6 DEF p, x, y

\* A batch stays recorded where it is.
LEMMA RecordedKept ==
  ASSUME NEW e \in Executors, NEW q \in Seq(Records), NEW rec \in Records, NEW k \in Nat,
         RecordedAt(e, k, q)
  PROVE  RecordedAt(e, k, Append(q, rec))
<1>1. k \in 1 .. Len(q) /\ k \in 1 .. Len(q) + 1 /\ k <= Len(q)
  BY DEF RecordedAt
<1>2. /\ SubSeq(Append(q, rec), 1, k - 1) = SubSeq(q, 1, k - 1)
      /\ Append(q, rec)[k] = q[k] /\ Len(Append(q, rec)) = Len(q) + 1
  BY <1>1, AppendBefore
<1>3. k \in 1 .. Len(Append(q, rec))
  BY <1>1, <1>2
<1> QED
  BY <1>2, <1>3 DEF RecordedAt

\* Nothing happens to an executor, and nothing that it knows of to its run.
LEMMA AtHandKept ==
  ASSUME TypeInv, NEW e \in Executors, AtHand(e), pc'[e] = pc[e],
         view'[e] = view[e], said'[e] = said[e], batch'[e] = batch[e], rejects'[e] = rejects[e],
         Spared(RunOf[e])
  PROVE  AtHand(e)'
<1> DEFINE r == RunOf[e]
<1>0. StoreTypes(r, e)
  BY StoreFacts
<1>1. /\ Past(r)' = Past(r) /\ Asked(log'[r]) = Asked(log[r]) /\ Told(log'[r]) = Told(log[r])
      /\ \A c \in Calls : row[r][c] = "none" => row'[r][c] = "none"
      /\ \A c \in Told(log[r]) : (row[r][c] = "succeeded") = (row'[r][c] = "succeeded")
      /\ log'[r] = log[r] \/ \E s \in Steers : log'[r] = Append(log[r], User(s))
  BY DEF Spared
<1>2. \A P : Unanswered(e, P) => (Past(r)' = Past(r) /\ \E k \in 0 .. Len(said'[e]) :
        /\ P = k + 1 .. Len(said'[e])
        /\ Past(r)'.pending = SubSeq(said'[e], k + 1, Len(said'[e])))
  BY <1>1 DEF Unanswered
<1>3. ASSUME pc[e] \in {"calls", "tools", "reject"}
      PROVE  Batch(e)'
  <2>1. Batch(e) /\ \A j \in rejects[e] : said[e][j] \in Calls
    BY <1>0, <1>3 DEF AtHand, StoreTypes, Places
  <2> QED
    BY <1>1, <2>1 DEF Batch
<1>4. pc[e] = "recover" => Unanswered(e, batch[e])'
  BY <1>2 DEF AtHand, Unanswered
<1>5. pc[e] \in {"tools", "reject"} => Unanswered(e, batch[e] \cup rejects[e])'
  BY <1>2 DEF AtHand, Unanswered
<1>6. ASSUME pc[e] = "restore"
      PROVE  Replayed(view'[e], row'[r]) = Past(r)' /\ Told(view'[e]) = Told(log'[r])
  <2>1. /\ Replayed(view[e], row[r]) = Past(r) /\ Told(view[e]) = Told(log[r])
        /\ view[e] \in Seq(Records)
    BY <1>0, <1>6 DEF AtHand, StoreTypes
  <2>2. Replayed(view[e], row[r]) = Replayed(view[e], row'[r])
    <3> DEFINE q == view[e]
               rows == row[r]
               more == row'[r]
    <3>1. q \in Seq(Records) /\ \A c \in Told(q) : (rows[c] = "succeeded") = (more[c] = "succeeded")
      BY <1>1, <2>1
    <3>2. Records = RecordsOf(Calls, Sources)
      BY RecordTypes
    <3> HIDE DEF q, rows, more
    <3>3. Replayed(q, rows) = Replayed(q, more)
      BY <3>1, <3>2, ReplayAgrees
    <3> QED
      BY <3>3 DEF q, rows, more
  <2> QED
    BY <1>1, <2>1, <2>2
<1>7. ASSUME pc[e] \in {"tools", "reject"}
      PROVE  Recorded(e)'
  <2>1. PICK k \in Nat : RecordedAt(e, k, log[r])
    BY <1>7 DEF AtHand, Recorded
  <2>2. RecordedAt(e, k, log'[r])
    <3>1. CASE log'[r] = log[r]
      BY <2>1, <3>1
    <3>2. ASSUME NEW s \in Steers, log'[r] = Append(log[r], User(s))
          PROVE  RecordedAt(e, k, log'[r])
      <4>1. log[r] \in Seq(Records) /\ User(s) \in Records
        BY <1>0, RecordTypes DEF StoreTypes
      <4> QED
        BY <2>1, <3>2, <4>1, RecordedKept
    <3> QED
      BY <1>1, <3>1, <3>2
  <2> QED
    BY <2>2 DEF Recorded, RecordedAt
<1>8. pc[e] = "calls" => Divided(e)'
  BY <1>1 DEF AtHand, Divided
<1> QED
  BY <1>1, <1>3, <1>4, <1>5, <1>6, <1>7, <1>8 DEF AtHand

\* An executor that is about to read its log has nothing at hand.
LEMMA AtHandStarted ==
  ASSUME NEW e \in Executors, pc'[e] = "started"
  PROVE  AtHand(e)'
  BY DEF AtHand

\* A run that nobody touches.
LEMMA RunInvKept ==
  ASSUME NEW r \in Runs, RunInv(r), log'[r] = log[r], Past(r)' = Past(r),
         \A c \in Calls : /\ row'[r][c] = "running" => c \notin Told(log[r])
                          /\ row'[r][c] # "none" => c \in Advertised
  PROVE  RunInv(r)'
  BY DEF RunInv

-----------------------------------------------------------------------------
(* What the loop writes keeps the log restorable.                          *)

\* One record more in a run.
LEMMA RecordWritten ==
  ASSUME TypeInv, NEW e \in Executors, NEW rec \in Records,
         log' = [log EXCEPT ![RunOf[e]] = Append(@, rec)], UNCHANGED row
  PROVE  LET r == RunOf[e] IN
         /\ log'[r] = Append(log[r], rec)
         /\ Past(r)' = Replayed(Append(log[r], rec), row[r])
         /\ Asked(log'[r]) =
              Asked(log[r]) \cup (IF rec.type = "assistant" THEN ToSet(rec.calls) ELSE {})
         /\ Told(log'[r]) = Told(log[r]) \cup (IF rec.type = "result" THEN {CallOf(rec)} ELSE {})
<1> DEFINE r == RunOf[e]
<1>0. r \in Runs /\ log \in [Runs -> Seq(Records)] /\ log[r] \in Seq(Records)
  BY StoreFacts DEF StoreTypes
<1>1. log'[r] = Append(log[r], rec)
  BY <1>0
<1>2. Past(r)' = Replayed(Append(log[r], rec), row[r])
  BY <1>1 DEF Past
<1> QED
  BY <1>0, <1>1, <1>2, RecordAppended

\* No position is left, so nothing is.
LEMMA NothingLeft ==
  ASSUME NEW s \in Seq(Calls), NEW k \in 0 .. Len(s), k + 1 .. Len(s) = {}
  PROVE  SubSeq(s, k + 1, Len(s)) = <<>>
<1>1. Len(s) \in Nat /\ k \in Nat /\ k <= Len(s)
  OBVIOUS
<1>2. k = Len(s)
  <2> SUFFICES ASSUME k + 1 <= Len(s) PROVE FALSE
    BY <1>1
  <2>1. k + 1 \in k + 1 .. Len(s)
    BY <1>1
  <2> QED
    BY <2>1
<1> QED
  BY <1>1, <1>2, RestOf

\* The result of the first position without one, which tells what its row tells.
LEMMA ResultWritten ==
  ASSUME TypeInv, NEW e \in Executors, NEW ok \in BOOLEAN, NEW c \in Calls,
         NEW P \in SUBSET Nat, NEW R \in SUBSET Nat,
         P \cap R = {}, P # {}, \A j \in R : Min(P) < j,
         RunInv(RunOf[e]), Unanswered(e, P \cup R), c = said[e][Min(P)],
         Agreeing(Result(c, ok), row[RunOf[e]]), row[RunOf[e]][c] # "running",
         log' = [log EXCEPT ![RunOf[e]] = Append(@, Result(c, ok))], UNCHANGED row,
         said'[e] = said[e]
  PROVE  LET r == RunOf[e] IN
         /\ RunInv(r)'
         /\ Asked(log'[r]) = Asked(log[r]) /\ Told(log'[r]) = Told(log[r]) \cup {c}
         /\ Unanswered(e, (P \ {Min(P)}) \cup R)'
<1> DEFINE r == RunOf[e]
           i == Min(P)
           rec == Result(c, ok)
           s == said[e]
<1>0. /\ r \in Runs /\ log[r] \in Seq(Records) /\ s \in Seq(Calls)
      /\ Past(r).verdict = "continue" /\ Past(r) = Replayed(log[r], row[r])
  BY StoreFacts DEF StoreTypes, RunInv, Past
<1>1. PICK k \in 0 .. Len(s) : P \cup R = k + 1 .. Len(s) /\ Past(r).pending = SubSeq(s, k + 1, Len(s))
  BY DEF Unanswered
<1>2. /\ Len(s) \in Nat /\ k \in Nat
      /\ i = k + 1 /\ k < Len(s) /\ k + 1 \in 0 .. Len(s)
      /\ (P \ {i}) \cup R = (k + 1) + 1 .. Len(s)
  <2>1. Len(s) \in Nat /\ k \in Nat /\ Min(P) = i
    BY <1>0
  <2> HIDE DEF s, i
  <2> QED
    BY <1>1, <2>1, LastPositions
<1>3. c = s[k + 1]
  BY <1>2
<1>4. rec \in Records /\ rec.type = "result" /\ CallOf(rec) = c
  <2>1. rec \in Records
    BY RecordTypes
  <2>2. rec.type = "result" /\ rec.calls = <<c>>
    BY DEF Result
  <2>3. Head(<<c>>) = c
    OBVIOUS
  <2> HIDE DEF rec
  <2> QED
    BY <2>1, <2>2, <2>3 DEF CallOf
<1> HIDE DEF rec, i, r, s
<1>5. /\ log'[r] = Append(log[r], rec) /\ Past(r)' = Replayed(Append(log[r], rec), row[r])
      /\ Asked(log'[r]) = Asked(log[r]) /\ Told(log'[r]) = Told(log[r]) \cup {c}
  <2>1. /\ log'[r] = Append(log[r], rec) /\ Past(r)' = Replayed(Append(log[r], rec), row[r])
        /\ Asked(log'[r]) = Asked(log[r]) \cup (IF rec.type = "assistant" THEN ToSet(rec.calls) ELSE {})
        /\ Told(log'[r]) = Told(log[r]) \cup (IF rec.type = "result" THEN {CallOf(rec)} ELSE {})
    BY <1>4, RecordWritten DEF r, rec
  <2> QED
    BY <1>4, <2>1
<1>6. Past(r)'.verdict = "continue" /\ Past(r)'.pending = SubSeq(s, k + 2, Len(s))
  <2>1. Agreeing(Result(s[k + 1], ok), row[r])
    BY <1>3 DEF r
  <2>2. LET acc == Replayed(Append(log[r], Result(s[k + 1], ok)), row[r]) IN
        acc.verdict = "continue" /\ acc.pending = SubSeq(s, k + 2, Len(s))
    <3> DEFINE q == log[r]
               rows == row[r]
    <3>1. /\ q \in Seq(Records) /\ s \in Seq(Calls) /\ k \in Nat /\ k < Len(s)
          /\ Agreeing(Result(s[k + 1], ok), rows)
          /\ Replayed(q, rows).verdict = "continue"
          /\ Replayed(q, rows).pending = SubSeq(s, k + 1, Len(s))
      BY <1>0, <1>1, <1>2, <2>1
    <3> HIDE DEF q, rows
    <3>2. LET acc == Replayed(Append(q, Result(s[k + 1], ok)), rows) IN
          acc.verdict = "continue" /\ acc.pending = SubSeq(s, k + 2, Len(s))
      BY <3>1, ResultReplayed
    <3> QED
      BY <3>2 DEF q, rows
  <2>3. Result(s[k + 1], ok) = rec
    BY <1>3 DEF rec
  <2> QED
    BY <1>5, <2>2, <2>3
<1>7. k + 2 = (k + 1) + 1
  BY <1>2
<1>8. ToSet(Past(r).pending) = { s[j] : j \in k + 1 .. Len(s) }
      /\ ToSet(Past(r)'.pending) = { s[j] : j \in k + 2 .. Len(s) }
  <2>1. k <= Len(s) /\ k + 1 <= Len(s) /\ k + 1 \in Nat
    BY <1>2
  <2> QED
    BY <1>0, <1>1, <1>2, <1>6, <1>7, <2>1, RestElements
<1>9. k + 1 .. Len(s) = {k + 1} \cup (k + 2 .. Len(s))
  BY <1>2
<1>10. ToSet(Past(r).pending) = {c} \cup ToSet(Past(r)'.pending)
  BY <1>3, <1>8, <1>9
<1>11. RunInv(r)'
  BY <1>5, <1>6, <1>10 DEF RunInv, r
<1>12. Unanswered(e, (P \ {i}) \cup R)'
  BY <1>2, <1>6, <1>7 DEF Unanswered, r, s
<1> QED
  BY <1>5, <1>11, <1>12 DEF r, i

\* What is claimed of a step of the loop: its log can be restored and the executor
\* that goes on knows it.
Accounted(e) == RunInv(RunOf[e])' /\ (pc'[e] = "settle" \/ AtHand(e)')

\* Each step of the writer accounts for what it writes: here the recovery.
LEMMA RecoverAccounted ==
  ASSUME TypeInv, NEW e \in Executors, RunInv(RunOf[e]), AtHand(e), Recover(e)
  PROVE  Accounted(e)
<1> DEFINE r == RunOf[e]
           i == Min(batch[e])
           c == said[e][i]
<1>0. StoreTypes(r, e) /\ pc[e] = "recover"
  BY StoreFacts DEF Recover
<1>1. /\ Unanswered(e, batch[e] \cup {}) /\ Asked(view[e]) = Asked(log[r])
      /\ batch[e] # {} /\ batch[e] \subseteq 1 .. Len(said[e])
  <2>1. batch[e] \cup {} = batch[e]
    OBVIOUS
  <2> QED
    BY <1>0, <2>1 DEF AtHand, StoreTypes, Places
<1>2. i \in batch[e] /\ c \in Calls
  <2>1. batch[e] \in SUBSET Nat /\ said[e] \in Seq(Calls)
    BY <1>0 DEF StoreTypes
  <2> QED
    BY <1>1, <2>1, FirstPosition
<1>3. \/ pc' = [pc EXCEPT ![e] = "settle"] /\ UNCHANGED log
      \/ /\ row[r][c] = "succeeded"
         /\ log' = [log EXCEPT ![r] = Append(@, Result(c, TRUE))]
         /\ batch' = [batch EXCEPT ![e] = @ \ {i}]
         /\ pc' = [pc EXCEPT ![e] = IF batch[e] = {i} THEN "ask" ELSE @]
  BY DEF Recover, Return
<1>4. UNCHANGED <<row, view, said, rejects>>
  BY DEF Recover
<1>5. CASE pc' = [pc EXCEPT ![e] = "settle"] /\ UNCHANGED log
  <2>1. pc'[e] = "settle"
    BY <1>0, <1>5 DEF StoreTypes
  <2>2. RunInv(r)'
    BY <1>4, <1>5 DEF RunInv, Past
  <2> QED
    BY <2>1, <2>2 DEF Accounted
<1>6. CASE /\ row[r][c] = "succeeded"
           /\ log' = [log EXCEPT ![r] = Append(@, Result(c, TRUE))]
           /\ batch' = [batch EXCEPT ![e] = @ \ {i}]
           /\ pc' = [pc EXCEPT ![e] = IF batch[e] = {i} THEN "ask" ELSE @]
  <2>0. PICK P \in SUBSET Nat, R \in SUBSET Nat : P = batch[e] /\ R = {}
    BY <1>0 DEF StoreTypes
  <2>1. row[r][c] = "succeeded" => Agreeing(Result(c, TRUE), row[r])
    <3>1. Result(c, TRUE).ok = TRUE /\ Result(c, TRUE).calls = <<c>>
      BY DEF Result
    <3>2. Head(<<c>>) = c
      OBVIOUS
    <3> QED
      BY <3>1, <3>2 DEF Agreeing, CallOf
  <2>2. /\ RunInv(r)'
        /\ Asked(log'[r]) = Asked(log[r])
        /\ Unanswered(e, (P \ {Min(P)}) \cup R)'
    <3>1. P \cap R = {} /\ P # {} /\ (\A j \in R : Min(P) < j)  /\ said'[e] = said[e]
          /\ row[r][c] # "running" /\ c = said[e][Min(P)] /\ Unanswered(e, P \cup R)
      BY <1>1, <1>4, <1>6, <2>0
    <3>2. PICK ok \in BOOLEAN :
            /\ log' = [log EXCEPT ![r] = Append(@, Result(c, ok))] /\ UNCHANGED row
            /\ Agreeing(Result(c, ok), row[r]) /\ c \in Calls
      BY <1>2, <1>4, <1>6, <2>1
    <3> HIDE DEF c
    <3> QED
      BY <3>1, <3>2, ResultWritten
  <2>3. batch'[e] = P \ {Min(P)} /\ (P \ {Min(P)}) \cup R = P \ {Min(P)}
    BY <1>0, <1>6, <2>0 DEF StoreTypes
  <2>4. Asked(view'[e]) = Asked(log'[r])
    BY <1>1, <1>4, <2>2
  <2>5. pc'[e] = IF batch[e] = {i} THEN "ask" ELSE "recover"
    BY <1>0, <1>6 DEF StoreTypes
  <2>6. Unanswered(e, batch[e])'
    BY <2>2, <2>3 DEF Unanswered
  <2>7. AtHand(e)'
    <3> HIDE DEF i
    <3>1. CASE batch[e] = {i}
      <4>1. pc'[e] = "ask" /\ batch'[e] = {}
        BY <2>0, <2>3, <2>5, <3>1 DEF i
      <4>2. PICK k \in 0 .. Len(said'[e]) :
              k + 1 .. Len(said'[e]) = {} /\ Past(r)'.pending = SubSeq(said'[e], k + 1, Len(said'[e]))
        BY <2>6, <4>1 DEF Unanswered
      <4>3. said'[e] \in Seq(Calls)
        BY <1>0, <1>4 DEF StoreTypes
      <4>4. Past(r)'.pending = <<>>
        BY <4>2, <4>3, NothingLeft
      <4> QED
        BY <2>2, <2>4, <4>1, <4>4 DEF AtHand
    <3>2. CASE batch[e] # {i}
      <4>1. pc'[e] = "recover"
        BY <2>5, <3>2
      <4> QED
        BY <2>2, <2>4, <2>6, <4>1 DEF AtHand
    <3> QED
      BY <3>1, <3>2
  <2> QED
    BY <2>2, <2>7 DEF Accounted
<1> QED
  BY <1>3, <1>5, <1>6

\* What disturbs a log stays in it; a message a log bears may follow it.
LEMMA CalmAppend ==
  ASSUME NEW q \in Seq(Records), NEW rec \in Records, ~ Disturbed(Append(q, rec))
  PROVE  ~ Disturbed(q) /\ (rec.type = "input" => MayFollow(q, rec))
<1> DEFINE p == Append(q, rec)
           n == Len(q)
<1>1. n \in Nat /\ Len(p) = n + 1 /\ p[n + 1] = rec /\ \A i \in 1 .. n : p[i] = q[i] /\ i \in 1 .. n + 1
  OBVIOUS
<1>2. \A i \in 1 .. n + 1 : Asker(p, i) = Asker(q, i) /\ Asker(q, i) \in 0 .. i - 1
  BY RecordTypes, AskerAppend, AskerIs
<1>3. \A k \in 1 .. n : SubSeq(p, 1, k - 1) = SubSeq(q, 1, k - 1)
  <2> SUFFICES ASSUME NEW k \in 1 .. n PROVE SubSeq(p, 1, k - 1) = SubSeq(q, 1, k - 1)
    OBVIOUS
  <2>1. k \in 1 .. Len(q) + 1
    BY <1>1
  <2> QED
    BY <2>1, AppendBefore
<1>4. Told(q) \subseteq Told(p)
  BY RecordAppended
<1>5. ~ SteeredInside(p) /\ ~ RejectedEarly(p)
  BY DEF Disturbed
<1> HIDE DEF p, n
<1>6. \A i \in 1 .. n + 1 : Asker(q, i) # 0 => Asker(q, i) \in 1 .. n /\ p[Asker(q, i)] = q[Asker(q, i)]
  BY <1>1, <1>2
<1>7. ~ SteeredInside(q)
  <2> SUFFICES ASSUME NEW i \in 1 .. n, q[i].type = "input", Asker(q, i) # 0,
                      i - Asker(q, i) <= Len(q[Asker(q, i)].calls)
               PROVE  FALSE
    BY DEF SteeredInside, n
  <2>1. i \in 1 .. n + 1 /\ i \in 1 .. Len(p)
    BY <1>1
  <2>2. p[i].type = "input" /\ Asker(p, i) = Asker(q, i) /\ p[Asker(q, i)] = q[Asker(q, i)]
    BY <1>1, <1>2, <1>6, <2>1
  <2> QED
    BY <1>5, <2>1, <2>2 DEF SteeredInside
<1>8. ~ RejectedEarly(q)
  <2> SUFFICES ASSUME RejectedEarly(q) PROVE FALSE
    OBVIOUS
  <2>1. PICK k \in 1 .. n :
          /\ q[k].type = "assistant"
          /\ \E j \in Executable(Asked(SubSeq(q, 1, k - 1)), q[k].calls) :
               /\ q[k].calls[j] \in Told(q)
               /\ \E i \in (1 .. j) \ Executable(Asked(SubSeq(q, 1, k - 1)), q[k].calls) : TRUE
    BY DEF RejectedEarly, n
  <2>2. k \in 1 .. Len(p) /\ p[k] = q[k] /\ SubSeq(p, 1, k - 1) = SubSeq(q, 1, k - 1)
    BY <1>1, <1>3
  <2> QED
    BY <1>4, <1>5, <2>1, <2>2 DEF RejectedEarly
<1>9. ASSUME rec.type = "input"
      PROVE  MayFollow(q, rec)
  <2> SUFFICES ASSUME ~ MayFollow(q, rec) PROVE FALSE
    OBVIOUS
  <2> DEFINE asker == Asker(q, n + 1)
  <2>1. asker # 0 /\ ~ ((n + 1) - asker > Len(q[asker].calls))
    BY <1>9 DEF MayFollow, LastAsker, n
  <2>2. n + 1 \in 1 .. n + 1 /\ n + 1 \in 1 .. Len(p)
    BY <1>1
  <2>3. asker \in 1 .. n /\ p[asker] = q[asker] /\ Asker(p, n + 1) = asker
    BY <1>2, <1>6, <2>1, <2>2
  <2>4. q[asker].calls \in Seq(Calls)
    <3>1. q[asker] \in Records
      BY <2>3 DEF n
    <3> QED
      BY <3>1 DEF Records
  <2> HIDE DEF asker
  <2>5. (n + 1) - asker <= Len(q[asker].calls)
    BY <1>1, <2>1, <2>3, <2>4
  <2> QED
    BY <1>1, <1>5, <1>9, <2>1, <2>2, <2>3, <2>5 DEF SteeredInside
<1> QED
  BY <1>7, <1>8, <1>9 DEF Disturbed

\* In a log that is not disturbed nothing rejected precedes a call with a result.
LEMMA BatchInTurn ==
  ASSUME NEW e \in Executors, NEW q, NEW k \in Nat, RecordedAt(e, k, q), ~ Disturbed(q),
         NEW i \in batch[e], said[e][i] \in Told(q), said[e] \in Seq(Calls),
         batch[e] \subseteq 1 .. Len(said[e]), rejects[e] \subseteq 1 .. Len(said[e])
  PROVE  \A j \in rejects[e] : i < j
<1> SUFFICES ASSUME NEW j \in rejects[e], ~ (i < j) PROVE FALSE
  OBVIOUS
<1> DEFINE executed == Executable(Asked(SubSeq(q, 1, k - 1)), said[e])
<1>1. /\ k \in 1 .. Len(q) /\ q[k] = Assistant(said[e])
      /\ i \in executed /\ j \notin executed
  BY DEF RecordedAt
<1>2. q[k].type = "assistant" /\ q[k].calls = said[e]
  BY <1>1 DEF Assistant
<1>3. j \in 1 .. i
  OBVIOUS
<1> HIDE DEF executed
<1>4. \E x \in (1 .. i) \ executed : TRUE
  BY <1>1, <1>3
<1>5. RejectedEarly(q)
  BY <1>1, <1>2, <1>4 DEF RejectedEarly, executed
<1> QED
  BY <1>5 DEF Disturbed

\* The result of a call.
LEMMA ResultAccounted ==
  ASSUME TypeInv, NEW e \in Executors, RunInv(RunOf[e]), AtHand(e), AppendResult(e), Calm(RunOf[e])'
  PROVE  Accounted(e)
<1> DEFINE r == RunOf[e]
           i == Min(batch[e])
           c == said[e][i]
           ok == row[r][c] = "succeeded"
           rec == Result(c, ok)
<1>0. StoreTypes(r, e) /\ pc[e] = "tools"
  BY StoreFacts DEF AppendResult
<1>1. /\ Unanswered(e, batch[e] \cup rejects[e]) /\ Asked(view[e]) = Asked(log[r]) /\ Batch(e)
      /\ batch[e] # {} /\ batch[e] \subseteq 1 .. Len(said[e]) /\ rejects[e] \subseteq 1 .. Len(said[e])
      /\ Recorded(e)
  BY <1>0 DEF AtHand, StoreTypes, Places
<1>2. i \in batch[e] /\ c \in Calls
  <2>1. batch[e] \in SUBSET Nat /\ said[e] \in Seq(Calls)
    BY <1>0 DEF StoreTypes
  <2> QED
    BY <1>1, <2>1, FirstPosition
<1>3. /\ row[r][c] # "running"
      /\ log' = [log EXCEPT ![r] = Append(@, rec)] /\ view' = [view EXCEPT ![e] = Append(@, rec)]
      /\ batch' = [batch EXCEPT ![e] = @ \ {i}]
      /\ pc' = [pc EXCEPT ![e] = IF batch[e] = {i} THEN "reject" ELSE @]
      /\ UNCHANGED <<row, said, rejects>>
  BY DEF AppendResult, RowEnded
<1>4. Agreeing(rec, row[r])
  <2>1. rec.ok = ok /\ rec.calls = <<c>>
    BY DEF Result
  <2>2. Head(<<c>>) = c
    OBVIOUS
  <2> HIDE DEF rec
  <2>3. rec.ok = (row[r][CallOf(rec)] = "succeeded")
    BY <2>1, <2>2 DEF CallOf
  <2> QED
    BY <2>3 DEF Agreeing
<1>5. ok \in BOOLEAN
  OBVIOUS
<1> HIDE DEF ok
<1>50. PICK k \in Nat : RecordedAt(e, k, log[r])
  BY <1>1 DEF Recorded
<1>51. /\ RecordedAt(e, k, log'[r])
       /\ \A j \in rejects[e] : i < j
  <2>1. log'[r] = Append(log[r], rec) /\ log[r] \in Seq(Records) /\ rec \in Records
    BY <1>0, <1>2, <1>3, <1>5, RecordTypes DEF StoreTypes
  <2>2. RecordedAt(e, k, log'[r])
    <3> HIDE DEF rec
    <3> QED
      BY <1>50, <2>1, RecordedKept
  <2>3. c \in Told(log'[r])
    <3>1. rec.type = "result" /\ rec.calls = <<c>> /\ Head(<<c>>) = c
      BY DEF Result
    <3> HIDE DEF rec, c
    <3> QED
      BY <2>1, <3>1, RecordAppended DEF CallOf
  <2>4. \A j \in rejects[e] : i < j
    <3>1. ~ Disturbed(log'[r])
      BY DEF Calm
    <3>2. i \in batch[e] /\ said[e][i] \in Told(log'[r]) /\ said[e] \in Seq(Calls)
          /\ rejects[e] \subseteq 1 .. Len(said[e]) /\ batch[e] \subseteq 1 .. Len(said[e])
      BY <1>0, <1>1, <1>2, <2>3 DEF StoreTypes
    <3> HIDE DEF i
    <3> QED
      BY <2>2, <3>1, <3>2, BatchInTurn
  <2> QED
    BY <2>2, <2>4
<1>60. PICK P \in SUBSET Nat, R \in SUBSET Nat : P = batch[e] /\ R = rejects[e]
  BY <1>0 DEF StoreTypes
<1>6. /\ RunInv(r)'
      /\ Asked(log'[r]) = Asked(log[r]) /\ Told(log'[r]) = Told(log[r]) \cup {c}
      /\ Unanswered(e, (P \ {Min(P)}) \cup R)'
  <2>1. /\ P \cap R = {} /\ P # {} /\ (\A j \in R : Min(P) < j)
        /\ said'[e] = said[e] /\ c = said[e][Min(P)] /\ Unanswered(e, P \cup R)
    BY <1>1, <1>3, <1>51, <1>60 DEF Batch
  <2> HIDE DEF c
  <2> QED
    BY <1>2, <1>3, <1>4, <1>5, <2>1, ResultWritten
<1>7. batch'[e] = batch[e] \ {i} /\ rejects'[e] = rejects[e] /\ said'[e] = said[e] /\ row' = row
  BY <1>0, <1>3 DEF StoreTypes
<1>8. Unanswered(e, batch[e] \cup rejects[e])'
  BY <1>6, <1>60, <1>7 DEF Unanswered
<1>9. Asked(view'[e]) = Asked(log'[r])
  <2>1. view'[e] = Append(view[e], rec) /\ view[e] \in Seq(Records) /\ rec \in Records
    BY <1>0, <1>2, <1>3, <1>5, RecordTypes DEF StoreTypes
  <2>2. rec.type = "result"
    BY DEF Result
  <2> HIDE DEF rec
  <2>3. Asked(view'[e]) = Asked(view[e])
    BY <2>1, <2>2, RecordAppended
  <2> QED
    BY <1>1, <1>6, <2>3
<1> HIDE DEF i, rec
<1>10. Batch(e)'
  <2> USE DEF c
  <2>1. said'[e] # <<>> /\ batch'[e] \cap rejects'[e] = {}
    BY <1>1, <1>7 DEF Batch
  <2>2. ASSUME NEW x \in batch'[e]
        PROVE  said'[e][x] \in Advertised /\ said'[e][x] \notin Told(log'[r])
    <3>1. x \in batch[e] /\ x # i
      BY <1>7
    <3>2. said[e][x] # c
      BY <1>1, <1>2, <3>1 DEF Batch
    <3> QED
      BY <1>1, <1>6, <1>7, <3>1, <3>2 DEF Batch
  <2>3. \A x, y \in batch'[e] : said'[e][x] = said'[e][y] => x = y
    BY <1>1, <1>7 DEF Batch
  <2>4. ASSUME NEW j \in rejects'[e]
        PROVE  \/ row'[r][said'[e][j]] = "none"
               \/ said'[e][j] \in Told(log'[r])
               \/ \E x \in batch'[e] : said'[e][x] = said'[e][j]
    <3>1. \/ row[r][said[e][j]] = "none"
          \/ said[e][j] \in Told(log[r])
          \/ \E x \in batch[e] : said[e][x] = said[e][j]
      BY <1>1, <1>7 DEF Batch
    <3> QED
      BY <1>6, <1>7, <3>1
  <2> QED
    BY <2>1, <2>2, <2>3, <2>4 DEF Batch, r
<1>11. Recorded(e)'
  BY <1>7, <1>51 DEF Recorded, RecordedAt
<1>12. pc'[e] \in {"tools", "reject"} /\ (pc'[e] = "reject" => batch'[e] = {})
  <2>1. pc'[e] = IF batch[e] = {i} THEN "reject" ELSE "tools"
    BY <1>0, <1>3 DEF StoreTypes
  <2> QED
    BY <1>7, <2>1
<1>13. AtHand(e)'
  BY <1>6, <1>8, <1>9, <1>10, <1>11, <1>12 DEF AtHand
<1> QED
  BY <1>6, <1>13 DEF Accounted

\* The result of a rejected call.
LEMMA RejectedAccounted ==
  ASSUME TypeInv, NEW e \in Executors, RunInv(RunOf[e]), AtHand(e), AppendRejected(e)
  PROVE  Accounted(e)
<1> DEFINE r == RunOf[e]
           i == Min(rejects[e])
           c == said[e][i]
           rec == Result(c, FALSE)
<1>0. StoreTypes(r, e) /\ pc[e] = "reject" /\ rejects[e] # {}
  BY StoreFacts DEF AppendRejected
<1>1. /\ Unanswered(e, batch[e] \cup rejects[e]) /\ Asked(view[e]) = Asked(log[r]) /\ Batch(e)
      /\ batch[e] = {} /\ rejects[e] \subseteq 1 .. Len(said[e]) /\ Recorded(e)
  BY <1>0 DEF AtHand, StoreTypes, Places
<1>2. i \in rejects[e] /\ c \in Calls
  <2>1. rejects[e] \in SUBSET Nat /\ said[e] \in Seq(Calls)
    BY <1>0 DEF StoreTypes
  <2> QED
    BY <1>0, <1>1, <2>1, FirstPosition
<1>3. \/ pc' = [pc EXCEPT ![e] = "settle"] /\ UNCHANGED log
      \/ /\ c \notin Told(log[r])
         /\ log' = [log EXCEPT ![r] = Append(@, rec)] /\ view' = [view EXCEPT ![e] = Append(@, rec)]
         /\ rejects' = [rejects EXCEPT ![e] = @ \ {i}] /\ UNCHANGED pc
  BY DEF AppendRejected, Return
<1>4. UNCHANGED <<row, said, batch>>
  BY DEF AppendRejected
<1>5. CASE pc' = [pc EXCEPT ![e] = "settle"] /\ UNCHANGED log
  <2>1. pc'[e] = "settle"
    BY <1>0, <1>5 DEF StoreTypes
  <2>2. RunInv(r)'
    BY <1>4, <1>5 DEF RunInv, Past
  <2> QED
    BY <2>1, <2>2 DEF Accounted
<1>6. CASE /\ c \notin Told(log[r])
           /\ log' = [log EXCEPT ![r] = Append(@, rec)] /\ view' = [view EXCEPT ![e] = Append(@, rec)]
           /\ rejects' = [rejects EXCEPT ![e] = @ \ {i}] /\ UNCHANGED pc
  <2>0. PICK P \in SUBSET Nat : P = rejects[e]
    BY <1>0 DEF StoreTypes
  <2>1. row[r][c] = "none"
    BY <1>1, <1>2, <1>6 DEF Batch
  <2>2. row[r][c] = "none" => Agreeing(rec, row[r])
    <3>1. rec.ok = FALSE /\ rec.calls = <<c>>
      BY DEF Result
    <3>2. Head(<<c>>) = c
      OBVIOUS
    <3> QED
      BY <3>1, <3>2 DEF Agreeing, CallOf
  <2>3. /\ RunInv(r)'
        /\ Asked(log'[r]) = Asked(log[r]) /\ Told(log'[r]) = Told(log[r]) \cup {c}
        /\ Unanswered(e, (P \ {Min(P)}) \cup {})'
    <3>1. /\ {} \in SUBSET Nat /\ P \cap {} = {} /\ P # {}
          /\ \A j \in {} : Min(P) < j
          /\ FALSE \in BOOLEAN /\ said'[e] = said[e] /\ c = said[e][Min(P)]
      BY <1>0, <1>4, <2>0
    <3>2. batch[e] \cup rejects[e] = P \cup {}
      BY <1>1, <2>0
    <3>3. Unanswered(e, P \cup {})
      BY <1>1, <3>2
    <3>4. row[r][c] # "running"
      BY <2>1
    <3> HIDE DEF c
    <3> QED
      BY <1>2, <1>4, <1>6, <2>1, <2>2, <3>1, <3>3, <3>4, ResultWritten
  <2>4. batch'[e] = {} /\ rejects'[e] = rejects[e] \ {i} /\ said'[e] = said[e] /\ row' = row
        /\ pc'[e] = "reject"
    BY <1>0, <1>1, <1>4, <1>6 DEF StoreTypes
  <2>5. Unanswered(e, batch[e] \cup rejects[e])'
    <3>1. (P \ {Min(P)}) \cup {} = batch'[e] \cup rejects'[e]
      BY <2>0, <2>4
    <3> QED
      BY <2>3, <3>1 DEF Unanswered
  <2>6. Asked(view'[e]) = Asked(log'[r])
    <3>1. view'[e] = Append(view[e], rec) /\ view[e] \in Seq(Records) /\ rec \in Records
      BY <1>0, <1>2, <1>6, RecordTypes DEF StoreTypes
    <3>2. rec.type = "result"
      BY DEF Result
    <3> HIDE DEF rec
    <3>3. Asked(view'[e]) = Asked(view[e])
      BY <3>1, <3>2, RecordAppended
    <3> QED
      BY <1>1, <2>3, <3>3
  <2>7. Batch(e)'
    <3>1. ASSUME NEW j \in rejects'[e]
          PROVE  row'[r][said'[e][j]] = "none" \/ said'[e][j] \in Told(log'[r])
      BY <1>1, <2>3, <2>4 DEF Batch
    <3>2. said'[e] # <<>> /\ batch'[e] \cap rejects'[e] = {}
      BY <1>1, <2>4 DEF Batch
    <3> QED
      BY <2>4, <3>1, <3>2 DEF Batch
  <2>8. Recorded(e)'
    <3>1. PICK k \in Nat : RecordedAt(e, k, log[r])
      BY <1>1 DEF Recorded
    <3>2. log'[r] = Append(log[r], rec) /\ log[r] \in Seq(Records) /\ rec \in Records
      BY <1>0, <1>2, <1>6, RecordTypes DEF StoreTypes
    <3> HIDE DEF i, rec
    <3>3. RecordedAt(e, k, log'[r])
      BY <3>1, <3>2, RecordedKept
    <3> QED
      BY <2>4, <3>3 DEF Recorded, RecordedAt
  <2> HIDE DEF i, rec
  <2>9. AtHand(e)'
    BY <2>3, <2>4, <2>5, <2>6, <2>7, <2>8 DEF AtHand
  <2> QED
    BY <2>3, <2>9 DEF Accounted
<1> QED
  BY <1>3, <1>5, <1>6

\* The first executor of a run writes the prompt, another one reads the log.
LEMMA PrepareAccounted ==
  ASSUME TypeInv, NEW e \in Executors, RunInv(RunOf[e]), Prepare(e)
  PROVE  Accounted(e)
<1> DEFINE r == RunOf[e]
<1>0. StoreTypes(r, e)
  BY StoreFacts
<1>1. \/ pc' = [pc EXCEPT ![e] = "settle"] /\ UNCHANGED log
      \/ /\ log' = [log EXCEPT ![r] = IF @ = <<>> THEN <<Prompt>> ELSE @]
         /\ view' = [view EXCEPT ![e] = log'[r]]
         /\ pc' = [pc EXCEPT ![e] = "restore"]
  BY DEF Prepare, Return
<1>2. UNCHANGED row
  BY DEF Prepare
<1>3. CASE pc' = [pc EXCEPT ![e] = "settle"] /\ UNCHANGED log
  <2>1. pc'[e] = "settle"
    BY <1>0, <1>3 DEF StoreTypes
  <2>2. RunInv(r)'
    BY <1>2, <1>3 DEF RunInv, Past
  <2> QED
    BY <2>1, <2>2 DEF Accounted
<1>4. CASE /\ log' = [log EXCEPT ![r] = IF @ = <<>> THEN <<Prompt>> ELSE @]
           /\ view' = [view EXCEPT ![e] = log'[r]]
           /\ pc' = [pc EXCEPT ![e] = "restore"]
  <2>1. /\ log'[r] = IF log[r] = <<>> THEN <<Prompt>> ELSE log[r]
        /\ view'[e] = log'[r] /\ pc'[e] = "restore"
    BY <1>0, <1>4 DEF StoreTypes
  <2>2. AtHand(e)'
    BY <2>1 DEF AtHand, Past
  <2>3. CASE log[r] # <<>>
    <3>1. log'[r] = log[r]
      BY <2>1, <2>3
    <3>2. RunInv(r)'
      BY <1>2, <3>1 DEF RunInv, Past
    <3> QED
      BY <2>2, <3>2 DEF Accounted
  <2>4. CASE log[r] = <<>>
    <3> DEFINE q == <<>>
               rows == row[r]
    <3>1. log'[r] = Append(q, Prompt) /\ q \in Seq(Records) /\ Prompt \in Records
      BY <2>1, <2>4, RecordTypes
    <3>2. Prompt.type = "input"
      BY DEF Prompt
    <3>3. Asked(q) = {} /\ Told(q) = {}
      BY DEF Asked, Told
    <3> HIDE DEF q, rows
    <3>4. Replayed(q, rows) = RestoreStart
      BY RecordTypes, ReplayEmpty DEF q
    <3>5. RestoreStart \in Replays(Calls)
      <4>1. <<>> \in Seq(Calls)
        OBVIOUS
      <4> QED
        BY <4>1 DEF RestoreStart, Replays
    <3>6. Replayed(Append(q, Prompt), rows) = RestoreRecord(RestoreStart, Prompt, rows)
      BY <3>1, <3>4, RecordTypes, ReplayAppend
    <3>7. RestoreStart.verdict = "continue" /\ RestoreStart.pending = <<>> /\ RestoreStart.answers = 0
      BY DEF RestoreStart
    <3>8. Replayed(Append(q, Prompt), rows) = RestoreStart
      <4> DEFINE b == RestoreRecord(RestoreStart, Prompt, rows)
      <4> HIDE DEF b
      <4>1. b = IF RestoreStart.pending # <<>> \/ (Prompt = Prompt /\ RestoreStart.answers > 0)
                THEN Refused(RestoreStart, "corrupt") ELSE RestoreStart
        BY <3>2, <3>5, <3>7, RestoreCases DEF b
      <4>2. b = RestoreStart
        BY <3>7, <4>1
      <4> QED
        BY <3>6, <4>2 DEF b
    <3>9. Asked(Append(q, Prompt)) = {} /\ Told(Append(q, Prompt)) = {}
      BY <3>1, <3>2, <3>3, RecordAppended
    <3>10. Past(r)' = RestoreStart
      BY <1>2, <3>1, <3>8 DEF Past, rows
    <3>11. ToSet(Past(r)'.pending) = {}
      BY <3>7, <3>10 DEF ToSet
    <3>12. RunInv(r)'
      BY <1>2, <3>1, <3>7, <3>9, <3>10, <3>11 DEF RunInv
    <3> QED
      BY <2>2, <3>12 DEF Accounted
  <2> QED
    BY <2>3, <2>4
<1> QED
  BY <1>1, <1>3, <1>4

\* A final answer or a batch of calls, when no call is pending.
LEMMA AssistantWritten ==
  ASSUME TypeInv, NEW e \in Executors, NEW calls \in Seq(Calls),
         RunInv(RunOf[e]), Past(RunOf[e]).pending = <<>>,
         log' = [log EXCEPT ![RunOf[e]] = Append(@, Assistant(calls))],
         view' = [view EXCEPT ![e] = Append(@, Assistant(calls))], Asked(view[e]) = Asked(log[RunOf[e]]),
         UNCHANGED row
  PROVE  LET r == RunOf[e] IN
         /\ RunInv(r)' /\ Past(r)'.pending = calls
         /\ Asked(view'[e]) = Asked(log'[r]) /\ Told(log'[r]) = Told(log[r])
<1> DEFINE r == RunOf[e]
           rec == Assistant(calls)
           q == log[r]
           rows == row[r]
<1>0. StoreTypes(r, e)
  BY StoreFacts
<1>1. rec \in Records /\ rec.type = "assistant" /\ rec.calls = calls
  BY RecordTypes DEF Assistant
<1>3. q \in Seq(Records) /\ Replayed(q, rows).verdict = "continue" /\ Replayed(q, rows).pending = <<>>
  BY <1>0 DEF StoreTypes, RunInv, Past
<1> HIDE DEF rec, q, rows
<1>4. /\ log'[r] = Append(q, rec) /\ Past(r)' = Replayed(Append(q, rec), rows)
      /\ Asked(log'[r]) = Asked(q) \cup ToSet(calls) /\ Told(log'[r]) = Told(q)
  <2>1. /\ log'[r] = Append(log[r], rec)
        /\ Past(r)' = Replayed(Append(log[r], rec), row[r])
        /\ Asked(log'[r]) =
              Asked(log[r]) \cup (IF rec.type = "assistant" THEN ToSet(rec.calls) ELSE {})
        /\ Told(log'[r]) = Told(log[r]) \cup (IF rec.type = "result" THEN {CallOf(rec)} ELSE {})
    BY <1>1, RecordWritten DEF rec
  <2> QED
    BY <1>1, <2>1 DEF q, rows
<1>5. Past(r)'.verdict = "continue" /\ Past(r)'.pending = calls
  BY <1>3, <1>4, AnswerReplayed DEF rec
<1>6. Asked(q) = Told(q)
  <2>1. ToSet(Past(r).pending) = {}
    BY DEF ToSet
  <2> QED
    BY <2>1 DEF RunInv, q
<1>7. RunInv(r)'
  BY <1>4, <1>5, <1>6 DEF RunInv, q
<1>8. Asked(view'[e]) = Asked(log'[r])
  <2>1. view'[e] = Append(view[e], rec) /\ view[e] \in Seq(Records)
    BY <1>0 DEF StoreTypes, rec
  <2>2. Asked(view'[e]) = Asked(view[e]) \cup ToSet(calls)
    BY <1>1, <2>1, RecordAppended
  <2> QED
    BY <1>4, <2>2 DEF q
<1> QED
  BY <1>4, <1>5, <1>7, <1>8 DEF q

\* The final answer.
LEMMA FinalAccounted ==
  ASSUME TypeInv, NEW e \in Executors, RunInv(RunOf[e]), AtHand(e), AppendFinal(e)
  PROVE  Accounted(e)
<1> DEFINE r == RunOf[e]
<1>0. StoreTypes(r, e) /\ pc[e] = "final"
  BY StoreFacts DEF AppendFinal
<1>1. /\ log' = [log EXCEPT ![r] = Append(@, Assistant(<<>>))]
      /\ view' = [view EXCEPT ![e] = Append(@, Assistant(<<>>))]
      /\ UNCHANGED row
      /\ \E p \in {"claimFinal", "settle"} : pc' = [pc EXCEPT ![e] = p]
  BY DEF AppendFinal, Return, Final
<1>2. Past(r).pending = <<>> /\ Asked(view[e]) = Asked(log[r]) /\ <<>> \in Seq(Calls)
  BY <1>0 DEF AtHand
<1>3. /\ RunInv(r)' /\ Past(r)'.pending = <<>> /\ Asked(view'[e]) = Asked(log'[r])
  BY <1>1, <1>2, AssistantWritten
<1>4. pc'[e] \in {"claimFinal", "settle"}
  BY <1>0, <1>1 DEF StoreTypes
<1>5. pc'[e] = "claimFinal" => AtHand(e)'
  BY <1>3 DEF AtHand
<1> QED
  BY <1>3, <1>4, <1>5 DEF Accounted

\* A batch of calls.
LEMMA CallsAccounted ==
  ASSUME TypeInv, NEW e \in Executors, RunInv(RunOf[e]), AtHand(e), AppendCalls(e)
  PROVE  Accounted(e)
<1> DEFINE r == RunOf[e]
           calls == said[e]
<1>0. StoreTypes(r, e) /\ pc[e] = "calls"
  BY StoreFacts DEF AppendCalls
<1>1. /\ log' = [log EXCEPT ![r] = Append(@, Assistant(calls))]
      /\ view' = [view EXCEPT ![e] = Append(@, Assistant(calls))]
      /\ UNCHANGED <<row, said, batch, rejects>>
      /\ \E p \in {IF batch[e] # {} THEN "tools" ELSE "reject", "settle"} : pc' = [pc EXCEPT ![e] = p]
  BY DEF AppendCalls, Return, loopVars
<1>2. /\ Past(r).pending = <<>> /\ Asked(view[e]) = Asked(log[r]) /\ calls \in Seq(Calls) /\ Batch(e)
      /\ Divided(e) /\ batch[e] \cup rejects[e] = 1 .. Len(calls)
  BY <1>0 DEF AtHand, StoreTypes, Places, Divided
<1>3. /\ RunInv(r)' /\ Past(r)'.pending = calls /\ Asked(view'[e]) = Asked(log'[r])
      /\ Told(log'[r]) = Told(log[r])
  <2>1. calls # <<>>
    BY <1>2 DEF Batch
  <2> HIDE DEF calls
  <2> QED
    BY <1>1, <1>2, <2>1, AssistantWritten
<1>4. pc'[e] = "settle" \/ (pc'[e] = IF batch[e] # {} THEN "tools" ELSE "reject")
  BY <1>0, <1>1 DEF StoreTypes
<1>5. Unanswered(e, batch[e] \cup rejects[e])'
  <2>1. 0 \in 0 .. Len(calls) /\ 0 + 1 = 1 /\ calls = SubSeq(calls, 1, Len(calls))
    BY <1>2
  <2> QED
    BY <1>1, <1>2, <1>3, <2>1 DEF Unanswered
<1>6. Batch(e)'
  BY <1>1, <1>2, <1>3 DEF Batch
<1>7. Recorded(e)'
  <2> DEFINE n == Len(log[r])
             p == log'[r]
             rec == Assistant(calls)
  <2>1. p = Append(log[r], rec) /\ log[r] \in Seq(Records) /\ rec \in Records /\ n \in Nat
    BY <1>0, <1>1, <1>2, RecordTypes DEF StoreTypes
  <2>2. SubSeq(p, 1, (n + 1) - 1) = SubSeq(log[r], 1, (n + 1) - 1) /\ Len(p) = n + 1
    <3>1. n + 1 \in 1 .. Len(log[r]) + 1
      BY <2>1
    <3> HIDE DEF rec
    <3> QED
      BY <2>1, <3>1, AppendBefore
  <2>3. SubSeq(log[r], 1, (n + 1) - 1) = log[r]
    BY <2>1
  <2>4. p[n + 1] = rec
    <3> HIDE DEF rec
    <3> QED
      BY <2>1
  <2> HIDE DEF n, p
  <2>5. n + 1 \in 1 .. Len(p) /\ n + 1 \in Nat
    BY <2>1, <2>2
  <2>6. batch[e] = Executable(Asked(SubSeq(p, 1, (n + 1) - 1)), calls) /\ rejects[e] \cap batch[e] = {}
    BY <1>2, <2>2, <2>3 DEF Divided
  <2>7. RecordedAt(e, n + 1, p)
    BY <2>4, <2>5, <2>6 DEF RecordedAt
  <2> QED
    BY <1>1, <2>5, <2>7 DEF Recorded, RecordedAt, p
<1>8. pc'[e] # "settle" => AtHand(e)'
  BY <1>1, <1>3, <1>4, <1>5, <1>6, <1>7 DEF AtHand
<1> QED
  BY <1>3, <1>8 DEF Accounted

\* Who has a result was asked.
LEMMA ToldCalls ==
  ASSUME NEW q \in Seq(Records), Told(q) \subseteq Asked(q)
  PROVE  Told(q) \subseteq Calls
<1>1. \A i \in 1 .. Len(q) : q[i].calls \in Seq(Calls)
  <2>1. \A i \in 1 .. Len(q) : q[i] \in Records
    OBVIOUS
  <2> QED
    BY <2>1 DEF Records
<1>2. \A s \in Seq(Calls) : ToSet(s) \subseteq Calls
  BY DEF ToSet
<1>3. Asked(q) \subseteq Calls
  BY <1>1, <1>2 DEF Asked
<1> QED
  BY <1>3

\* A call that starts has no result; nothing else changes for the log.
LEMMA ToolAccounted ==
  ASSUME TypeInv, NEW e \in Executors, RunInv(RunOf[e]), AtHand(e), NEW i \in batch[e], StartTool(e, i)
  PROVE  Accounted(e)
<1> DEFINE r == RunOf[e]
           c == said[e][i]
<1>0. StoreTypes(r, e) /\ pc[e] = "tools"
  BY StoreFacts DEF StartTool
<1>1. /\ Unanswered(e, batch[e] \cup rejects[e]) /\ Asked(view[e]) = Asked(log[r]) /\ Batch(e)
      /\ c \in Calls /\ Recorded(e)
  BY <1>0 DEF AtHand, StoreTypes, Places
<1>2. /\ row' = [row EXCEPT ![r][c] = "running"]
      /\ pc' = [d \in Executors |-> IF d = ChildOf[<<r, c>>] THEN "started" ELSE pc[d]]
      /\ UNCHANGED <<log, view, said, batch, rejects>>
  BY DEF StartTool, loopVars
<1>3. row'[r][c] = "running" /\ \A d \in Calls \ {c} : row'[r][d] = row[r][d]
  BY <1>0, <1>1, <1>2 DEF StoreTypes
<1>4. c \in Advertised /\ c \notin Told(log[r])
  BY <1>1 DEF Batch
<1> HIDE DEF c
<1>5. Past(r)' = Past(r)
  <2>1. Told(log[r]) \subseteq Calls
    BY <1>0, ToldCalls DEF StoreTypes, RunInv
  <2>2. \A d \in Told(log[r]) : (row[r][d] = "succeeded") = (row'[r][d] = "succeeded")
    BY <1>3, <1>4, <2>1
  <2> QED
    BY <1>0, <1>2, <2>2, PastKept DEF StoreTypes
<1>6. RunInv(r)'
  BY <1>2, <1>3, <1>4, <1>5 DEF RunInv
<1>7. pc'[e] \in {"started", "tools"}
  BY <1>0, <1>2
<1>8. Batch(e)'
  <2>1. ASSUME NEW j \in rejects[e]
        PROVE  \/ row'[r][said[e][j]] = "none"
               \/ said[e][j] \in Told(log[r])
               \/ \E x \in batch[e] : said[e][x] = said[e][j]
    <3>1. said[e][j] \in Calls
      BY <1>0 DEF StoreTypes, Places
    <3>2. CASE said[e][j] = c
      BY <3>2 DEF c
    <3>3. CASE said[e][j] # c
      <4>1. row'[r][said[e][j]] = row[r][said[e][j]]
        BY <1>3, <3>1, <3>3
      <4> QED
        BY <1>1, <4>1 DEF Batch
    <3> QED
      BY <3>2, <3>3
  <2> QED
    BY <1>1, <1>2, <2>1 DEF Batch
<1>9. Unanswered(e, batch[e] \cup rejects[e])'
  BY <1>1, <1>2, <1>5 DEF Unanswered
<1>10. Recorded(e)'
  BY <1>1, <1>2 DEF Recorded, RecordedAt
<1>11. AtHand(e)'
  BY <1>1, <1>2, <1>7, <1>8, <1>9, <1>10 DEF AtHand
<1> QED
  BY <1>6, <1>11 DEF Accounted

\* What an executor that writes nothing does not disturb.
LEMMA RunInvSame ==
  ASSUME NEW r \in Runs, RunInv(r), UNCHANGED <<log, row>>
  PROVE  RunInv(r)' /\ Past(r)' = Past(r)
  BY DEF RunInv, Past

\* The records that were read are those of the log: what is pending is there.
LEMMA RestoreAccounted ==
  ASSUME TypeInv, NEW e \in Executors, RunInv(RunOf[e]), AtHand(e), Restore(e)
  PROVE  Accounted(e)
<1> DEFINE r == RunOf[e]
           past == Restored(view[e], row[RunOf[e]])
<1>0. StoreTypes(r, e) /\ pc[e] = "restore"
  BY StoreFacts DEF Restore
<1>1. /\ Replayed(view[e], row[r]) = Past(r) /\ Asked(view[e]) = Asked(log[r])
      /\ view[e] \in Seq(Records)
  BY <1>0 DEF AtHand, StoreTypes
<1>2. /\ past.pending \in Seq(Calls) /\ past.pending = Past(r).pending
      /\ past.verdict # "completed" => past.verdict = "continue"
  BY <1>1, RestoredType DEF RunInv
<1>3. /\ said' = [said EXCEPT ![e] = past.pending]
      /\ batch' = [batch EXCEPT ![e] = 1 .. Len(past.pending)]
      /\ UNCHANGED <<log, row, view>>
  BY DEF Restore, storeVars
<1>4. \/ pc' = [pc EXCEPT ![e] = "settle"]
      \/ pc' = [pc EXCEPT ![e] = IF past.pending = <<>> THEN "ask" ELSE "recover"]
  <2>1. CASE past.verdict = "completed"
    BY <2>1 DEF Restore, Return
  <2>2. CASE past.verdict = "continue"
    BY <1>2, <2>2 DEF Restore
  <2> QED
    BY <1>2, <2>1, <2>2
<1> HIDE DEF past
<1>5. /\ said'[e] = past.pending /\ batch'[e] = 1 .. Len(past.pending)
      /\ \/ pc'[e] = "settle"
         \/ pc'[e] = IF past.pending = <<>> THEN "ask" ELSE "recover"
  BY <1>0, <1>3, <1>4 DEF StoreTypes
<1>6. RunInv(r)' /\ Past(r)' = Past(r)
  BY <1>0, <1>3, RunInvSame DEF StoreTypes
<1>7. Unanswered(e, batch[e])'
  <2>1. 0 \in 0 .. Len(past.pending) /\ 0 + 1 = 1
        /\ past.pending = SubSeq(past.pending, 1, Len(past.pending))
    BY <1>2
  <2> QED
    BY <1>2, <1>5, <1>6, <2>1 DEF Unanswered
<1>8. Asked(view'[e]) = Asked(log'[r])
  BY <1>1, <1>3
<1>9. pc'[e] # "settle" => AtHand(e)'
  <2>1. CASE past.pending = <<>>
    <3>1. Past(r)'.pending = <<>>
      BY <1>2, <1>6, <2>1
    <3> QED
      BY <1>5, <1>6, <1>8, <2>1, <3>1 DEF AtHand
  <2>2. CASE past.pending # <<>>
    BY <1>5, <1>6, <1>7, <1>8, <2>2 DEF AtHand
  <2> QED
    BY <2>1, <2>2
<1> QED
  BY <1>6, <1>9 DEF Accounted

\* Of the calls of a response those are executed that were never asked before, each
\* once; the others have a result, are not advertised or are repeated.
LEMMA BatchChosen ==
  ASSUME TypeInv, NEW e \in Executors, NEW resp \in Seq(Calls), resp # <<>>,
         RunInv(RunOf[e]), Asked(view[e]) = Told(log[RunOf[e]]),
         said'[e] = resp, batch'[e] = Executable(Asked(view[e]), resp),
         rejects'[e] = (1 .. Len(resp)) \ Executable(Asked(view[e]), resp), UNCHANGED <<log, row>>
  PROVE  Batch(e)'
<1> DEFINE r == RunOf[e]
           P == Executable(Asked(view[e]), resp)
<1>1. \A i : i \in P <=> /\ i \in 1 .. Len(resp) /\ resp[i] \in Advertised
                         /\ resp[i] \notin Told(log[r])
                         /\ \A j \in 1 .. i - 1 : resp[j] # resp[i]
  BY DEF Executable
<1> HIDE DEF P
<1>2. ASSUME NEW i \in P, NEW j \in P, resp[i] = resp[j]
      PROVE  i = j
  <2>1. i \in Nat /\ j \in Nat /\ 1 <= i /\ 1 <= j
    BY <1>1
  <2>2. ~(i < j)
    <3> SUFFICES ASSUME i < j PROVE FALSE
      OBVIOUS
    <3>1. i \in 1 .. j - 1
      BY <2>1
    <3> QED
      BY <1>1, <1>2, <3>1
  <2>3. ~(j < i)
    <3> SUFFICES ASSUME j < i PROVE FALSE
      OBVIOUS
    <3>1. j \in 1 .. i - 1
      BY <2>1
    <3> QED
      BY <1>1, <1>2, <3>1
  <2> QED
    BY <2>1, <2>2, <2>3
<1>3. ASSUME NEW j \in (1 .. Len(resp)) \ P
      PROVE  \/ row[r][resp[j]] = "none" \/ resp[j] \in Told(log[r])
             \/ \E i \in P : resp[i] = resp[j]
  <2>1. resp[j] \in Calls
    OBVIOUS
  <2>2. CASE resp[j] \notin Advertised
    <3>1. row[r][resp[j]] # "none" => resp[j] \in Advertised
      BY <2>1 DEF RunInv
    <3> QED
      BY <2>2, <3>1
  <2>3. CASE resp[j] \in Advertised /\ resp[j] \notin Told(log[r])
    <3> DEFINE S == { i \in 1 .. Len(resp) : resp[i] = resp[j] }
    <3>1. S \in SUBSET Nat /\ j \in S
      OBVIOUS
    <3>2. PICK i \in S : \A x \in S : i <= x
      BY <3>1, LeastNatural
    <3>3. i \in 1 .. Len(resp) /\ resp[i] = resp[j]
      BY <3>2
    <3>4. ASSUME NEW x \in 1 .. i - 1
          PROVE  resp[x] # resp[i]
      <4>1. x \in 1 .. Len(resp) /\ ~(i <= x)
        BY <3>3
      <4>2. x \notin S
        BY <3>2, <4>1
      <4> QED
        BY <3>3, <4>1, <4>2
    <3>5. i \in P
      BY <1>1, <2>3, <3>3, <3>4
    <3> QED
      BY <3>3, <3>5
  <2> QED
    BY <2>2, <2>3
<1>4. batch'[e] = P /\ rejects'[e] = (1 .. Len(resp)) \ P /\ P \subseteq 1 .. Len(resp)
  BY <1>1 DEF P
<1>5. Batch(e)'
  BY <1>1, <1>2, <1>3, <1>4 DEF Batch
<1> QED
  BY <1>5

\* An answer of the provider.
LEMMA AskAccounted ==
  ASSUME TypeInv, NEW e \in Executors, RunInv(RunOf[e]), AtHand(e), NEW resp \in Responses, Ask(e, resp)
  PROVE  Accounted(e)
<1> DEFINE r == RunOf[e]
<1>0. StoreTypes(r, e) /\ pc[e] = "ask" /\ resp \in Seq(Calls)
  BY StoreFacts DEF Ask
<1>1. PICK looping \in BOOLEAN, final \in BOOLEAN :
        /\ resp = <<>> => final
        /\ view' = [view EXCEPT ![e] = IF looping THEN Append(@, User("notice")) ELSE @]
        /\ said' = [said EXCEPT ![e] = IF final \/ looping THEN <<>> ELSE resp]
        /\ batch' = [batch EXCEPT ![e] = IF final \/ looping THEN {} ELSE Executable(Asked(view[e]), resp)]
        /\ rejects' = [rejects EXCEPT ![e] =
             IF final \/ looping THEN {} ELSE (1 .. Len(resp)) \ Executable(Asked(view[e]), resp)]
        /\ pc' = [pc EXCEPT ![e] = CASE final -> "final" [] looping -> "ask" [] OTHER -> "calls"]
  BY DEF Ask
<1>2. UNCHANGED <<log, row>>
  BY DEF Ask, storeVars
<1>3. Past(r).pending = <<>> /\ Asked(view[e]) = Asked(log[r])
  BY <1>0 DEF AtHand
<1>4. Asked(log[r]) = Told(log[r])
  <2>1. ToSet(Past(r).pending) = {}
    BY <1>3 DEF ToSet
  <2> QED
    BY <2>1 DEF RunInv
<1>5. RunInv(r)' /\ Past(r)' = Past(r)
  BY <1>0, <1>2, RunInvSame DEF StoreTypes
<1>6. Asked(view'[e]) = Asked(log'[r])
  <2>1. view'[e] = IF looping THEN Append(view[e], User("notice")) ELSE view[e]
    BY <1>0, <1>1 DEF StoreTypes
  <2>2. view[e] \in Seq(Records) /\ User("notice") \in Records
    BY <1>0, RecordTypes DEF StoreTypes
  <2>3. User("notice").type = "input"
    BY DEF User
  <2>4. Asked(Append(view[e], User("notice"))) = Asked(view[e])
    BY <2>2, <2>3, RecordAppended
  <2> QED
    BY <1>2, <1>3, <2>1, <2>4
<1>7. CASE final \/ looping
  <2>1. pc'[e] \in {"final", "ask"}
    <3>1. pc'[e] = CASE final -> "final" [] looping -> "ask" [] OTHER -> "calls"
      BY <1>0, <1>1 DEF StoreTypes
    <3>2. CASE final
      BY <3>1, <3>2
    <3>3. CASE ~ final
      BY <1>7, <3>1, <3>3
    <3> QED
      BY <3>2, <3>3
  <2>2. AtHand(e)'
    BY <1>3, <1>5, <1>6, <2>1 DEF AtHand
  <2> QED
    BY <1>5, <2>2 DEF Accounted
<1>8. CASE ~ final /\ ~ looping
  <2>1. /\ pc'[e] = "calls" /\ said'[e] = resp /\ batch'[e] = Executable(Asked(view[e]), resp)
        /\ rejects'[e] = (1 .. Len(resp)) \ Executable(Asked(view[e]), resp) /\ resp # <<>>
    BY <1>0, <1>1, <1>8 DEF StoreTypes
  <2>2. Batch(e)' /\ Divided(e)'
    <3>1. Batch(e)'
      BY <1>0, <1>2, <1>3, <1>4, <2>1, BatchChosen
    <3>2. Divided(e)'
      BY <1>2, <1>3, <2>1 DEF Divided
    <3> QED
      BY <3>1, <3>2
  <2>3. AtHand(e)'
    BY <1>3, <1>5, <1>6, <2>1, <2>2 DEF AtHand
  <2> QED
    BY <1>5, <2>3 DEF Accounted
<1> QED
  BY <1>7, <1>8

\* The end of a step.
LEMMA StepAccounted ==
  ASSUME TypeInv, NEW e \in Executors, RunInv(RunOf[e]), AtHand(e), EndStep(e)
  PROVE  Accounted(e)
<1> DEFINE r == RunOf[e]
<1>0. StoreTypes(r, e) /\ pc[e] = "reject" /\ rejects[e] = {}
  BY StoreFacts DEF EndStep
<1>1. pc' = [pc EXCEPT ![e] = "claimStep"] /\ UNCHANGED <<log, row, view>>
  BY DEF EndStep, storeVars
<1>2. batch[e] = {} /\ Asked(view[e]) = Asked(log[r]) /\ Unanswered(e, batch[e] \cup rejects[e])
  BY <1>0 DEF AtHand
<1>3. Past(r).pending = <<>>
  <2>1. PICK k \in 0 .. Len(said[e]) :
          k + 1 .. Len(said[e]) = {} /\ Past(r).pending = SubSeq(said[e], k + 1, Len(said[e]))
    BY <1>0, <1>2 DEF Unanswered
  <2>2. said[e] \in Seq(Calls)
    BY <1>0 DEF StoreTypes
  <2> QED
    BY <2>1, <2>2, NothingLeft
<1>4. RunInv(r)' /\ Past(r)' = Past(r)
  BY <1>0, <1>1, RunInvSame DEF StoreTypes
<1>5. pc'[e] = "claimStep"
  BY <1>0, <1>1 DEF StoreTypes
<1>6. AtHand(e)'
  BY <1>1, <1>2, <1>3, <1>4, <1>5 DEF AtHand
<1> QED
  BY <1>4, <1>6 DEF Accounted

\* User messages ask for nothing.
LEMMA AskedClaim ==
  ASSUME NEW q \in Seq(Records), NEW users, users \in Seq(Records),
         \A i \in 1 .. Len(users) : users[i].type = "input"
  PROVE  Asked(q \o users) = Asked(q)
<1> DEFINE p == q \o users
           n == Len(q)
<1>1. /\ Len(p) = n + Len(users) /\ n \in Nat /\ Len(users) \in Nat
      /\ \A i \in 1 .. n : p[i] = q[i]
      /\ \A i \in 1 .. Len(users) : p[n + i] = users[i]
  OBVIOUS
<1> HIDE DEF p
<1>2. ASSUME NEW i \in 1 .. Len(p), p[i].type = "assistant"
      PROVE  i \in 1 .. n
  <2> SUFFICES ASSUME i > n PROVE FALSE
    BY <1>1
  <2>1. i - n \in 1 .. Len(users) /\ n + (i - n) = i
    BY <1>1
  <2>2. p[i] = users[i - n]
    BY <1>1, <2>1
  <2> QED
    BY <1>2, <2>1, <2>2
<1>3. \A i \in 1 .. n : i \in 1 .. Len(p)
  BY <1>1
<1>4. { i \in 1 .. Len(p) : p[i].type = "assistant" } = { i \in 1 .. n : q[i].type = "assistant" }
  BY <1>1, <1>2, <1>3
<1>5. Asked(p) = UNION { ToSet(p[i].calls) : i \in { j \in 1 .. Len(p) : p[j].type = "assistant" } }
  BY DEF Asked
<1>6. Asked(q) = UNION { ToSet(q[i].calls) : i \in { j \in 1 .. n : q[j].type = "assistant" } }
  BY DEF Asked
<1>7. \A i \in { j \in 1 .. n : q[j].type = "assistant" } : p[i] = q[i]
  BY <1>1
<1>8. Asked(p) = Asked(q)
  BY <1>4, <1>5, <1>6, <1>7
<1> QED
  BY <1>8 DEF p

\* What a claim appends.
LEMMA ClaimedUsers ==
  ASSUME TypeInv
  PROVE  LET users == [i \in 1 .. Len(inbox) |-> User(inbox[i])] IN
         /\ users \in Seq(Records) /\ Len(users) = Len(inbox) /\ Len(inbox) \in Nat
         /\ \A i \in 1 .. Len(users) : users[i].type = "input"
<1>1. inbox \in Seq(Steers)
  BY TypeInvFacts DEF LoopTypes
<1>2. \A s : User(s).type = "input"
  BY DEF User
<1>3. \A i \in 1 .. Len(inbox) : User(inbox[i]) \in Records
  BY <1>1, RecordTypes
<1> QED
  BY <1>1, <1>2, <1>3

\* What is claimed asks for nothing and is in the log already.
LEMMA ClaimAccounted ==
  ASSUME TypeInv, NEW e \in Executors, RunInv(RunOf[e]), AtHand(e), ClaimStep(e) \/ ClaimFinal(e)
  PROVE  Accounted(e)
<1> DEFINE r == RunOf[e]
           users == [i \in 1 .. Len(inbox) |-> User(inbox[i])]
<1>0. StoreTypes(r, e)
  BY StoreFacts
<1>1. UNCHANGED <<log, row>> /\ pc[e] \in {"claimStep", "claimFinal"}
      /\ \E p \in {"ask", "settle"} : pc' = [pc EXCEPT ![e] = p]
  BY DEF ClaimStep, ClaimFinal, storeVars, Return
<1>2. RunInv(r)' /\ Past(r)' = Past(r)
  BY <1>0, <1>1, RunInvSame DEF StoreTypes
<1>3. view' = [view EXCEPT ![e] = @ \o users]
  BY DEF ClaimStep, ClaimFinal, Claim
<1>4. users \in Seq(Records) /\ \A i \in 1 .. Len(users) : users[i].type = "input"
  BY ClaimedUsers
<1> HIDE DEF users
<1>5. Asked(view'[e]) = Asked(log'[r])
  <2>1. view'[e] = view[e] \o users /\ view[e] \in Seq(Records)
    BY <1>0, <1>3 DEF StoreTypes
  <2>2. Asked(view[e]) = Asked(log[r])
    BY <1>1 DEF AtHand
  <2> QED
    BY <1>1, <1>4, <2>1, <2>2, AskedClaim
<1>6. pc'[e] \in {"ask", "settle"}
  BY <1>0, <1>1 DEF StoreTypes
<1>7. Past(r).pending = <<>>
  BY <1>1 DEF AtHand
<1>8. pc'[e] = "ask" => AtHand(e)'
  BY <1>2, <1>5, <1>7 DEF AtHand
<1> QED
  BY <1>2, <1>6, <1>8 DEF Accounted

\* Together: every step of the writer.
LEMMA LoopAccounted ==
  ASSUME TypeInv, NEW e \in Executors, RunInv(RunOf[e]), AtHand(e), Loop(e), Calm(RunOf[e])'
  PROVE  Accounted(e)
<1>1. CASE FailLoop(e) \/ Notice(e)
  <2>1. pc' = [pc EXCEPT ![e] = "settle"] /\ UNCHANGED <<log, row>>
    BY <1>1 DEF FailLoop, Notice, Return, storeVars
  <2>2. pc'[e] = "settle" /\ RunOf[e] \in Runs
    BY <2>1, StoreFacts DEF StoreTypes
  <2> QED
    BY <2>1, <2>2, RunInvSame DEF Accounted
<1> QED
  BY <1>1, PrepareAccounted, RestoreAccounted, RecoverAccounted, AskAccounted, FinalAccounted,
     CallsAccounted, ToolAccounted, ResultAccounted, RejectedAccounted, StepAccounted, ClaimAccounted
  DEF Loop

-----------------------------------------------------------------------------
(* Wherever an executor stops, its log can be restored.                    *)

\* What the loop of e writes to run q: its own run, and not under a cancelled
\* context; only the prompt of an empty log is written by an executor that has not
\* read it, and only a recovered result is not shown to the model.
Writing(e, q) ==
  /\ q = RunOf[e] /\ ~ cancelled[e]
  /\ \/ pc[e] = "started" /\ log[q] = <<>> /\ log'[q] = <<Prompt>>
     \/ pc[e] = "recover" /\ \E c : log'[q] = Append(log[q], Result(c, TRUE))
     \/ /\ pc[e] \in {"final", "calls", "tools", "reject"}
        /\ \E rec : log'[q] = Append(log[q], rec) /\ view'[e] = Append(view[e], rec)

\* The loop writes to logs in no other way, and to rows only when it starts a tool.
LEMMA LoopWrites ==
  ASSUME TypeInv, NEW e \in Executors, Loop(e), NEW q \in Runs
  PROVE  /\ log'[q] = log[q] \/ Writing(e, q)
         /\ row'[q] = row[q] \/ (q = RunOf[e] /\ ~ cancelled[e] /\ pc[e] = "tools")
<1> DEFINE Own == /\ log'[q] = log[q] \/ Writing(e, q)
                  /\ row'[q] = row[q] \/ (q = RunOf[e] /\ ~ cancelled[e] /\ pc[e] = "tools")
<1>0. /\ log \in [Runs -> Seq(Records)] /\ row \in [Runs -> [Calls -> RowStates]]
      /\ view \in [Executors -> Seq(Records)]
  BY TypeInvFacts DEF LoopTypes
<1>a. ASSUME NEW rec, log' = [log EXCEPT ![RunOf[e]] = Append(@, rec)],
             view' = [view EXCEPT ![e] = Append(@, rec)], UNCHANGED row, ~ cancelled[e],
             pc[e] \in {"final", "calls", "tools", "reject"}
      PROVE  Own
  <2>1. log'[q] = log[q] \/ (q = RunOf[e] /\ log'[q] = Append(log[q], rec))
    BY <1>0, <1>a
  <2>2. view'[e] = Append(view[e], rec)
    BY <1>0, <1>a
  <2> QED
    BY <1>a, <2>1, <2>2 DEF Writing
<1>1. CASE Prepare(e)
  <2>1. CASE UNCHANGED log
    BY <1>1, <2>1 DEF Prepare
  <2>2. CASE log' = [log EXCEPT ![RunOf[e]] = IF @ = <<>> THEN <<Prompt>> ELSE @]
    <3>1. log'[q] = log[q] \/ (q = RunOf[e] /\ log[q] = <<>> /\ log'[q] = <<Prompt>>)
      BY <1>0, <2>2
    <3> QED
      BY <1>1, <3>1 DEF Prepare, Writing
  <2> QED
    BY <1>1, <2>1, <2>2 DEF Prepare
<1>2. CASE Restore(e)
  <2>1. UNCHANGED <<log, row>>
    BY <1>2 DEF Restore, storeVars
  <2> QED
    BY <2>1
<1>3. CASE Recover(e)
  <2>1. /\ pc[e] = "recover" /\ ~ cancelled[e] /\ UNCHANGED row
        /\ \/ UNCHANGED log
           \/ \E c : log' = [log EXCEPT ![RunOf[e]] = Append(@, Result(c, TRUE))]
    BY <1>3 DEF Recover
  <2>2. \/ log'[q] = log[q]
        \/ q = RunOf[e] /\ \E c : log'[q] = Append(log[q], Result(c, TRUE))
    BY <1>0, <2>1
  <2> QED
    BY <2>1, <2>2 DEF Writing
<1>4. ASSUME NEW resp \in Responses, Ask(e, resp)
      PROVE  Own
  <2>1. UNCHANGED <<log, row>>
    BY <1>4 DEF Ask, storeVars
  <2> QED
    BY <2>1
<1>5. CASE FailLoop(e) \/ EndStep(e) \/ ClaimStep(e) \/ ClaimFinal(e) \/ Notice(e)
  <2>1. UNCHANGED <<log, row>>
    BY <1>5 DEF FailLoop, EndStep, ClaimStep, ClaimFinal, Notice, storeVars
  <2> QED
    BY <2>1
<1>6. CASE AppendFinal(e)
  BY <1>6, <1>a DEF AppendFinal
<1>7. CASE AppendCalls(e)
  BY <1>7, <1>a DEF AppendCalls
<1>8. ASSUME NEW i \in batch[e], StartTool(e, i)
      PROVE  Own
  BY <1>0, <1>8 DEF StartTool
<1>9. CASE AppendResult(e)
  <2>1. PICK rec : rec = Result(said[e][Min(batch[e])], row[RunOf[e]][said[e][Min(batch[e])]] = "succeeded")
    OBVIOUS
  <2>2. /\ log' = [log EXCEPT ![RunOf[e]] = Append(@, rec)]
        /\ view' = [view EXCEPT ![e] = Append(@, rec)]
        /\ UNCHANGED row /\ ~ cancelled[e] /\ pc[e] = "tools"
    BY <1>9, <2>1 DEF AppendResult
  <2> QED
    BY <1>a, <2>2
<1>10. CASE AppendRejected(e)
  <2>1. /\ pc[e] = "reject" /\ ~ cancelled[e] /\ UNCHANGED row
        /\ \/ UNCHANGED log
           \/ \E rec : /\ log' = [log EXCEPT ![RunOf[e]] = Append(@, rec)]
                       /\ view' = [view EXCEPT ![e] = Append(@, rec)]
    BY <1>10 DEF AppendRejected
  <2> QED
    BY <1>a, <2>1
<1> HIDE DEF Own
<1>11. Own
  BY <1>1, <1>2, <1>3, <1>4, <1>5, <1>6, <1>7, <1>8, <1>9, <1>10 DEF Loop, Own
<1> QED
  BY <1>11 DEF Own

\* Outside of the loops only a steer writes to a log.
LEMMA TurnWrites ==
  ASSUME TypeInv,
         \/ \E r \in Runs : Begin(r) \/ Open(r) \/ Stop(r) \/ Interrupt(r)
                             \/ \E c \in Calls : FinishTool(r, c)
         \/ \E e \in Executors : Start(e) \/ Exit(e)
         \/ \E s \in Steers : Steer(s),
         NEW q \in Runs
  PROVE  log'[q] = log[q] \/ \E s \in Steers : log'[q] = Append(log[q], User(s)) /\ UNCHANGED row
<1>0. log \in [Runs -> Seq(Records)]
  BY TypeInvFacts DEF LoopTypes
<1>1. \/ UNCHANGED log
      \/ \E s \in Steers : SteerAppend(s)
  BY DEF Begin, Open, Stop, Interrupt, StopClear, StopSignal, FinishTool, Start, Exit, Settle, Leave,
         CheckSession, ClearInbox, Steer, SteerLook, SteerCheck, Enqueue, storeVars
<1>2. ASSUME NEW s \in Steers, SteerAppend(s)
      PROVE  log'[q] = log[q] \/ (log'[q] = Append(log[q], User(s)) /\ UNCHANGED row)
  <2>1. log' = [log EXCEPT ![target[s]] = Append(@, User(s))] /\ UNCHANGED row
    BY <1>2 DEF SteerAppend
  <2> QED
    BY <1>0, <2>1
<1> QED
  BY <1>1, <1>2

\* A log grows by one record at a time.
LEMMA LogGrows ==
  ASSUME TypeInv, [Next]_vars, NEW q \in Runs
  PROVE  /\ log[q] \in Seq(Records)
         /\ log'[q] = log[q] \/ \E rec \in Records : log'[q] = Append(log[q], rec)
<1>1. log[q] \in Seq(Records) /\ log'[q] \in Seq(Records)
  <2>1. TypeInv'
    BY TypeInvNext
  <2> QED
    BY <2>1 DEF TypeInv, TypeOK
<1>2. log'[q] = log[q] \/ \E rec : log'[q] = Append(log[q], rec)
  <2>1. ASSUME NEW e \in Executors, Loop(e)
        PROVE  log'[q] = log[q] \/ \E rec : log'[q] = Append(log[q], rec)
    <3>1. Append(<<>>, Prompt) = <<Prompt>>
      OBVIOUS
    <3>2. log'[q] = log[q] \/ Writing(e, q)
      BY <2>1, LoopWrites
    <3> QED
      BY <3>1, <3>2 DEF Writing
  <2>2. CASE UNCHANGED vars
    BY <2>2 DEF vars, storeVars
  <2> QED
    BY <2>1, <2>2, TurnWrites DEF Next
<1>3. ASSUME NEW rec, log'[q] = Append(log[q], rec)
      PROVE  rec \in Records
  <2>1. Len(log'[q]) = Len(log[q]) + 1 /\ Len(log[q]) \in Nat /\ log'[q][Len(log[q]) + 1] = rec
    BY <1>1, <1>3, SequenceAppend DEF Sequence
  <2>2. Len(log[q]) + 1 \in 1 .. Len(log'[q])
    BY <2>1
  <2> QED
    BY <1>1, <2>1, <2>2
<1> QED
  BY <1>1, <1>2, <1>3

\* A log that is not disturbed never was.
LEMMA CalmBefore ==
  ASSUME TypeInv, [Next]_vars, NEW q \in Runs, Calm(q)'
  PROVE  Calm(q)
<1>1. /\ log[q] \in Seq(Records)
      /\ log'[q] = log[q] \/ \E rec \in Records : log'[q] = Append(log[q], rec)
  BY LogGrows
<1>2. ~ Disturbed(log'[q])
  BY DEF Calm
<1>3. ASSUME NEW rec \in Records, log'[q] = Append(log[q], rec)
      PROVE  ~ Disturbed(log[q])
  <2>1. ~ Disturbed(Append(log[q], rec))
    BY <1>2, <1>3
  <2> QED
    BY <1>1, <2>1, CalmAppend
<1> QED
  BY <1>1, <1>2, <1>3 DEF Calm

\* The logs that are not disturbed can be restored, and who writes to one knows it.
RestoreInv ==
  /\ \A r \in Runs : Calm(r) => RunInv(r)
  /\ \A e \in Executors : (Writes(e) /\ Calm(RunOf[e])) => AtHand(e)

\* The empty logs replay without a complaint.
LEMMA RestoreInvInit == Init => RestoreInv
<1> SUFFICES ASSUME Init PROVE RestoreInv
  OBVIOUS
<1>1. \A e \in Executors : pc[e] = "idle"
  BY DEF Init
<1>2. \A e \in Executors : ~ Writes(e)
  BY <1>1 DEF Writes, Working, LoopPcs
<1>3. ASSUME NEW r \in Runs
      PROVE  RunInv(r)
  <2>1. log[r] = <<>> /\ \A c \in Calls : row[r][c] = "none"
    BY DEF Init
  <2>2. Past(r) = RestoreStart
    <3> DEFINE rows == row[r]
    <3> HIDE DEF rows
    <3>1. Replayed(<<>>, rows) = RestoreStart
      BY ReplayEmpty
    <3> QED
      BY <2>1, <3>1 DEF Past, rows
  <2>3. Asked(<<>>) = {} /\ Told(<<>>) = {} /\ ToSet(<<>>) = {}
    BY DEF Asked, Told, ToSet
  <2> QED
    BY <2>1, <2>2, <2>3 DEF RunInv, RestoreStart
<1> QED
  BY <1>2, <1>3 DEF RestoreInv

\* A run that nobody touches is spared.
LEMMA SparedSame ==
  ASSUME NEW r \in Runs, log'[r] = log[r], row'[r] = row[r]
  PROVE  Spared(r) /\ (RunInv(r) => RunInv(r)')
<1>1. Past(r)' = Past(r)
  BY DEF Past
<1> QED
  BY <1>1 DEF Spared, RunInv

\* A steer that arrives while no call is pending leaves nothing to account for.
LEMMA SteerSpared ==
  ASSUME TypeInv, NEW r \in Runs, RunInv(r), Calm(r)', NEW s \in Steers,
         log'[r] = Append(log[r], User(s)), UNCHANGED row
  PROVE  RunInv(r)' /\ Spared(r)
<1> DEFINE q == log[r]
           rows == row[r]
           rec == User(s)
           acc == Replayed(q, rows)
<1>0. q \in Seq(Records) /\ Records = RecordsOf(Calls, Sources) /\ log'[r] = Append(q, rec)
  BY TypeInvFacts, RecordTypes DEF LoopTypes
<1>1. rec \in Records /\ rec.type = "input" /\ rec # Prompt
  <2>1. rec \in Records
    BY RecordTypes
  <2> QED
    BY <2>1, NotSteers DEF User
<1>2. Past(r) = acc /\ Past(r)' = Replayed(Append(q, rec), rows)
  BY DEF Past
<1>3. acc.verdict = "continue"
  BY <1>2 DEF RunInv
<1>4. ~ Disturbed(Append(q, rec))
  BY <1>0 DEF Calm
<1> HIDE DEF q, rows, rec, acc
<1>5. MayFollow(q, rec)
  BY <1>0, <1>1, <1>4, CalmAppend
<1>6. acc.pending = <<>>
  <2>1. Exact(q, rows)
    BY <1>0, ReplayExact
  <2>2. acc.pending = PendingOf(q)
    BY <1>3, <2>1 DEF Exact, acc
  <2>3. PendingOf(q) = <<>>
    BY <1>0, <1>1, <1>5, PendingAppend
  <2> QED
    BY <2>2, <2>3
<1>7. Replayed(Append(q, rec), rows) = acc
  <2>1. acc \in Replays(Calls) /\ Replayed(Append(q, rec), rows) = RestoreRecord(acc, rec, rows)
    BY <1>0, <1>1, ReplayAppend DEF acc
  <2> DEFINE b == RestoreRecord(acc, rec, rows)
  <2> HIDE DEF b
  <2>2. b = IF acc.pending # <<>> \/ (rec = Prompt /\ acc.answers > 0)
            THEN Refused(acc, "corrupt") ELSE acc
    BY <1>1, <1>3, <2>1, RestoreCases DEF b
  <2>3. b = acc
    BY <1>1, <1>6, <2>2
  <2> QED
    BY <2>1, <2>3 DEF b
<1>8. Past(r)' = Past(r)
  BY <1>2, <1>7
<1>9. Asked(log'[r]) = Asked(log[r]) /\ Told(log'[r]) = Told(log[r])
  <2>1. /\ Asked(Append(q, rec)) = Asked(q) \cup {}
        /\ Told(Append(q, rec)) = Told(q) \cup {}
    BY <1>0, <1>1, RecordAppended
  <2> QED
    BY <1>0, <2>1 DEF q
<1>10. RunInv(r)'
  BY <1>8, <1>9 DEF RunInv
<1>11. Spared(r)
  BY <1>8, <1>9 DEF Spared
<1> QED
  BY <1>10, <1>11

\* A tool that ends has no result yet.
LEMMA FinishSpared ==
  ASSUME TypeInv, NEW r \in Runs, NEW c \in Calls, FinishTool(r, c), NEW q \in Runs, RunInv(q)
  PROVE  RunInv(q)' /\ Spared(q)
<1>0. log \in [Runs -> Seq(Records)] /\ row \in [Runs -> [Calls -> RowStates]]
  BY TypeInvFacts DEF LoopTypes
<1>1. UNCHANGED log /\ row[r][c] = "running"
  BY DEF FinishTool
<1>2. PICK how \in {"succeeded", "failed"} : row' = [row EXCEPT ![r][c] = how]
  BY DEF FinishTool
<1>3. CASE q # r
  <2>1. row'[q] = row[q]
    BY <1>0, <1>2, <1>3
  <2> QED
    BY <1>1, <2>1, SparedSame
<1>4. CASE q = r
  <2>1. row'[q][c] = how /\ \A d \in Calls \ {c} : row'[q][d] = row[q][d]
    BY <1>0, <1>2, <1>4
  <2>2. c \notin Told(log[q]) /\ c \in Advertised /\ Told(log[q]) \subseteq Calls
    <3>1. Told(log[q]) \subseteq Calls
      BY <1>0, ToldCalls DEF RunInv
    <3> QED
      BY <1>1, <1>4, <3>1 DEF RunInv
  <2>3. \A d \in Told(log[q]) : (row[q][d] = "succeeded") = (row'[q][d] = "succeeded")
    BY <2>1, <2>2
  <2>4. Past(q)' = Past(q)
    BY <1>0, <1>1, <2>3, PastKept
  <2>5. RunInv(q)'
    BY <1>1, <2>1, <2>2, <2>4 DEF RunInv
  <2>6. \A d \in Calls : row[q][d] = "none" => row'[q][d] = "none"
    BY <1>1, <1>4, <2>1
  <2>7. Spared(q)
    BY <1>1, <2>3, <2>4, <2>6 DEF Spared
  <2> QED
    BY <2>5, <2>7
<1> QED
  BY <1>3, <1>4

\* An executor that goes on and whose run is spared knows its log.
LEMMA AtHandSpared ==
  ASSUME TypeInv, RestoreInv, NEW d \in Executors, Writes(d), Calm(RunOf[d]), Spared(RunOf[d]),
         pc'[d] = pc[d], view'[d] = view[d], said'[d] = said[d], batch'[d] = batch[d],
         rejects'[d] = rejects[d]
  PROVE  AtHand(d)'
<1>1. AtHand(d)
  BY DEF RestoreInv
<1> QED
  BY <1>1, AtHandKept

\* The step of a loop keeps the logs in order, what the writer knows of them included.
LEMMA RestoreInvLoop ==
  ASSUME TypeInv, OneWriter, RestoreInv, NEW e \in Executors, Loop(e),
         \A r \in Runs : Calm(r)' => Calm(r)
  PROVE  RestoreInv'
<1>1. UNCHANGED cancelled
  BY LoopMoves DEF activeVars
<1>2. (Writes(e) /\ Calm(RunOf[e])') => Accounted(e)
  <2> SUFFICES ASSUME Writes(e), Calm(RunOf[e])' PROVE Accounted(e)
    OBVIOUS
  <2>1. Calm(RunOf[e]) /\ RunInv(RunOf[e]) /\ AtHand(e)
    BY DEF RestoreInv
  <2> QED
    BY <2>1, LoopAccounted
<1>3. ASSUME NEW r \in Runs, r # RunOf[e] \/ ~ Writes(e)
      PROVE  log'[r] = log[r] /\ row'[r] = row[r]
  <2>1. /\ log'[r] = log[r] \/ Writing(e, r)
        /\ row'[r] = row[r] \/ (r = RunOf[e] /\ ~ cancelled[e] /\ pc[e] = "tools")
    BY LoopWrites
  <2> QED
    BY <1>3, <2>1 DEF Writing, Writes, Working, LoopPcs
<1>4. ASSUME NEW r \in Runs, Calm(r)'
      PROVE  RunInv(r)'
  <2>1. RunInv(r)
    BY <1>4 DEF RestoreInv
  <2>2. CASE r = RunOf[e] /\ Writes(e)
    BY <1>2, <1>4, <2>2 DEF Accounted
  <2>3. CASE r # RunOf[e] \/ ~ Writes(e)
    BY <1>3, <2>1, <2>3, SparedSame
  <2> QED
    BY <2>2, <2>3
<1>5. ASSUME NEW d \in Executors, Writes(d)', Calm(RunOf[d])'
      PROVE  AtHand(d)'
  <2>1. CASE d = e
    <3>1. pc[e] \in Working
      BY LoopMoves
    <3>2. Writes(e) /\ pc'[e] # "settle"
      BY <1>1, <1>5, <2>1, <3>1 DEF Writes, Working, LoopPcs
    <3> QED
      BY <1>2, <1>5, <2>1, <3>2 DEF Accounted
  <2>2. CASE d # e
    <3>1. /\ view'[d] = view[d] /\ said'[d] = said[d] /\ batch'[d] = batch[d] /\ rejects'[d] = rejects[d]
          /\ pc'[d] = pc[d] \/ pc'[d] = "started"
      BY <2>2, LoopIsLocal
    <3>2. CASE pc'[d] = "started"
      BY <3>2, AtHandStarted
    <3>3. CASE pc'[d] = pc[d]
      <4>1. Writes(d) /\ Calm(RunOf[d]) /\ RunOf[d] \in Runs
        BY <1>1, <1>5, <3>3 DEF Writes
      <4>2. RunOf[d] # RunOf[e] \/ ~ Writes(e)
        BY <2>2, <4>1 DEF OneWriter
      <4>3. Spared(RunOf[d])
        BY <1>3, <4>1, <4>2, SparedSame
      <4> QED
        BY <3>1, <3>3, <4>1, <4>3, AtHandSpared
    <3> QED
      BY <3>1, <3>2, <3>3
  <2> QED
    BY <2>1, <2>2
<1> QED
  BY <1>4, <1>5 DEF RestoreInv

\* Nothing outside of the loops disturbs them: a tool ends, a steer is recorded.
LEMMA RestoreInvTurn ==
  ASSUME TypeInv, RestoreInv,
         \/ \E r \in Runs : Begin(r) \/ Open(r) \/ Stop(r) \/ Interrupt(r)
                             \/ \E c \in Calls : FinishTool(r, c)
         \/ \E e \in Executors : Start(e) \/ Exit(e)
         \/ \E s \in Steers : Steer(s),
         \A r \in Runs : Calm(r)' => Calm(r)
  PROVE  RestoreInv'
<1>1. ASSUME NEW q \in Runs, Calm(q)'
      PROVE  RunInv(q)' /\ Spared(q)
  <2>1. RunInv(q)
    BY <1>1 DEF RestoreInv
  <2>2. ASSUME NEW r \in Runs, NEW c \in Calls, FinishTool(r, c)
        PROVE  RunInv(q)' /\ Spared(q)
    BY <2>1, <2>2, FinishSpared
  <2>3. CASE UNCHANGED row
    <3>1. log'[q] = log[q] \/ \E s \in Steers : log'[q] = Append(log[q], User(s))
      BY TurnWrites
    <3>2. CASE log'[q] = log[q]
      BY <2>1, <2>3, <3>2, SparedSame
    <3>3. ASSUME NEW s \in Steers, log'[q] = Append(log[q], User(s))
          PROVE  RunInv(q)' /\ Spared(q)
      BY <1>1, <2>1, <2>3, <3>3, SteerSpared
    <3> QED
      BY <3>1, <3>2, <3>3
  <2>4. UNCHANGED row \/ \E r \in Runs, c \in Calls : FinishTool(r, c)
    BY DEF Begin, Open, Stop, Interrupt, StopClear, StopSignal, Start, Exit, Settle, Leave,
           CheckSession, ClearInbox, Steer, SteerLook, SteerCheck, SteerAppend, Enqueue, storeVars
  <2> QED
    BY <2>2, <2>3, <2>4
<1>2. \A d \in Executors : cancelled[d] => cancelled'[d]
  <2>1. UNCHANGED cancelled \/ \E S : Cancel(S)
    BY DEF Begin, Open, Stop, Interrupt, StopClear, StopSignal, FinishTool, Start, Exit, Settle,
           Leave, CheckSession, ClearInbox, Steer, SteerLook, SteerCheck, SteerAppend, Enqueue, activeVars
  <2> QED
    BY <2>1 DEF Cancel
<1>3. ASSUME NEW d \in Executors, Writes(d)', Calm(RunOf[d])'
      PROVE  AtHand(d)'
  <2>1. /\ UNCHANGED <<view, outcome, loopVars>>
        /\ \/ pc'[d] = pc[d]
           \/ pc[d] = "idle" /\ pc'[d] = "started" /\ d \notin Children
           \/ pc[d] \in {"settle", "leave", "left", "clear"} /\ pc'[d] \in {"leave", "left", "clear", "done"}
    BY TurnIsLocal
  <2>2. CASE pc'[d] = "started"
    BY <2>2, AtHandStarted
  <2>3. CASE pc'[d] = pc[d]
    <3>1. Writes(d) /\ RunOf[d] \in Runs /\ Calm(RunOf[d])
      BY <1>2, <1>3, <2>3 DEF Writes
    <3>2. view'[d] = view[d] /\ said'[d] = said[d] /\ batch'[d] = batch[d] /\ rejects'[d] = rejects[d]
      BY <2>1 DEF loopVars
    <3>3. Spared(RunOf[d])
      BY <1>1, <1>3, <3>1
    <3> QED
      BY <2>3, <3>1, <3>2, <3>3, AtHandSpared
  <2> QED
    BY <1>3, <2>1, <2>2, <2>3 DEF Writes, Working, LoopPcs
<1> QED
  BY <1>1, <1>3 DEF RestoreInv

\* Every step keeps the logs in order while one executor of a run writes.
LEMMA RestoreInvNext ==
  ASSUME TypeInv, OneWriter, RestoreInv, [Next]_vars
  PROVE  RestoreInv'
<1>1. \A r \in Runs : Calm(r)' => Calm(r)
  BY CalmBefore
<1>2. CASE UNCHANGED vars
  <2>1. UNCHANGED <<log, row, pc, cancelled, view, said, batch, rejects>>
    BY <1>2 DEF vars, storeVars, execVars, activeVars, loopVars
  <2>2. ASSUME NEW r \in Runs
        PROVE  Spared(r) /\ (RunInv(r) => RunInv(r)')
    BY <2>1, SparedSame
  <2>3. ASSUME NEW d \in Executors, Writes(d)', Calm(RunOf[d])'
        PROVE  AtHand(d)'
    <3>1. Writes(d) /\ RunOf[d] \in Runs /\ Calm(RunOf[d])
      BY <1>1, <2>1, <2>3 DEF Writes
    <3> QED
      BY <2>1, <2>2, <3>1, AtHandSpared
  <2>4. ASSUME NEW r \in Runs, Calm(r)'
        PROVE  RunInv(r)'
    BY <1>1, <2>2, <2>4 DEF RestoreInv
  <2> QED
    BY <2>3, <2>4 DEF RestoreInv
<1>3. CASE Next
  <2>1. ASSUME NEW e \in Executors, Loop(e)
        PROVE  RestoreInv'
    BY <1>1, <2>1, RestoreInvLoop
  <2> QED
    BY <1>1, <1>3, <2>1, RestoreInvTurn DEF Next
<1> QED
  BY <1>2, <1>3

\* Of a run's two executors only one writes at a time, however turns are submitted
\* again, paused, cancelled and steered: the second cancels the first.
THEOREM OneWriterOfTwo == (AtMostTwo /\ ChildrenApart) => (Spec => []OneWriter)
<1> SUFFICES ASSUME AtMostTwo, ChildrenApart
             PROVE  Spec => []OneWriter
  OBVIOUS
<1>1. Init => Alone
  <2> SUFFICES ASSUME Init PROVE Alone
    OBVIOUS
  <2>1. \A e \in Executors : pc[e] = "idle"
    BY DEF Init
  <2>2. \A e \in Executors : ~ Writes(e)
    BY <2>1 DEF Writes, Working, LoopPcs
  <2> QED
    BY <2>1, <2>2 DEF Alone, OneWriter, Registered
<1>2. TypeInv /\ Alone /\ [Next]_vars => Alone'
  BY AloneNext
<1>3. Alone => OneWriter
  BY DEF Alone
<1> QED
  BY <1>1, <1>2, <1>3, TypeInvInit, TypeInvNext, PTL DEF Spec

\* Any number of executors may run a turn one after the other, each cancelled,
\* stopped or crashed anywhere, while users steer and the model names what calls it
\* likes: as long as no two of them write at once, restore refuses a log only if a
\* user's message stands inside a batch or a rejected call was named too early.
THEOREM UndisturbedIsRestorable == Spec /\ []OneWriter => []RefusedOnlyDisturbed
<1>1. TypeInv /\ RestoreInv => RefusedOnlyDisturbed
  <2> SUFFICES ASSUME TypeInv, RestoreInv, NEW r \in Runs, ~ Disturbed(log[r])
               PROVE  Restorable(r)
    BY DEF RefusedOnlyDisturbed
  <2>1. log[r] \in Seq(Records) /\ Replayed(log[r], row[r]).verdict = "continue"
    BY TypeInvFacts DEF LoopTypes, RestoreInv, RunInv, Past, Calm
  <2> QED
    BY <2>1, RestoredType DEF Restorable
<1>2. TypeInv /\ OneWriter /\ RestoreInv /\ [Next]_vars => RestoreInv'
  BY RestoreInvNext
<1> QED
  BY <1>1, <1>2, RestoreInvInit, TypeInvInit, TypeInvNext, PTL DEF Spec

-----------------------------------------------------------------------------
(* A final answer ends its run.                                            *)

\* Only an assistant record becomes the latest one.
LEMMA LatestAppend ==
  ASSUME NEW q \in Seq(Records), NEW rec \in Records
  PROVE  Latest(Append(q, rec)) = IF rec.type = "assistant" THEN rec ELSE Latest(q)
<1> DEFINE p == Append(q, rec)
           n == Len(q)
           m == Asker(q, n + 1)
<1>1. n \in Nat /\ Len(p) + 1 = n + 2 /\ n + 1 # 0 /\ p[n + 1] = rec /\ \A i \in 1 .. n : p[i] = q[i]
  OBVIOUS
<1>2. Asker(p, n + 2) = IF rec.type = "assistant" THEN n + 1 ELSE m
  BY RecordTypes, AskerAppend
<1>3. m \in 0 .. n
  <2>1. n + 1 \in 1 .. Len(q) + 1 /\ (n + 1) - 1 = n
    BY <1>1
  <2> QED
    BY <2>1, RecordTypes, AskerIs
<1>4. Latest(q) = IF m = 0 THEN Prompt ELSE q[m]
  BY DEF Latest
<1>5. Latest(p) = IF Asker(p, n + 2) = 0 THEN Prompt ELSE p[Asker(p, n + 2)]
  BY <1>1 DEF Latest
<1> HIDE DEF p, n, m
<1>6. CASE rec.type = "assistant"
  BY <1>1, <1>2, <1>5, <1>6 DEF p
<1>7. CASE rec.type # "assistant"
  <2>1. m = 0 \/ m \in 1 .. n
    BY <1>1, <1>3
  <2> QED
    BY <1>1, <1>2, <1>4, <1>5, <1>7, <2>1 DEF p
<1> QED
  BY <1>6, <1>7

\* User messages leave it alone, and come last.
LEMMA LatestUsers ==
  ASSUME NEW q \in Seq(Records), NEW users \in Seq(Records),
         \A i \in 1 .. Len(users) : users[i].type = "input"
  PROVE  /\ Latest(q \o users) = Latest(q)
         /\ users # <<>> => Last(q \o users).type = "input"
<1> DEFINE p == q \o users
           n == Len(q)
           m == Asker(q, n + 1)
<1>1. /\ p \in Seq(Records) /\ n \in Nat /\ Len(users) \in Nat /\ Len(p) = n + Len(users)
      /\ \A i \in 1 .. n : p[i] = q[i]
      /\ \A i \in 1 .. Len(users) : p[n + i] = users[i]
  OBVIOUS
<1>2. Records = RecordsOf(Calls, Sources)
  BY RecordTypes
<1>3. /\ m \in 0 .. n /\ (m # 0 => q[m].type = "assistant")
      /\ \A j \in 1 .. n : q[j].type = "assistant" => j <= m
  <2>1. n + 1 \in 1 .. Len(q) + 1 /\ (n + 1) - 1 = n
    BY <1>1
  <2> QED
    BY <1>2, <2>1, AskerIs
<1>4. Latest(q) = IF m = 0 THEN Prompt ELSE q[m]
  BY DEF Latest
<1>5. Latest(p) = IF Asker(p, Len(p) + 1) = 0 THEN Prompt ELSE p[Asker(p, Len(p) + 1)]
  BY DEF Latest
<1>6. users # <<>> => Len(users) \in 1 .. Len(users) /\ Last(p) = p[n + Len(users)]
  <2>1. users # <<>> => Len(users) # 0
    OBVIOUS
  <2> QED
    BY <1>1, <2>1 DEF Last
<1> HIDE DEF p, n, m
<1>7. \A i \in 1 .. Len(p) : p[i].type = "assistant" => i \in 1 .. n
  <2> SUFFICES ASSUME NEW i \in 1 .. Len(p), p[i].type = "assistant", i > n PROVE FALSE
    BY <1>1
  <2>1. i - n \in 1 .. Len(users) /\ n + (i - n) = i
    BY <1>1
  <2>2. p[i] = users[i - n]
    BY <1>1, <2>1
  <2> QED
    BY <2>1, <2>2
<1>8. Asker(p, Len(p) + 1) = m
  <2>0. PICK i \in Nat : i = Len(p) + 1
    BY <1>1
  <2>1. i \in 1 .. Len(p) + 1 /\ m \in 0 .. i - 1
    BY <1>1, <1>3, <2>0
  <2>2. m # 0 => p[m].type = "assistant"
    BY <1>1, <1>3
  <2>3. \A j \in 1 .. i - 1 : p[j].type = "assistant" => j <= m
    BY <1>1, <1>3, <1>7, <2>0
  <2>4. p \in Seq(RecordsOf(Calls, Sources))
    BY <1>1, <1>2
  <2>5. Asker(p, i) = m
    BY <2>1, <2>2, <2>3, <2>4, AskerUnique
  <2> QED
    BY <2>0, <2>5
<1>9. Latest(p) = Latest(q)
  <2>1. m = 0 \/ m \in 1 .. n
    BY <1>1, <1>3
  <2> QED
    BY <1>1, <1>4, <1>5, <1>8, <2>1
<1>10. users # <<>> => Last(p).type = "input"
  BY <1>1, <1>6
<1> QED
  BY <1>9, <1>10 DEF p

\* Restore goes on only from a log whose latest assistant record is a batch, or that
\* ends in a user's message; what is pending belongs to a batch.
LEMMA LatestRestored ==
  ASSUME NEW q \in Seq(Records), NEW rows, Replayed(q, rows).verdict = "continue", Latest(q) = Final
  PROVE  /\ Replayed(q, rows).pending = <<>> /\ q # <<>>
         /\ Last(q) = Final \/ Last(q).type = "input"
<1> DEFINE n == Len(q)
           m == Asker(q, n + 1)
<1>1. /\ Records = RecordsOf(Calls, Sources) /\ n \in Nat /\ Prompt # Final
      /\ LastAsker(q) = m
  BY RecordTypes DEF Prompt, Final, Assistant, LastAsker
<1>2. /\ m \in 0 .. n /\ (m # 0 => q[m].type = "assistant")
      /\ \A j \in 1 .. n : q[j].type = "assistant" => j <= m
  <2>1. n + 1 \in 1 .. Len(q) + 1 /\ (n + 1) - 1 = n
    BY <1>1
  <2> QED
    BY <1>1, <2>1, AskerIs
<1>3. Latest(q) = IF m = 0 THEN Prompt ELSE q[m]
  BY DEF Latest
<1>4. m \in 1 .. n /\ q[m] = Final
  BY <1>1, <1>2, <1>3
<1>5. Final.calls = <<>>
  BY DEF Final, Assistant
<1>6. Exact(q, rows)
  BY <1>1, ReplayExact
<1>7. SoundLog(q, rows) /\ Replayed(q, rows).pending = PendingOf(q)
  BY <1>6 DEF Exact
<1>8. PendingOf(q) = <<>>
  <2>1. PendingOf(q) = SubSeq(q[m].calls, Given(q) + 1, Len(q[m].calls))
    <3>1. m # 0
      BY <1>4
    <3> HIDE DEF m
    <3> QED
      BY <1>1, <3>1 DEF PendingOf
  <2>2. Given(q) \in Nat
    <3>1. n - m \in Nat /\ Len(<<>>) \in Nat
      BY <1>4
    <3> QED
      BY <1>1, <1>4, <1>5, <3>1 DEF Given
  <2>3. \A k \in Nat : SubSeq(<<>>, k + 1, Len(<<>>)) = <<>>
    OBVIOUS
  <2> QED
    BY <1>4, <1>5, <2>1, <2>2, <2>3
<1>9. q # <<>> /\ Last(q) = q[n] /\ n \in 1 .. n
  BY <1>4 DEF Last
<1>10. CASE m = n
  BY <1>4, <1>7, <1>8, <1>9, <1>10
<1>11. CASE m # n
  <2>1. q[n] \in Records /\ q[n].type \in {"input", "assistant", "result"}
    <3>1. q[n] \in Records
      BY <1>9
    <3> QED
      BY <3>1 DEF Records
  <2>2. q[n].type # "assistant"
    BY <1>2, <1>4, <1>9, <1>11
  <2>3. Asker(q, n) = m
    <3>1. n \in 1 .. Len(q) + 1 /\ m \in 0 .. n - 1
      BY <1>1, <1>4, <1>9, <1>11
    <3>2. \A j \in 1 .. n - 1 : q[j].type = "assistant" => j <= m
      BY <1>1, <1>2
    <3> HIDE DEF n, m
    <3> QED
      BY <1>1, <1>2, <3>1, <3>2, AskerUnique
  <2>4. q[n].type = "result" => n - m <= Len(q[m].calls)
    BY <1>4, <1>7, <1>9, <2>3 DEF SoundLog, InOrder
  <2>5. Len(q[m].calls) = 0
    BY <1>4, <1>5
  <2>6. q[n].type # "result"
    BY <1>4, <1>11, <2>4, <2>5
  <2> QED
    BY <1>7, <1>8, <1>9, <2>1, <2>2, <2>6
<1> QED
  BY <1>10, <1>11

\* What the view of a writing executor tells of the latest answer: it is the log's,
\* and on a final answer goes on only who was shown a user's message since.
Knows(e) ==
  /\ pc[e] # "started" => Latest(view[e]) = Latest(log[RunOf[e]])
  /\ pc[e] \in {"recover", "tools", "reject", "claimStep"} => Latest(view[e]) # Final
  /\ pc[e] \in {"ask", "final", "calls"} => (Latest(view[e]) = Final => Last(view[e]).type = "input")
  /\ pc[e] = "calls" => said[e] # <<>>

EndInv == \A e \in Executors : Writes(e) => Knows(e)

\* A result that is written, and shown, changes nothing.
LEMMA KnowsResult ==
  ASSUME TypeInv, NEW e \in Executors, Knows(e), NEW c \in Calls, NEW ok \in BOOLEAN,
         pc[e] \in {"recover", "tools", "reject"},
         pc'[e] \in {"recover", "tools", "reject"} \/ (pc[e] = "recover" /\ pc'[e] = "ask"),
         log' = [log EXCEPT ![RunOf[e]] = Append(@, Result(c, ok))],
         view'[e] = view[e] \/ view'[e] = Append(view[e], Result(c, ok))
  PROVE  Knows(e)'
<1> DEFINE r == RunOf[e]
           rec == Result(c, ok)
<1>1. StoreTypes(r, e) /\ rec \in Records
  BY StoreFacts, RecordTypes
<1>2. rec.type = "result"
  BY DEF Result
<1>3. log'[r] = Append(log[r], rec)
  BY <1>1 DEF StoreTypes
<1> HIDE DEF rec
<1>4. Latest(log'[r]) = Latest(log[r])
  BY <1>1, <1>2, <1>3, LatestAppend DEF StoreTypes
<1>5. Latest(view'[e]) = Latest(view[e])
  <2>1. CASE view'[e] = view[e]
    BY <2>1
  <2>2. CASE view'[e] = Append(view[e], rec)
    BY <1>1, <1>2, <2>2, LatestAppend DEF StoreTypes
  <2> QED
    BY <2>1, <2>2 DEF rec
<1>6. Latest(view[e]) = Latest(log[r]) /\ Latest(view[e]) # Final
  BY DEF Knows
<1> QED
  BY <1>4, <1>5, <1>6 DEF Knows

\* Nothing is written and nothing is shown.
LEMMA KnowsSame ==
  ASSUME NEW e \in Executors, Knows(e), log'[RunOf[e]] = log[RunOf[e]], view'[e] = view[e],
         said'[e] = said[e], pc'[e] = pc[e] \/ (pc[e] = "reject" /\ pc'[e] = "claimStep")
  PROVE  Knows(e)'
  BY DEF Knows

\* An answer is written and shown.
LEMMA KnowsAnswer ==
  ASSUME TypeInv, NEW e \in Executors, NEW calls \in Seq(Calls),
         log' = [log EXCEPT ![RunOf[e]] = Append(@, Assistant(calls))],
         view' = [view EXCEPT ![e] = Append(@, Assistant(calls))],
         pc'[e] = "claimFinal" \/ (calls # <<>> /\ pc'[e] \in {"tools", "reject"})
  PROVE  Knows(e)'
<1> DEFINE r == RunOf[e]
           rec == Assistant(calls)
<1>1. StoreTypes(r, e) /\ rec \in Records
  BY StoreFacts, RecordTypes
<1>2. rec.type = "assistant" /\ (calls # <<>> => rec # Final)
  BY DEF Assistant, Final
<1>3. log'[r] = Append(log[r], rec) /\ view'[e] = Append(view[e], rec)
  BY <1>1 DEF StoreTypes
<1> HIDE DEF rec
<1>4. Latest(log'[r]) = rec
  BY <1>1, <1>2, <1>3, LatestAppend DEF StoreTypes
<1>5. Latest(view'[e]) = rec
  BY <1>1, <1>2, <1>3, LatestAppend DEF StoreTypes
<1> QED
  BY <1>2, <1>4, <1>5 DEF Knows

\* The history is read and restored.
LEMMA KnowsRestore ==
  ASSUME TypeInv, NEW e \in Executors, Knows(e), Restore(e)
  PROVE  pc'[e] = "settle" \/ Knows(e)'
<1> DEFINE r == RunOf[e]
           q == view[e]
           rows == row[r]
           past == Restored(q, rows)
<1>0. StoreTypes(r, e) /\ pc[e] = "restore"
  BY StoreFacts DEF Restore
<1>1. q \in Seq(Records) /\ UNCHANGED <<log, view>>
  BY <1>0 DEF StoreTypes, Restore, storeVars
<1> HIDE DEF q, rows
<1>2. /\ past.verdict \in {"continue", "corrupt", "blocked", "completed"}
      /\ past.pending = Replayed(q, rows).pending
      /\ past.verdict = "completed" <=>
              Replayed(q, rows).verdict = "continue" /\ q # <<>> /\ Last(q) = Final
      /\ past.verdict # "completed" => past.verdict = Replayed(q, rows).verdict
  BY <1>1, RestoredType
<1>3. \/ pc' = [pc EXCEPT ![e] = "settle"]
      \/ /\ past.verdict = "continue"
         /\ pc' = [pc EXCEPT ![e] = IF past.pending = <<>> THEN "ask" ELSE "recover"]
  <2>1. CASE past.verdict = "completed"
    BY <2>1 DEF Restore, Return, q, rows
  <2>2. CASE past.verdict \in {"corrupt", "blocked"}
    BY <2>2 DEF Restore, Return, q, rows
  <2>3. CASE past.verdict = "continue"
    BY <2>3 DEF Restore, q, rows
  <2> QED
    BY <1>2, <2>1, <2>2, <2>3
<1> HIDE DEF past
<1>4. CASE pc' = [pc EXCEPT ![e] = "settle"]
  BY <1>0, <1>4 DEF StoreTypes
<1>5. CASE /\ past.verdict = "continue"
           /\ pc' = [pc EXCEPT ![e] = IF past.pending = <<>> THEN "ask" ELSE "recover"]
  <2>1. pc'[e] = IF past.pending = <<>> THEN "ask" ELSE "recover"
    BY <1>0, <1>5 DEF StoreTypes
  <2>2. Replayed(q, rows).verdict = "continue" /\ ~ (q # <<>> /\ Last(q) = Final)
    BY <1>2, <1>5
  <2>3. Latest(q) = Final => past.pending = <<>> /\ Last(q).type = "input"
    BY <1>1, <1>2, <2>2, LatestRestored
  <2>4. Latest(q) = Latest(log[r])
    BY <1>0 DEF Knows, q
  <2> QED
    BY <1>1, <2>1, <2>3, <2>4 DEF Knows, q
<1> QED
  BY <1>3, <1>4, <1>5

\* A request is answered.
LEMMA KnowsAsk ==
  ASSUME TypeInv, NEW e \in Executors, Knows(e), NEW resp \in Responses, Ask(e, resp)
  PROVE  Knows(e)'
<1> DEFINE r == RunOf[e]
<1>0. StoreTypes(r, e) /\ pc[e] = "ask" /\ User("notice") \in Records
  BY StoreFacts, RecordTypes DEF Ask
<1>1. PICK looping \in BOOLEAN, final \in BOOLEAN :
        /\ resp = <<>> => final
        /\ looping => ~ final
        /\ view' = [view EXCEPT ![e] = IF looping THEN Append(@, User("notice")) ELSE @]
        /\ said' = [said EXCEPT ![e] = IF final \/ looping THEN <<>> ELSE resp]
        /\ pc' = [pc EXCEPT ![e] = CASE final -> "final" [] looping -> "ask" [] OTHER -> "calls"]
  BY DEF Ask
<1>2. UNCHANGED log
  BY DEF Ask, storeVars
<1>3. /\ view'[e] = IF looping THEN Append(view[e], User("notice")) ELSE view[e]
      /\ said'[e] = IF final \/ looping THEN <<>> ELSE resp
      /\ pc'[e] = CASE final -> "final" [] looping -> "ask" [] OTHER -> "calls"
  BY <1>0, <1>1 DEF StoreTypes
<1>4. Latest(view[e]) = Latest(log[r]) /\ (Latest(view[e]) = Final => Last(view[e]).type = "input")
  BY <1>0 DEF Knows
<1>5. CASE looping
  <2>1. pc'[e] = "ask" /\ view'[e] = Append(view[e], User("notice"))
    BY <1>1, <1>3, <1>5
  <2>2. User("notice").type = "input"
    BY DEF User
  <2>3. Last(view'[e]).type = "input" /\ Latest(view'[e]) = Latest(view[e])
    BY <1>0, <2>1, <2>2, RecordAppended, LatestAppend DEF StoreTypes
  <2> QED
    BY <1>2, <1>4, <2>1, <2>3 DEF Knows
<1>6. CASE ~ looping
  <2>1. view'[e] = view[e] /\ pc'[e] \in {"final", "calls"} /\ (pc'[e] = "calls" => said'[e] # <<>>)
    <3>1. CASE final
      BY <1>3, <1>6, <3>1
    <3>2. CASE ~ final
      BY <1>1, <1>3, <1>6, <3>2
    <3> QED
      BY <3>1, <3>2
  <2> QED
    BY <1>2, <1>4, <2>1 DEF Knows
<1> QED
  BY <1>5, <1>6

\* What was queued is claimed.
LEMMA KnowsClaim ==
  ASSUME TypeInv, NEW e \in Executors, Knows(e), ClaimStep(e) \/ ClaimFinal(e)
  PROVE  pc'[e] = "settle" \/ Knows(e)'
<1> DEFINE r == RunOf[e]
           users == [i \in 1 .. Len(inbox) |-> User(inbox[i])]
<1>0. StoreTypes(r, e)
  BY StoreFacts
<1>1. /\ UNCHANGED log /\ view' = [view EXCEPT ![e] = @ \o users]
      /\ pc[e] \in {"claimStep", "claimFinal"}
      /\ \/ pc' = [pc EXCEPT ![e] = "settle"]
         \/ pc' = [pc EXCEPT ![e] = "ask"] /\ (pc[e] = "claimStep" \/ inbox # <<>>)
  BY DEF ClaimStep, ClaimFinal, Claim, storeVars, Return
<1>2. /\ users \in Seq(Records) /\ \A i \in 1 .. Len(users) : users[i].type = "input"
      /\ Len(users) = Len(inbox)
  BY ClaimedUsers
<1>3. inbox # <<>> => users # <<>>
  <2>1. inbox \in Seq(Steers)
    BY TypeInvFacts DEF LoopTypes
  <2>2. inbox # <<>> => Len(inbox) # 0
    BY <2>1
  <2> HIDE DEF users
  <2>3. users = <<>> => Len(users) = 0
    OBVIOUS
  <2> QED
    BY <1>2, <2>2, <2>3
<1> HIDE DEF users
<1>4. view'[e] = view[e] \o users /\ view[e] \in Seq(Records)
  BY <1>0, <1>1 DEF StoreTypes
<1>5. Latest(view'[e]) = Latest(view[e]) /\ (users # <<>> => Last(view'[e]).type = "input")
  BY <1>2, <1>4, LatestUsers
<1>6. Latest(view[e]) = Latest(log[r]) /\ (pc[e] = "claimStep" => Latest(view[e]) # Final)
  BY <1>1 DEF Knows
<1>7. pc'[e] = "settle" \/ (pc'[e] = "ask" /\ (pc[e] = "claimStep" \/ inbox # <<>>))
  BY <1>0, <1>1 DEF StoreTypes
<1> QED
  BY <1>1, <1>3, <1>5, <1>6, <1>7 DEF Knows

\* The loop of a writing executor.
LEMMA KnowsLoop ==
  ASSUME TypeInv, NEW e \in Executors, Knows(e), Loop(e)
  PROVE  pc'[e] = "settle" \/ Knows(e)'
<1> DEFINE r == RunOf[e]
           Goal == pc'[e] = "settle" \/ Knows(e)'
<1>0. StoreTypes(r, e)
  BY StoreFacts
<1>1. CASE Prepare(e)
  <2>1. \/ pc' = [pc EXCEPT ![e] = "settle"]
        \/ view' = [view EXCEPT ![e] = log'[r]] /\ pc' = [pc EXCEPT ![e] = "restore"]
    BY <1>1 DEF Prepare, Return
  <2>2. pc'[e] = "settle" \/ (view'[e] = log'[r] /\ pc'[e] = "restore")
    BY <1>0, <2>1 DEF StoreTypes
  <2> QED
    BY <2>2 DEF Knows
<1>2. CASE Recover(e)
  <2> DEFINE i == Min(batch[e])
             c == said[e][i]
  <2>1. pc[e] = "recover" /\ UNCHANGED view
    BY <1>2 DEF Recover
  <2>2. c \in Calls
    <3>1. batch[e] # {} /\ batch[e] \subseteq 1 .. Len(said[e]) /\ batch[e] \in SUBSET Nat
      BY <1>0, <2>1 DEF StoreTypes, Places
    <3>2. i \in batch[e]
      BY <3>1, FirstPosition
    <3> HIDE DEF i
    <3> QED
      BY <1>0, <3>1, <3>2 DEF StoreTypes
  <2>3. \/ pc' = [pc EXCEPT ![e] = "settle"]
        \/ /\ log' = [log EXCEPT ![r] = Append(@, Result(c, TRUE))]
           /\ pc' = [pc EXCEPT ![e] = IF batch[e] = {i} THEN "ask" ELSE @]
    BY <1>2 DEF Recover, Return
  <2>4. CASE pc' = [pc EXCEPT ![e] = "settle"]
    BY <1>0, <2>4 DEF StoreTypes
  <2>5. CASE /\ log' = [log EXCEPT ![r] = Append(@, Result(c, TRUE))]
             /\ pc' = [pc EXCEPT ![e] = IF batch[e] = {i} THEN "ask" ELSE @]
    <3>1. pc'[e] \in {"ask", "recover"}
      BY <1>0, <2>1, <2>5 DEF StoreTypes
    <3>2. view'[e] = view[e]
      BY <2>1
    <3> HIDE DEF c
    <3>3. Knows(e)'
      BY <2>1, <2>2, <2>5, <3>1, <3>2, KnowsResult
    <3> QED
      BY <3>3
  <2> QED
    BY <2>3, <2>4, <2>5
<1>3. CASE FailLoop(e) \/ Notice(e)
  <2>1. pc' = [pc EXCEPT ![e] = "settle"]
    BY <1>3 DEF FailLoop, Notice, Return
  <2> QED
    BY <1>0, <2>1 DEF StoreTypes
<1>4. CASE AppendFinal(e)
  <2>1. /\ log' = [log EXCEPT ![r] = Append(@, Assistant(<<>>))]
        /\ view' = [view EXCEPT ![e] = Append(@, Assistant(<<>>))]
        /\ \E p \in {"claimFinal", "settle"} : pc' = [pc EXCEPT ![e] = p]
    BY <1>4 DEF AppendFinal, Return, Final
  <2>2. pc'[e] \in {"claimFinal", "settle"} /\ <<>> \in Seq(Calls)
    BY <1>0, <2>1 DEF StoreTypes
  <2> QED
    BY <2>1, <2>2, KnowsAnswer
<1>5. CASE AppendCalls(e)
  <2> DEFINE calls == said[e]
  <2>1. /\ log' = [log EXCEPT ![r] = Append(@, Assistant(calls))]
        /\ view' = [view EXCEPT ![e] = Append(@, Assistant(calls))]
        /\ pc[e] = "calls"
        /\ \E p \in {"tools", "reject", "settle"} : pc' = [pc EXCEPT ![e] = p]
    BY <1>5 DEF AppendCalls, Return
  <2>2. pc'[e] \in {"tools", "reject", "settle"} /\ calls \in Seq(Calls) /\ calls # <<>>
    BY <1>0, <2>1 DEF StoreTypes, Knows
  <2> HIDE DEF calls
  <2> QED
    BY <2>1, <2>2, KnowsAnswer
<1>6. ASSUME NEW i \in batch[e], StartTool(e, i)
      PROVE  Goal
  <2>1. /\ pc'[e] = pc[e] \/ pc'[e] = "started"
        /\ UNCHANGED <<log, view, said>>
    BY <1>6 DEF StartTool, loopVars
  <2>2. CASE pc'[e] = "started"
    BY <2>2 DEF Knows
  <2>3. CASE pc'[e] = pc[e]
    BY <2>1, <2>3, KnowsSame
  <2> QED
    BY <2>1, <2>2, <2>3
<1>7. CASE AppendResult(e)
  <2> DEFINE i == Min(batch[e])
             c == said[e][i]
             ok == row[r][c] = "succeeded"
  <2>1. ok \in BOOLEAN
    OBVIOUS
  <2>2. /\ pc[e] = "tools"
        /\ log' = [log EXCEPT ![r] = Append(@, Result(c, ok))]
        /\ view' = [view EXCEPT ![e] = Append(@, Result(c, ok))]
        /\ pc' = [pc EXCEPT ![e] = IF batch[e] = {i} THEN "reject" ELSE @]
    BY <1>7 DEF AppendResult
  <2>3. c \in Calls
    <3>1. batch[e] # {} /\ batch[e] \subseteq 1 .. Len(said[e]) /\ batch[e] \in SUBSET Nat
      BY <1>0, <2>2 DEF StoreTypes, Places
    <3>2. i \in batch[e]
      BY <3>1, FirstPosition
    <3> HIDE DEF i
    <3> QED
      BY <1>0, <3>1, <3>2 DEF StoreTypes
  <2> HIDE DEF ok, c
  <2>4. pc'[e] \in {"tools", "reject"} /\ view'[e] = Append(view[e], Result(c, ok))
    BY <1>0, <2>2 DEF StoreTypes
  <2> QED
    BY <2>1, <2>2, <2>3, <2>4, KnowsResult
<1>8. CASE AppendRejected(e)
  <2> DEFINE i == Min(rejects[e])
             c == said[e][i]
  <2>1. pc[e] = "reject" /\ rejects[e] # {}
    BY <1>8 DEF AppendRejected
  <2>2. c \in Calls
    <3>1. rejects[e] # {} /\ rejects[e] \subseteq 1 .. Len(said[e]) /\ rejects[e] \in SUBSET Nat
      BY <1>0, <2>1 DEF StoreTypes, Places
    <3>2. i \in rejects[e]
      BY <3>1, FirstPosition
    <3> HIDE DEF i
    <3> QED
      BY <1>0, <3>1, <3>2 DEF StoreTypes
  <2>3. \/ pc' = [pc EXCEPT ![e] = "settle"]
        \/ /\ log' = [log EXCEPT ![r] = Append(@, Result(c, FALSE))]
           /\ view' = [view EXCEPT ![e] = Append(@, Result(c, FALSE))]
           /\ UNCHANGED pc
    BY <1>8 DEF AppendRejected, Return
  <2>4. CASE pc' = [pc EXCEPT ![e] = "settle"]
    BY <1>0, <2>4 DEF StoreTypes
  <2>5. CASE /\ log' = [log EXCEPT ![r] = Append(@, Result(c, FALSE))]
             /\ view' = [view EXCEPT ![e] = Append(@, Result(c, FALSE))]
             /\ UNCHANGED pc
    <3>1. pc'[e] = "reject" /\ view'[e] = Append(view[e], Result(c, FALSE))
      BY <1>0, <2>1, <2>5 DEF StoreTypes
    <3> HIDE DEF c
    <3>2. Knows(e)'
      BY <2>1, <2>2, <2>5, <3>1, KnowsResult
    <3> QED
      BY <3>2
  <2> QED
    BY <2>3, <2>4, <2>5
<1>9. CASE EndStep(e)
  <2>1. /\ pc[e] = "reject" /\ pc' = [pc EXCEPT ![e] = "claimStep"]
        /\ UNCHANGED <<log, view, said>>
    BY <1>9 DEF EndStep, storeVars, loopVars
  <2>2. pc'[e] = "claimStep"
    BY <1>0, <2>1 DEF StoreTypes
  <2> QED
    BY <2>1, <2>2, KnowsSame
<1> HIDE DEF Goal
<1>10. Goal
  BY <1>1, <1>2, <1>3, <1>4, <1>5, <1>6, <1>7, <1>8, <1>9, KnowsRestore, KnowsAsk, KnowsClaim
  DEF Loop, Goal
<1> QED
  BY <1>10 DEF Goal

\* Every step keeps that who writes to a log knows how it ends.
LEMMA EndInvNext ==
  ASSUME TypeInv, OneWriter, EndInv, [Next]_vars
  PROVE  EndInv'
<1> SUFFICES ASSUME NEW d \in Executors, Writes(d)' PROVE Knows(d)'
  BY DEF EndInv
<1> DEFINE r == RunOf[d]
<1>0. r \in Runs /\ log[r] \in Seq(Records)
  BY LogGrows
<1>1. ASSUME NEW e \in Executors, Loop(e)
      PROVE  Knows(d)'
  <2>1. UNCHANGED cancelled /\ pc[e] \in Working
    BY <1>1, LoopMoves DEF activeVars
  <2>2. CASE d = e
    <3>1. Writes(e) /\ pc'[e] # "settle"
      BY <2>1, <2>2 DEF Writes, Working, LoopPcs
    <3> QED
      BY <1>1, <2>2, <3>1, KnowsLoop DEF EndInv
  <2>3. CASE d # e
    <3>1. /\ view'[d] = view[d] /\ said'[d] = said[d]
          /\ pc'[d] = pc[d] \/ pc'[d] = "started"
      BY <1>1, <2>3, LoopIsLocal
    <3>2. CASE pc'[d] = "started"
      BY <3>2 DEF Knows
    <3>3. CASE pc'[d] = pc[d]
      <4>1. Writes(d) /\ Knows(d)
        BY <2>1, <3>3 DEF Writes, EndInv
      <4>2. r # RunOf[e] \/ ~ Writes(e)
        BY <2>3, <4>1 DEF OneWriter
      <4>3. log'[r] = log[r]
        <5>1. log'[r] = log[r] \/ Writing(e, r)
          BY <1>0, <1>1, LoopWrites
        <5> QED
          BY <4>2, <5>1 DEF Writing, Writes, Working, LoopPcs
      <4> QED
        BY <3>1, <3>3, <4>1, <4>3, KnowsSame
    <3> QED
      BY <3>1, <3>2, <3>3
  <2> QED
    BY <2>2, <2>3
<1>2. ASSUME \/ \E q \in Runs : Begin(q) \/ Open(q) \/ Stop(q) \/ Interrupt(q)
                                 \/ \E c \in Calls : FinishTool(q, c)
             \/ \E e \in Executors : Start(e) \/ Exit(e)
             \/ \E s \in Steers : Steer(s)
      PROVE  Knows(d)'
  <2>1. /\ UNCHANGED <<view, outcome, loopVars>>
        /\ \/ pc'[d] = pc[d]
           \/ pc[d] = "idle" /\ pc'[d] = "started" /\ d \notin Children
           \/ pc[d] \in {"settle", "leave", "left", "clear"} /\ pc'[d] \in {"leave", "left", "clear", "done"}
    BY <1>2, TurnIsLocal
  <2>2. CASE pc'[d] = "started"
    BY <2>2 DEF Knows
  <2>3. CASE pc'[d] = pc[d]
    <3>1. cancelled[d] => cancelled'[d]
      <4>1. UNCHANGED cancelled \/ \E S : Cancel(S)
        BY <1>2 DEF Begin, Open, Stop, Interrupt, StopClear, StopSignal, FinishTool, Start, Exit, Settle,
           Leave, CheckSession, ClearInbox, Steer, SteerLook, SteerCheck, SteerAppend, Enqueue, activeVars
      <4> QED
        BY <4>1 DEF Cancel
    <3>2. Knows(d)
      BY <2>3, <3>1 DEF Writes, EndInv
    <3>3. view'[d] = view[d] /\ said'[d] = said[d]
      BY <2>1 DEF loopVars
    <3>4. log'[r] = log[r] \/ \E s \in Steers : log'[r] = Append(log[r], User(s))
      BY <1>0, <1>2, TurnWrites
    <3>5. CASE log'[r] = log[r]
      BY <2>3, <3>2, <3>3, <3>5, KnowsSame
    <3>6. ASSUME NEW s \in Steers, log'[r] = Append(log[r], User(s))
          PROVE  Knows(d)'
      <4>1. User(s) \in Records /\ User(s).type = "input"
        BY RecordTypes DEF User
      <4>2. Latest(log'[r]) = Latest(log[r])
        BY <1>0, <3>6, <4>1, LatestAppend
      <4> QED
        BY <2>3, <3>2, <3>3, <4>2 DEF Knows
    <3> QED
      BY <3>4, <3>5, <3>6
  <2> QED
    BY <2>1, <2>2, <2>3 DEF Writes, Working, LoopPcs
<1>3. CASE UNCHANGED vars
  <2>1. UNCHANGED <<log, view, pc, said, cancelled>>
    BY <1>3 DEF vars, storeVars, execVars, activeVars, loopVars
  <2>2. Knows(d)
    BY <2>1 DEF Writes, EndInv
  <2> QED
    BY <2>1, <2>2, KnowsSame
<1> QED
  BY <1>1, <1>2, <1>3 DEF Next

\* The end of a run, as an action: what AnswerEndsTurn says of every step.
EndKept ==
  \A r \in Runs :
    (log[r] # <<>> /\ Last(log[r]) = Final /\ log'[r] # log[r]) =>
      \/ \E s \in Steers : log'[r] = Append(log[r], User(s))
      \/ \E e \in Executors :
           /\ RunOf[e] = r /\ view'[e] = Append(view[e], Last(log'[r]))
           /\ Latest(view[e]) = Final /\ Last(view[e]).type = "input"

\* Who writes after a final answer has been shown it, and a message since.
LEMMA EndKeptLoop ==
  ASSUME TypeInv, EndInv, NEW e \in Executors, Loop(e), NEW r \in Runs,
         log[r] # <<>>, Last(log[r]) = Final, log'[r] # log[r]
  PROVE  /\ RunOf[e] = r /\ view'[e] = Append(view[e], Last(log'[r]))
         /\ Latest(view[e]) = Final /\ Last(view[e]).type = "input"
<1>1. Writing(e, r)
  BY LoopWrites
<1>2. r = RunOf[e] /\ Knows(e)
  BY <1>1 DEF Writing, EndInv, Writes, Working, LoopPcs
<1>3. log[r] \in Seq(Records) /\ Final \in Records /\ Final.type = "assistant"
  BY TypeInvFacts, RecordTypes DEF LoopTypes, Final, Assistant
<1>4. Latest(log[r]) = Final
  <2> DEFINE q == log[r]
             n == Len(q)
  <2>1. q \in Seq(Records) /\ n \in Nat /\ n # 0
    BY <1>3
  <2>2. n \in 1 .. n /\ q[n] = Final
    BY <2>1 DEF Last
  <2> HIDE DEF q
  <2>3. Asker(q, n + 1) = n
    <3>1. PICK i \in Nat : i = n + 1
      BY <2>1
    <3>2. q \in Seq(RecordsOf(Calls, Sources))
      BY <2>1, RecordTypes
    <3>3. i \in 1 .. Len(q) + 1 /\ n \in 0 .. i - 1 /\ (n # 0 => q[n].type = "assistant")
      BY <1>3, <2>1, <2>2, <3>1
    <3>4. \A j \in 1 .. i - 1 : q[j].type = "assistant" => j <= n
      BY <2>1, <3>1
    <3> HIDE DEF n
    <3>5. Asker(q, i) = n
      BY <3>2, <3>3, <3>4, AskerUnique
    <3> QED
      BY <3>1, <3>5
  <2>4. Latest(q) = Final
    BY <2>1, <2>2, <2>3 DEF Latest
  <2> QED
    BY <2>4 DEF q
<1>5. pc[e] \in {"final", "calls", "tools", "reject", "recover"}
  BY <1>1 DEF Writing
<1>6. Latest(view[e]) = Final
  BY <1>2, <1>4, <1>5 DEF Knows
<1>7. pc[e] \in {"final", "calls"} /\ Last(view[e]).type = "input"
  BY <1>2, <1>5, <1>6 DEF Knows
<1>8. PICK rec : log'[r] = Append(log[r], rec) /\ view'[e] = Append(view[e], rec)
  BY <1>1, <1>7 DEF Writing
<1>9. Last(log'[r]) = rec
  BY <1>3, <1>8, LastAppend DEF Sequence
<1> QED
  BY <1>2, <1>6, <1>7, <1>8, <1>9

\* No step writes after a final answer but as the property allows.
LEMMA EndKeptNext ==
  ASSUME TypeInv, EndInv, [Next]_vars
  PROVE  EndKept
<1> SUFFICES ASSUME NEW r \in Runs, log[r] # <<>>, Last(log[r]) = Final, log'[r] # log[r]
             PROVE  \/ \E s \in Steers : log'[r] = Append(log[r], User(s))
                    \/ \E e \in Executors :
                         /\ RunOf[e] = r /\ view'[e] = Append(view[e], Last(log'[r]))
                         /\ Latest(view[e]) = Final /\ Last(view[e]).type = "input"
  BY DEF EndKept
<1>1. ~ UNCHANGED vars
  BY DEF vars, storeVars
<1>2. (\E e \in Executors : Loop(e)) \/ \E s \in Steers : log'[r] = Append(log[r], User(s))
  BY <1>1, TurnWrites DEF Next
<1> QED
  BY <1>2, EndKeptLoop

\* Under the same condition nothing follows a final answer but what a user's message
\* asks for: an executor that works from older records writes nothing after it.
THEOREM AnswerIsFinal == Spec /\ []OneWriter => AnswerEndsTurn
<1>1. Init => EndInv
  <2> SUFFICES ASSUME Init PROVE EndInv
    OBVIOUS
  <2>1. \A e \in Executors : pc[e] = "idle"
    BY DEF Init
  <2> QED
    BY <2>1 DEF EndInv, Writes, Working, LoopPcs
<1>2. TypeInv /\ OneWriter /\ EndInv /\ [Next]_vars => EndInv'
  BY EndInvNext
<1>3. TypeInv /\ EndInv /\ [Next]_vars => [EndKept]_vars
  BY EndKeptNext
<1>4. AnswerEndsTurn <=> [][EndKept]_vars
  BY DEF AnswerEndsTurn, EndKept
<1> QED
  BY <1>1, <1>2, <1>3, <1>4, TypeInvInit, TypeInvNext, PTL DEF Spec

\* For a turn that is submitted twice both hold without a condition.
COROLLARY TwoSubmissionsRestorable ==
  (AtMostTwo /\ ChildrenApart) => (Spec => []RefusedOnlyDisturbed /\ AnswerEndsTurn)
<1> SUFFICES ASSUME AtMostTwo, ChildrenApart
             PROVE  Spec => []RefusedOnlyDisturbed /\ AnswerEndsTurn
  OBVIOUS
<1>1. Spec => []OneWriter
  BY OneWriterOfTwo
<1> QED
  BY <1>1, UndisturbedIsRestorable, AnswerIsFinal

=============================================================================
