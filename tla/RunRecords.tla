----------------------------- MODULE RunRecords -----------------------------
(***************************************************************************)
(* The append-only conversation of a run (agent_run_records), what         *)
(* Runner.restore makes of it and how contextpack.RepairToolMessages mends  *)
(* a view of it for the provider.                                          *)
(*                                                                         *)
(* A record keeps its type, the tool calls it carries, whether a result is *)
(* a success or an observation of a failure, and where it comes from.      *)
(***************************************************************************)
EXTENDS Naturals, Sequences, SequencesExt, FiniteSets

\* The initial messages of the run, taken together: system prefix and user text.
Prompt == [type |-> "input", calls |-> <<>>, ok |-> TRUE, from |-> "prompt"]

\* A user message appended while the run goes on.
User(s) == [type |-> "input", calls |-> <<>>, ok |-> TRUE, from |-> s]

\* What the model answered; no calls make it a final answer.
Assistant(calls) == [type |-> "assistant", calls |-> calls, ok |-> TRUE, from |-> "model"]

\* The result of call c, or the observation that it failed or was rejected.
Result(c, ok) == [type |-> "result", calls |-> <<c>>, ok |-> ok, from |-> "tool"]

\* What RepairToolMessages invents for a call without a result.
Orphan(c) == [type |-> "result", calls |-> <<c>>, ok |-> FALSE, from |-> "repair"]

Final == Assistant(<<>>)

CallOf(rec) == Head(rec.calls)

\* The calls an assistant made anywhere in the messages.
Asked(msgs) ==
  UNION { ToSet(msgs[i].calls) : i \in { j \in 1 .. Len(msgs) : msgs[j].type = "assistant" } }

\* The calls with a result in the messages.
Told(msgs) ==
  { CallOf(msgs[i]) : i \in { j \in 1 .. Len(msgs) : msgs[j].type = "result" } }

-----------------------------------------------------------------------------
(* Runner.restore                                                          *)

RestoreStart == [verdict |-> "continue", pending |-> <<>>, answers |-> 0]

\* Mutant: the pending calls are a set.
RestoreAnyOrder(acc, rec, rows) ==
  LET bad(v) == [acc EXCEPT !.verdict = v] IN
  IF acc.verdict # "continue" THEN acc
  ELSE IF rec.type = "input"
  THEN IF acc.pending # <<>> \/ (rec = Prompt /\ acc.answers > 0) THEN bad("corrupt") ELSE acc
  ELSE IF rec.type = "assistant"
  THEN IF acc.pending # <<>> THEN bad("corrupt")
       ELSE [acc EXCEPT !.pending = rec.calls, !.answers = @ + 1]
  ELSE IF ~ Contains(acc.pending, CallOf(rec)) THEN bad("corrupt")
  ELSE IF rec.ok # (rows[CallOf(rec)] = "succeeded")
  THEN bad(IF rec.ok THEN "blocked" ELSE "corrupt")
  ELSE [acc EXCEPT !.pending = RemoveFirst(@, CallOf(rec))]

\* One record; rows tells how the run's tool_calls rows ended.  Something was
\* generated as soon as there is an answer.
RestoreRecord(acc, rec, rows) ==
  LET bad(v) == [acc EXCEPT !.verdict = v] IN
  IF acc.verdict # "continue" THEN acc
  ELSE IF rec.type = "input"
  THEN IF acc.pending # <<>> \/ (rec = Prompt /\ acc.answers > 0) THEN bad("corrupt") ELSE acc
  ELSE IF rec.type = "assistant"
  THEN IF acc.pending # <<>> THEN bad("corrupt")
       ELSE [acc EXCEPT !.pending = rec.calls, !.answers = @ + 1]
  ELSE IF acc.pending = <<>> \/ Head(acc.pending) # CallOf(rec) THEN bad("corrupt")
  ELSE IF rec.ok # (rows[CallOf(rec)] = "succeeded")
  THEN bad(IF rec.ok THEN "blocked" ELSE "corrupt")
  ELSE [acc EXCEPT !.pending = Tail(@)]

\* One record after the other.
Replayed(log, rows) ==
  FoldLeft(LAMBDA acc, rec : RestoreRecord(acc, rec, rows), RestoreStart, log)

\* Mutant of Restored: a final answer is like any other record.
RestoredOpen(log, rows) == Replayed(log, rows)

\* The whole log: a final answer at its end completes the run.
Restored(log, rows) ==
  LET acc == Replayed(log, rows) IN
  IF acc.verdict = "continue" /\ log # <<>> /\ Last(log) = Final
  THEN [acc EXCEPT !.verdict = "completed"] ELSE acc

-----------------------------------------------------------------------------
(* contextpack.RepairToolMessages                                          *)

\* Every pending call gets its synthetic result.
FlushMissing(acc) ==
  [out |-> acc.out \o [i \in 1 .. Len(acc.order) |-> Orphan(acc.order[i])], order |-> <<>>]

\* Mutant: an assistant's new batch does not flush the old one.
RepairWithoutFlush(acc, msg) ==
  IF msg.type = "result"
  THEN IF Contains(acc.order, CallOf(msg))
       THEN [out |-> Append(acc.out, msg), order |-> RemoveFirst(acc.order, CallOf(msg))]
       ELSE acc
  ELSE LET flushed == IF msg.type = "input" THEN FlushMissing(acc) ELSE acc IN
       [out |-> Append(flushed.out, msg), order |-> flushed.order \o msg.calls]

\* A call that is repeated in a batch is pending once.
Unrepeated(calls) ==
  FoldLeft(LAMBDA acc, c : IF Contains(acc, c) THEN acc ELSE Append(acc, c), <<>>, calls)

\* A result of a pending call is kept, any other result is dropped; another
\* message first closes the pending calls.
RepairMessage(acc, msg) ==
  IF msg.type = "result"
  THEN IF Contains(acc.order, CallOf(msg))
       THEN [out |-> Append(acc.out, msg), order |-> RemoveFirst(acc.order, CallOf(msg))]
       ELSE acc
  ELSE [out |-> Append(FlushMissing(acc).out, msg), order |-> Unrepeated(msg.calls)]

Repaired(msgs) == FlushMissing(FoldLeft(RepairMessage, [out |-> <<>>, order |-> <<>>], msgs)).out

-----------------------------------------------------------------------------
(* What the two are meant to do, without a fold.                           *)

\* The last assistant record before position i, 0 if there is none.
Asker(msgs, i) ==
  LET before == { j \in 1 .. i - 1 : msgs[j].type = "assistant" } IN
  IF before = {} THEN 0 ELSE CHOOSE j \in before : \A k \in before : k <= j

\* Results follow their assistant directly and in the order of its calls;
\* whatever else follows an assistant comes after all its results.
InOrder(msgs) ==
  \A i \in 1 .. Len(msgs) :
    LET asker == Asker(msgs, i)
        n == IF asker = 0 THEN 0 ELSE Len(msgs[asker].calls)
    IN IF msgs[i].type = "result"
       THEN asker # 0 /\ i - asker <= n /\ CallOf(msgs[i]) = msgs[asker].calls[i - asker]
       ELSE i - asker > n \/ asker = 0

\* The prompt comes before everything the model generated.
PromptFirst(msgs) ==
  \A i, j \in 1 .. Len(msgs) : (msgs[j] = Prompt /\ i < j) => msgs[i].type = "input"

\* restore accepts exactly the logs in which results follow their assistant in
\* the order of its calls, the prompt comes first and each result tells what its
\* tool_calls row tells (ADR-030); what it leaves pending is the unanswered rest of
\* the last batch, and a log completes the run only by ending in a final answer.
RestoreIsExact(log, rows) ==
  LET acc == Restored(log, rows)
      last == Asker(log, Len(log) + 1)
      results == { i \in 1 .. Len(log) : log[i].type = "result" }
      sound == /\ InOrder(log) /\ PromptFirst(log)
               /\ \A i \in results : log[i].ok = (rows[CallOf(log[i])] = "succeeded")
  IN /\ acc.verdict \in {"continue", "completed"} <=> sound
     /\ sound =>
          /\ acc.answers = Cardinality({ i \in 1 .. Len(log) : log[i].type = "assistant" })
          /\ acc.verdict = "completed" <=> (log # <<>> /\ log[Len(log)] = Final)
          /\ last # 0 =>
               LET told == Cardinality({ i \in results : i > last })
               IN acc.pending = SubSeq(log[last].calls, told + 1, Len(log[last].calls))

\* Every call of an assistant has exactly one result before the next message of
\* another kind, and every result has such a call: what a provider accepts.
Paired(msgs) ==
  \A i \in { j \in 1 .. Len(msgs) : msgs[j].type # "result" } \cup {0} :
    LET later == { j \in i + 1 .. Len(msgs) : msgs[j].type # "result" }
        end == IF later = {} THEN Len(msgs) ELSE (CHOOSE j \in later : \A k \in later : j <= k) - 1
        calls == IF i = 0 THEN {} ELSE ToSet(msgs[i].calls)
    IN /\ end - i = Cardinality(calls)
       /\ calls = { CallOf(msgs[j]) : j \in i + 1 .. end }

\* The messages that are no results.
Others(msgs) ==
  FoldLeft(LAMBDA acc, m : IF m.type = "result" THEN acc ELSE Append(acc, m), <<>>, msgs)

\* Whatever a view looks like, after the repair every call is followed by its
\* result and no result stands alone; and the repair invents and drops results
\* only: everything else stays in place, and a view in which nothing is missing
\* is not changed at all.
RepairIsExact(msgs) ==
  /\ Paired(Repaired(msgs))
  /\ Others(Repaired(msgs)) = Others(msgs)
  /\ Paired(msgs) => Repaired(msgs) = msgs

=============================================================================
