------------------------- MODULE AgentRunProperties -------------------------
(***************************************************************************)
(* What is claimed of AgentRun.  The headings say which instances the      *)
(* properties are checked on: two executors of one run, one executor, or   *)
(* an executor with a sub-agent.                                           *)
(***************************************************************************)
EXTENDS AgentRun

Records ==
  [type : {"input", "assistant", "result"}, calls : Seq(Calls), ok : BOOLEAN,
   from : Steers \cup {"prompt", "model", "tool", "notice"}]

\* Every variable keeps its type.
TypeOK ==
  /\ turn \in [Runs -> {"none", "running", "ended"}]
  /\ opened \in [Runs -> BOOLEAN]
  /\ latest \in Runs \cup {NoOne}
  /\ log \in [Runs -> Seq(Records)]
  /\ row \in [Runs -> [Calls -> RowStates]]
  /\ inbox \in Seq(Steers)
  /\ active \in [Runs -> Executors \cup {NoOne}]
  /\ cancelled \in [Executors -> BOOLEAN]
  /\ pc \in [Executors -> ExecPcs]
  /\ view \in [Executors -> Seq(Records)]
  /\ outcome \in [Executors -> Outcomes]
  /\ said \in [Executors -> Seq(Calls)]
  /\ batch \in [Executors -> SUBSET Nat]
  /\ rejects \in [Executors -> SUBSET Nat]
  /\ iterations \in [Executors -> Nat]
  /\ disabled \in [Executors -> BOOLEAN]
  /\ spc \in [Steers -> SteerPcs]
  /\ target \in [Steers -> Runs \cup {NoOne}]
  /\ kpc \in [Runs -> StopPcs]
  /\ victim \in [Runs -> Executors \cup {NoOne}]

-----------------------------------------------------------------------------
(* Two executors of one run, steered.                                      *)

\* The last assistant record so far, or the prompt if there is none.
Latest(msgs) ==
  LET last == Asker(msgs, Len(msgs) + 1) IN IF last = 0 THEN Prompt ELSE msgs[last]

\* A user message stands where a result of the batch before it belongs.
SteeredInside(msgs) ==
  \E i \in 1 .. Len(msgs) :
    LET asker == Asker(msgs, i) IN
    msgs[i].type = "input" /\ asker # 0 /\ i - asker <= Len(msgs[asker].calls)

\* A call was executed and has its result, though one named before it in the same
\* batch was rejected: its observation comes afterwards, out of order.
RejectedEarly(msgs) ==
  \E k \in 1 .. Len(msgs) :
    LET calls == msgs[k].calls
        executed == Executable(Asked(SubSeq(msgs, 1, k - 1)), calls)
    IN /\ msgs[k].type = "assistant"
       /\ \E j \in executed : calls[j] \in Told(msgs) /\ \E i \in (1 .. j) \ executed : TRUE

Disturbed(msgs) == SteeredInside(msgs) \/ RejectedEarly(msgs)

Restorable(r) == Restored(log[r], row[r]).verdict \in {"continue", "completed"}

\* Crashes, cancellations and a second executor never make restore refuse a log:
\* it refuses only logs with a user message inside a batch or a rejected call named
\* before one that was executed, whatever else happened.
RefusedOnlyDisturbed == \A r \in Runs : ~ Disturbed(log[r]) => Restorable(r)

\* A final answer ends its run (ADR-030): what follows it in the log is a user's
\* message, or is written by the executor that answered or read the answer and was
\* shown a user's message since; no executor goes on from older records.
AnswerEndsTurn ==
  [][\A r \in Runs :
       (log[r] # <<>> /\ Last(log[r]) = Final /\ log'[r] # log[r]) =>
         \/ \E s \in Steers : log'[r] = Append(log[r], User(s))
         \/ \E e \in Executors :
              /\ RunOf[e] = r /\ view'[e] = Append(view[e], Last(log'[r]))
              /\ Latest(view[e]) = Final /\ Last(view[e]).type = "input"]_vars

-----------------------------------------------------------------------------
(* One executor per run, steered and interrupted.                          *)

\* A steer is in the log of its run before any model sees it (ADR-052 R3).
PersistedFirst ==
  \A e \in Executors, s \in Steers :
    User(s) \in ToSet(view[e]) => User(s) \in ToSet(log[target[s]])

\* However claims, clears and interrupts interleave, no steer is shown twice.
DeliveredOnce ==
  \A s \in Steers :
    Cardinality({ x \in UNION { {e} \X (1 .. Len(view[e])) : e \in Executors } :
                    view[x[1]][x[2]] = User(s) }) <= 1

\* A turn that returns an answer before the cap has nothing unanswered in its
\* view: a steer claimed with the answer opens another step.
AnswerComesLast ==
  \A e \in Executors :
    (outcome[e] = "answer" /\ ~Capped(e)) => Last(view[e]) = Final

\* Once a tool loop was detected the run records no further batch of tool calls,
\* also when steers keep the turn going.
LoopEndsTools ==
  [][\A e \in Executors :
       LET now == log'[RunOf[e]] IN
       (disabled[e] /\ now # log[RunOf[e]]) => (Last(now).type = "assistant" => Last(now) = Final)]_vars

-----------------------------------------------------------------------------
(* A sub-agent.                                                            *)

\* A sub-agent never outlives the step that called it, interrupted or not.
ChildEndsFirst ==
  \A c \in Calls, e \in Executors :
    LET child == ChildOf[<<RunOf[e], c>>] IN
    (/\ child # NoOne /\ c \in Waiting(e)
     /\ pc[child] \notin {"idle", "done"})
    => pc[e] = "tools"

\* Every executor that starts returns and leaves.
TurnCloses == \A e \in Executors : pc[e] # "idle" ~> pc[e] = "done"

-----------------------------------------------------------------------------
(* What documents and comments say and the code does not do: TLC refutes   *)
(* each where it is named in a configuration.                              *)

\* Every log is one that restore accepts: results in the order of the calls, each
\* agreeing with its tool_calls row.
AlwaysRestorable == \A r \in Runs : Restorable(r)

\* ADR-052: a rejected call of a batch is observed and the turn goes on; the log
\* it leaves can be restored wherever the rejected call stands in the batch.
RejectedIsRestorable == AlwaysRestorable

\* The comment of Inbox: after a crash the next step is rebuilt from the user
\* records that landed after the last assistant of the run.
SteeredIsRestorable == AlwaysRestorable

\* ADR-030: a succeeded call without a result gets it from tool_calls, and the
\* provider goes on with it; it is not told that there is none.
RecoveredIsTold ==
  \A e \in Executors :
    pc[e] = "ask" =>
      \A c \in Calls :
        row[RunOf[e]][c] = "succeeded" => Orphan(c) \notin ToSet(Repaired(view[e]))

=============================================================================
