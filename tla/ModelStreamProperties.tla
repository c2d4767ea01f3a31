----------------------- MODULE ModelStreamProperties -----------------------
(***************************************************************************)
(* What is claimed of ModelStream: no delta is lost or shown twice while   *)
(* publisher and timers race for the batches, none is left behind when the *)
(* run is over, and every one is emitted.                                  *)
(***************************************************************************)
EXTENDS ModelStream

\* Every variable keeps its type.
TypeOK ==
  /\ place \in [Runs -> {"open", "done"}]
  /\ \A r \in Runs : published[r] \subseteq {r} \X (1..Chunks) \X Kinds
  /\ \A r \in Runs : pending[r] \subseteq published[r]
  /\ others \in [Runs -> 0..Others]
  /\ armed \in [Runs -> BOOLEAN]
  /\ flusher \in [Timers -> Runs \cup {NoRun}]
  /\ left \in [Threads -> {Nobody} \cup SUBSET Subs]
  /\ sub \in [Subs -> {"none", "open", "closed"}]
  /\ unread \in [Subs -> 0..Buffer]
  /\ panicked \in BOOLEAN

-----------------------------------------------------------------------------

\* The deltas in the events a goroutine has not begun to emit.
Held(t) == UNION {work[t][i].chunks :
                    i \in (IF left[t] = Nobody THEN 1 ELSE 2)..Len(work[t])}

\* Each published delta is in exactly one place: in the pending batch, in the
\* hands of one goroutine, or emitted; and once the publisher of a run has
\* flushed for the last time nothing of it is left in the batch.
EveryDeltaOnce ==
  /\ \A r \in Runs, t \in Threads : pending[r] \cap Held(t) = {}
  /\ \A r \in Runs : pending[r] \cap emitted = {}
  /\ \A t, u \in Threads : t # u => Held(t) \cap Held(u) = {}
  /\ \A t \in Threads : Held(t) \cap emitted = {}
  /\ \A r \in Runs :
       published[r] \subseteq pending[r] \cup emitted \cup UNION {Held(t) : t \in Threads}
  /\ \A r \in Runs : place[r] = "done" => pending[r] = {}

\* A pending batch always has somebody who will flush it.
PendingIsWatched ==
  \A r \in Runs : pending[r] # {} => armed[r] \/ \E t \in Timers : flusher[t] = r

\* Every delta is emitted, also when the model falls silent: the last timer of a
\* batch is never stopped without another one.
EveryDeltaEmitted ==
  \A c \in Runs \X (1..Chunks) \X Kinds :
    c \in pending[c[1]] ~> (c \in emitted \/ panicked)

-----------------------------------------------------------------------------

\* "non-blocking drop if full": publishing to subscribers that come and go does
\* nothing worse than drop an event.
NeverPanics == ~panicked

\* "other event types flush pending first": nothing of a run is emitted after its
\* terminal event.
TerminalIsLast ==
  \A r \in Runs : place[r] = "done" /\ Idle(r) =>
    \A t \in Timers : \A i \in 1..Len(work[t]) : work[t][i].run # r

=============================================================================
