---------------------------- MODULE ModelStream ----------------------------
(***************************************************************************)
(* modelstream.Hub: the deltas of a model are coalesced for a moment and   *)
(* fanned out to the clients that listen.  Three kinds of goroutines meet  *)
(* in it: the publisher of a run (its agent loop, at last its executor),   *)
(* the timers that flush a batch, and the request handlers of the clients. *)
(* The hub's mutex covers taking a batch and looking at the subscribers,   *)
(* not the sending.                                                        *)
(***************************************************************************)
EXTENDS Naturals, Sequences, FiniteSets

CONSTANTS
  Runs,      \* a run has one publisher and one pending batch
  Timers,    \* bound: goroutines of time.AfterFunc alive at once
  Subs,      \* subscriptions
  Listens,   \* the runs a subscription asked for
  Buffer,    \* capacity of a subscription's channel
  Chunks,    \* bound: deltas a run publishes
  Others     \* bound: other events of a run before the terminal one

Nobody == {"nobody"}   \* no event is being sent
NoRun == "none"

ASSUME StreamAssumption ==
  /\ Runs \cap Timers = {} /\ NoRun \notin Runs /\ ~(Nobody \subseteq Subs)
  /\ Listens \in [Subs -> SUBSET Runs]
  /\ Buffer \in Nat \ {0} /\ Chunks \in Nat /\ Others \in Nat

Threads == Runs \cup Timers
Kinds == {"content", "thinking"}

VARIABLES
  place,      \* a publisher: "open", or "done" after PublishTerminal
  others,     \* other events it has published
  published,  \* deltas of a run so far: <<run, number, kind>>
  pending,    \* Hub.pending: the deltas of a run's batch
  armed,      \* the batch's timer runs
  flusher,    \* the run whose batch a timer goroutine is about to flush
  work,       \* events a goroutine has yet to emit
  left,       \* subscriptions its current event has yet to be sent to
  emitted,    \* deltas whose event was emitted
  sub,        \* "none", "open" or "closed"
  unread,     \* envelopes in the channel of a subscription
  panicked    \* the daemon died: send on a closed channel

publisherVars == <<place, others, published>>
batchVars == <<pending, armed>>
emitVars == <<work, left, emitted>>
subVars == <<sub, unread>>
vars == <<publisherVars, batchVars, flusher, emitVars, subVars, panicked>>

-----------------------------------------------------------------------------

Event(r, kind, chunks) == [run |-> r, kind |-> kind, chunks |-> chunks]

Init ==
  /\ place = [r \in Runs |-> "open"]
  /\ others = [r \in Runs |-> 0]
  /\ published = [r \in Runs |-> {}]
  /\ pending = [r \in Runs |-> {}]
  /\ armed = [r \in Runs |-> FALSE]
  /\ flusher = [t \in Timers |-> NoRun]
  /\ work = [t \in Threads |-> <<>>]
  /\ left = [t \in Threads |-> Nobody]
  /\ emitted = {}
  /\ sub = [s \in Subs |-> "none"]
  /\ unread = [s \in Subs |-> 0]
  /\ panicked = FALSE

Idle(t) == work[t] = <<>>

-----------------------------------------------------------------------------
(* Publishing.                                                             *)

\* Mutant: the timer is stopped and only a new batch starts one.
RestartTimerOnce(r) == armed' = [armed EXCEPT ![r] = pending[r] = {}]

\* The timer is stopped and started again with every delta.
RestartTimer(r) == armed' = [armed EXCEPT ![r] = TRUE]

\* publishDebounced.
PublishDelta(r) ==
  /\ place[r] = "open" /\ Idle(r)
  /\ Cardinality(published[r]) < Chunks
  /\ \E kind \in Kinds :
       LET chunk == <<r, Cardinality(published[r]) + 1, kind>> IN
       /\ published' = [published EXCEPT ![r] = @ \cup {chunk}]
       /\ pending' = [pending EXCEPT ![r] = @ \cup {chunk}]
  /\ RestartTimer(r)
  /\ UNCHANGED <<place, others, flusher, emitVars, subVars, panicked>>

\* The part of a batch that is of one kind, and its event if there is any.
OfKind(r, kind) == {c \in pending[r] : c[3] = kind}
KindEvent(r, kind) ==
  IF OfKind(r, kind) = {} THEN <<>> ELSE <<Event(r, kind, OfKind(r, kind))>>

\* The events of a batch: its text, then its thinking.
BatchEvents(r) == KindEvent(r, "content") \o KindEvent(r, "thinking")

\* Mutant: the batch is removed only after it was emitted.
TakeBatchLater(r) == UNCHANGED pending /\ armed' = [armed EXCEPT ![r] = FALSE]

\* flushKey under the mutex: the batch is taken and its timer stopped.
TakeBatch(r) ==
  /\ pending' = [pending EXCEPT ![r] = {}]
  /\ armed' = [armed EXCEPT ![r] = FALSE]

\* Publish of any other event, and PublishTerminal after the turn is settled:
\* flush what is pending, then emit the event.
PublishEvent(r) ==
  /\ place[r] = "open" /\ Idle(r)
  /\ TakeBatch(r)
  /\ \/ /\ others[r] < Others
        /\ others' = [others EXCEPT ![r] = @ + 1]
        /\ work' = [work EXCEPT ![r] = Append(BatchEvents(r), Event(r, "other", {}))]
        /\ UNCHANGED place
     \/ /\ place' = [place EXCEPT ![r] = "done"]
        /\ work' = [work EXCEPT ![r] = Append(BatchEvents(r), Event(r, "complete", {}))]
        /\ UNCHANGED others
  /\ UNCHANGED <<published, flusher, left, emitted, subVars, panicked>>

\* A timer fires: its goroutine has yet to take the mutex, and stopping it now
\* comes too late.
TimerFires(r, t) ==
  /\ armed[r] /\ flusher[t] = NoRun /\ Idle(t)
  /\ armed' = [armed EXCEPT ![r] = FALSE]
  /\ flusher' = [flusher EXCEPT ![t] = r]
  /\ UNCHANGED <<publisherVars, pending, emitVars, subVars, panicked>>

FlushByTimer(t) ==
  /\ flusher[t] # NoRun
  /\ work' = [work EXCEPT ![t] = BatchEvents(flusher[t])]
  /\ TakeBatch(flusher[t])
  /\ flusher' = [flusher EXCEPT ![t] = NoRun]
  /\ UNCHANGED <<publisherVars, left, emitted, subVars, panicked>>

-----------------------------------------------------------------------------
(* emit.                                                                   *)

\* The subscribers are looked up under the mutex.
StartEmit(t) ==
  /\ ~Idle(t) /\ left[t] = Nobody
  /\ left' = [left EXCEPT ![t] =
       {s \in Subs : sub[s] = "open" /\ Head(work[t]).run \in Listens[s]}]
  /\ emitted' = emitted \cup Head(work[t]).chunks
  /\ UNCHANGED <<publisherVars, batchVars, flusher, work, subVars, panicked>>

\* Without the mutex: a full channel drops the event, a closed one panics.
Send(t) ==
  /\ left[t] # Nobody
  /\ \E s \in left[t] :
       /\ left' = [left EXCEPT ![t] = @ \ {s}]
       /\ \/ /\ sub[s] = "open" /\ unread[s] < Buffer
             /\ unread' = [unread EXCEPT ![s] = @ + 1]
             /\ UNCHANGED panicked
          \/ /\ sub[s] = "open" /\ unread[s] = Buffer
             /\ UNCHANGED <<unread, panicked>>
          \/ /\ sub[s] = "closed"
             /\ panicked' = TRUE
             /\ UNCHANGED unread
  /\ UNCHANGED <<publisherVars, batchVars, flusher, work, emitted, sub>>

EndEmit(t) ==
  /\ left[t] = {}
  /\ left' = [left EXCEPT ![t] = Nobody]
  /\ work' = [work EXCEPT ![t] = Tail(@)]
  /\ UNCHANGED <<publisherVars, batchVars, flusher, emitted, subVars, panicked>>

-----------------------------------------------------------------------------
(* Clients.                                                                *)

Subscribe(s) ==
  /\ sub[s] = "none"
  /\ sub' = [sub EXCEPT ![s] = "open"]
  /\ UNCHANGED <<publisherVars, batchVars, flusher, emitVars, unread, panicked>>

Receive(s) ==
  /\ sub[s] = "open" /\ unread[s] > 0
  /\ unread' = [unread EXCEPT ![s] = @ - 1]
  /\ UNCHANGED <<publisherVars, batchVars, flusher, emitVars, sub, panicked>>

\* The request is over: the subscription is removed and its channel closed.
Unsubscribe(s) ==
  /\ sub[s] = "open"
  /\ sub' = [sub EXCEPT ![s] = "closed"]
  /\ UNCHANGED <<publisherVars, batchVars, flusher, emitVars, unread, panicked>>

-----------------------------------------------------------------------------

Emit(t) == StartEmit(t) \/ Send(t) \/ EndEmit(t)

\* After a panic there is no daemon.
Next ==
  /\ ~panicked
  /\ \/ \E r \in Runs : PublishDelta(r) \/ PublishEvent(r) \/ \E t \in Timers : TimerFires(r, t)
     \/ \E t \in Timers : FlushByTimer(t)
     \/ \E t \in Threads : Emit(t)
     \/ \E s \in Subs : Subscribe(s) \/ Receive(s) \/ Unsubscribe(s)

Spec == Init /\ [][Next]_vars

\* Timers fire and started goroutines run on; nobody has to publish or listen.
Fairness ==
  /\ \A r \in Runs : WF_vars(~panicked /\ \E t \in Timers : TimerFires(r, t))
  /\ \A t \in Timers : WF_vars(~panicked /\ FlushByTimer(t))
  /\ \A t \in Threads : WF_vars(~panicked /\ Emit(t))

FairSpec == Spec /\ Fairness

=============================================================================
