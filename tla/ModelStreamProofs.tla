------------------------- MODULE ModelStreamProofs -------------------------
(***************************************************************************)
(* Proof that the hub neither loses nor doubles a delta, for any runs,     *)
(* timers, subscriptions and bounds.  A delta moves from the batch of its  *)
(* run to the hands of one goroutine and from there to the clients; the    *)
(* proof is about these moves, and about what the events of a goroutine    *)
(* still hold when it has begun to send the first of them.                 *)
(***************************************************************************)
EXTENDS ModelStreamProperties, FiniteSetTheorems, TLAPS

AllChunks == Runs \X Nat \X Kinds
Events == [run : Runs, kind : Kinds \cup {"other", "complete"}, chunks : SUBSET AllChunks]

\* The deltas in the events w, the first of which is left out once it is being sent.
InHand(w, l) == UNION {w[i].chunks : i \in (IF l = Nobody THEN 1 ELSE 2)..Len(w)}

\* No delta is in two events.
Apart(w) == \A i, j \in 1..Len(w) : i # j => w[i].chunks \cap w[j].chunks = {}

Types ==
  /\ place \in [Runs -> {"open", "done"}]
  /\ published \in [Runs -> SUBSET AllChunks] /\ pending \in [Runs -> SUBSET AllChunks]
  /\ flusher \in [Timers -> Runs \cup {NoRun}]
  /\ work \in [Threads -> Seq(Events)]
  /\ left \in [Threads -> {Nobody} \cup SUBSET Subs]

\* The deltas of a run are numbered.
Numbered ==
  \A r \in Runs :
    /\ IsFiniteSet(published[r])
    /\ \A c \in published[r] : c[1] = r /\ c[2] <= Cardinality(published[r])

\* A goroutine without events sends none; a timer that is to flush has none.
Rested ==
  /\ \A t \in Threads : Idle(t) => left[t] = Nobody
  /\ \A t \in Timers : flusher[t] # NoRun => Idle(t)

\* Every delta is where only one place P, H or E claims it: the batches, the hands
\* of the goroutines, or what was emitted.
Once(P, H, E, pub) ==
  /\ \A r \in Runs, t \in Threads : P[r] \cap H[t] = {}
  /\ \A r \in Runs : P[r] \cap E = {}
  /\ \A t, u \in Threads : t # u => H[t] \cap H[u] = {}
  /\ \A t \in Threads : H[t] \cap E = {}
  /\ \A r \in Runs : pub[r] \subseteq P[r] \cup E \cup UNION {H[t] : t \in Threads}
  \* and nothing is there that its run has not published
  /\ \A r \in Runs : \A c \in pub[r] : c[1] = r
  /\ \A r \in Runs : P[r] \subseteq pub[r]
  /\ \A t \in Threads : H[t] \subseteq UNION {pub[r] : r \in Runs}
  /\ E \subseteq UNION {pub[r] : r \in Runs}

Hands == [t \in Threads |-> InHand(work[t], left[t])]

IInv ==
  /\ Types /\ Numbered /\ Rested
  /\ \A t \in Threads : Apart(work[t])
  /\ Once(pending, Hands, emitted, published)
  /\ \A r \in Runs : place[r] = "done" => pending[r] = {}

USE StreamAssumption

-----------------------------------------------------------------------------
(* The moves.                                                              *)

\* A new delta joins its batch.
LEMMA Joins ==
  ASSUME NEW r \in Runs, NEW c, NEW P, NEW H, NEW E, NEW pub, NEW P2, NEW pub2,
         Once(P, H, E, pub), \A q \in Runs : c \notin pub[q], c[1] = r,
         P2[r] = P[r] \cup {c}, pub2[r] = pub[r] \cup {c},
         \A q \in Runs : q # r => P2[q] = P[q] /\ pub2[q] = pub[q]
  PROVE  Once(P2, H, E, pub2)
<1>1. c \notin E /\ \A t \in Threads : c \notin H[t]
  BY DEF Once
<1>2. \A q \in Runs : /\ P2[q] \subseteq P[q] \cup {c} /\ pub2[q] \subseteq pub[q] \cup {c}
                      /\ P[q] \subseteq P2[q] /\ pub[q] \subseteq pub2[q]
  OBVIOUS
<1>3. /\ \A q \in Runs, t \in Threads : P2[q] \cap H[t] = {}
      /\ \A q \in Runs : P2[q] \cap E = {}
  BY <1>1, <1>2 DEF Once
<1>4. ASSUME NEW q \in Runs PROVE pub2[q] \subseteq P2[q] \cup E \cup UNION {H[t] : t \in Threads}
  <2>1. pub[q] \subseteq P[q] \cup E \cup UNION {H[t] : t \in Threads}
    BY DEF Once
  <2> QED
    BY <1>2, <2>1
<1>5. \A q \in Runs : P2[q] \subseteq pub2[q]
  <2>1. \A q \in Runs : P[q] \subseteq pub[q]
    BY DEF Once
  <2> QED
    BY <2>1
<1>6. UNION {pub[q] : q \in Runs} \subseteq UNION {pub2[q] : q \in Runs}
  BY <1>2
<1>7. /\ \A t \in Threads : H[t] \subseteq UNION {pub2[q] : q \in Runs}
      /\ E \subseteq UNION {pub2[q] : q \in Runs}
  BY <1>6 DEF Once
<1>8. \A q \in Runs : \A x \in pub2[q] : x[1] = q
  BY <1>2 DEF Once
<1> QED
  BY <1>3, <1>4, <1>5, <1>7, <1>8 DEF Once

\* A batch is taken by a goroutine that has nothing in hand.
LEMMA Taken ==
  ASSUME NEW r \in Runs, NEW t \in Threads, NEW P, NEW H, NEW E, NEW pub, NEW P2, NEW H2,
         Once(P, H, E, pub), H[t] = {},
         P2[r] = {}, \A q \in Runs : q # r => P2[q] = P[q],
         H2[t] = P[r], \A u \in Threads : u # t => H2[u] = H[u]
  PROVE  Once(P2, H2, E, pub)
<1>1. \A q \in Runs : q # r => P[q] \cap P[r] = {}
  BY DEF Once
<1>2. \A q \in Runs, u \in Threads : P2[q] \cap H2[u] = {}
  BY <1>1 DEF Once
<1>3. \A q \in Runs : P2[q] \cap E = {} /\ P2[q] \subseteq pub[q]
  BY DEF Once
<1>4. \A u, w \in Threads : u # w => H2[u] \cap H2[w] = {}
  BY DEF Once
<1>5. \A u \in Threads : H2[u] \cap E = {}
  BY DEF Once
<1>6. \A u \in Threads : H[u] \subseteq H2[u]
  OBVIOUS
<1>7. ASSUME NEW q \in Runs PROVE pub[q] \subseteq P2[q] \cup E \cup UNION {H2[u] : u \in Threads}
  <2>1. pub[q] \subseteq P[q] \cup E \cup UNION {H[u] : u \in Threads}
    BY DEF Once
  <2>2. UNION {H[u] : u \in Threads} \subseteq UNION {H2[u] : u \in Threads}
    BY <1>6
  <2>3. P[r] \subseteq UNION {H2[u] : u \in Threads}
    OBVIOUS
  <2> QED
    BY <2>1, <2>2, <2>3
<1>8. \A u \in Threads : H2[u] \subseteq UNION {pub[q] : q \in Runs}
  BY DEF Once
<1> QED
  BY <1>2, <1>3, <1>4, <1>5, <1>7, <1>8 DEF Once

\* Part of what a goroutine has in hand is emitted.
LEMMA Sent ==
  ASSUME NEW t \in Threads, NEW P, NEW H, NEW E, NEW pub, NEW H2, NEW S,
         Once(P, H, E, pub), H[t] = S \cup H2[t], S \cap H2[t] = {},
         \A u \in Threads : u # t => H2[u] = H[u]
  PROVE  Once(P, H2, E \cup S, pub)
<1>1. \A u \in Threads : H2[u] \subseteq H[u] /\ S \subseteq H[t]
  OBVIOUS
<1>2. /\ \A q \in Runs, u \in Threads : P[q] \cap H2[u] = {}
      /\ \A q \in Runs : P[q] \cap (E \cup S) = {}
      /\ \A u, w \in Threads : u # w => H2[u] \cap H2[w] = {}
  BY <1>1 DEF Once
<1>3. \A u \in Threads : H2[u] \cap (E \cup S) = {}
  <2>1. \A u \in Threads : H2[u] \cap E = {}
    BY <1>1 DEF Once
  <2>2. \A u \in Threads : u # t => H2[u] \cap S = {}
    BY <1>1 DEF Once
  <2> QED
    BY <2>1, <2>2
<1>4. ASSUME NEW q \in Runs PROVE pub[q] \subseteq P[q] \cup (E \cup S) \cup UNION {H2[u] : u \in Threads}
  <2>1. pub[q] \subseteq P[q] \cup E \cup UNION {H[u] : u \in Threads}
    BY DEF Once
  <2>2. UNION {H[u] : u \in Threads} \subseteq S \cup UNION {H2[u] : u \in Threads}
    <3>1. \A u \in Threads : H[u] \subseteq S \cup H2[u]
      OBVIOUS
    <3> QED
      BY <3>1
  <2> QED
    BY <2>1, <2>2
<1>5. /\ \A u \in Threads : H2[u] \subseteq UNION {pub[q] : q \in Runs}
      /\ E \cup S \subseteq UNION {pub[q] : q \in Runs}
  BY <1>1 DEF Once
<1>6. /\ \A q \in Runs : \A x \in pub[q] : x[1] = q
      /\ \A q \in Runs : P[q] \subseteq pub[q]
  BY DEF Once
<1> QED
  BY <1>2, <1>3, <1>4, <1>5, <1>6 DEF Once

\* Hands that hold the same hold the same.
LEMMA Kept ==
  ASSUME NEW P, NEW H, NEW E, NEW pub, NEW H2, Once(P, H, E, pub),
         \A u \in Threads : H2[u] = H[u]
  PROVE  Once(P, H2, E, pub)
<1>1. {H2[u] : u \in Threads} = {H[u] : u \in Threads}
  OBVIOUS
<1> QED
  BY <1>1 DEF Once

-----------------------------------------------------------------------------
(* What events hold.                                                       *)

\* An empty queue holds no delta.
LEMMA InHandEmpty == InHand(<<>>, Nobody) = {} /\ Apart(<<>>)
  BY DEF InHand, Apart

\* The first event and the rest.
LEMMA InHandFirst ==
  ASSUME NEW w \in Seq(Events), w # <<>>, NEW l, l # Nobody, Apart(w)
  PROVE  /\ InHand(w, Nobody) = Head(w).chunks \cup InHand(w, l)
         /\ Head(w).chunks \cap InHand(w, l) = {}
<1>1. Len(w) \in Nat /\ Len(w) >= 1 /\ Head(w) = w[1]
  OBVIOUS
<1>2. InHand(w, Nobody) = UNION {w[i].chunks : i \in 1..Len(w)}
  BY DEF InHand
<1>3. InHand(w, l) = UNION {w[i].chunks : i \in 2..Len(w)}
  BY DEF InHand
<1>4. 1..Len(w) = {1} \cup 2..Len(w)
  BY <1>1
<1>5. \A i \in 2..Len(w) : w[1].chunks \cap w[i].chunks = {}
  BY <1>1 DEF Apart
<1> QED
  BY <1>1, <1>2, <1>3, <1>4, <1>5

\* Once the first event is sent the rest is what it was.
LEMMA InHandRest ==
  ASSUME NEW w \in Seq(Events), w # <<>>, NEW l, l # Nobody, Apart(w)
  PROVE  InHand(Tail(w), Nobody) = InHand(w, l) /\ Apart(Tail(w))
<1>1. /\ Len(w) \in Nat /\ Len(w) >= 1 /\ Len(Tail(w)) = Len(w) - 1
      /\ \A i \in 1..Len(Tail(w)) : Tail(w)[i] = w[i + 1]
  OBVIOUS
<1>2. InHand(Tail(w), Nobody) = UNION {Tail(w)[i].chunks : i \in 1..Len(Tail(w))}
  BY DEF InHand
<1>3. InHand(w, l) = UNION {w[i].chunks : i \in 2..Len(w)}
  BY DEF InHand
<1>4. UNION {Tail(w)[i].chunks : i \in 1..Len(Tail(w))} = UNION {w[i].chunks : i \in 2..Len(w)}
  <2>1. \A i \in 1..Len(Tail(w)) : \E j \in 2..Len(w) : Tail(w)[i].chunks = w[j].chunks
    <3>1. \A i \in 1..Len(Tail(w)) : i + 1 \in 2..Len(w) /\ Tail(w)[i].chunks = w[i + 1].chunks
      BY <1>1
    <3> QED
      BY <3>1
  <2>2. \A i \in 2..Len(w) : \E j \in 1..Len(Tail(w)) : w[i].chunks = Tail(w)[j].chunks
    <3>1. \A i \in 2..Len(w) : i - 1 \in 1..Len(Tail(w)) /\ w[i].chunks = Tail(w)[i - 1].chunks
      BY <1>1
    <3> QED
      BY <3>1
  <2>3. UNION {Tail(w)[i].chunks : i \in 1..Len(Tail(w))} \subseteq UNION {w[i].chunks : i \in 2..Len(w)}
    BY <2>1
  <2>4. UNION {w[i].chunks : i \in 2..Len(w)} \subseteq UNION {Tail(w)[i].chunks : i \in 1..Len(Tail(w))}
    BY <2>2
  <2> QED
    BY <2>3, <2>4
<1>5. ASSUME NEW i \in 1..Len(Tail(w)), NEW j \in 1..Len(Tail(w)), i # j
      PROVE  Tail(w)[i].chunks \cap Tail(w)[j].chunks = {}
  <2>1. i + 1 \in 1..Len(w) /\ j + 1 \in 1..Len(w) /\ i + 1 # j + 1
    BY <1>1, <1>5
  <2> QED
    BY <1>1, <2>1 DEF Apart
<1> QED
  BY <1>2, <1>3, <1>4, <1>5 DEF Apart

\* What one event holds.
LEMMA InHandOne ==
  ASSUME NEW x \in Events
  PROVE  <<x>> \in Seq(Events) /\ InHand(<<x>>, Nobody) = x.chunks /\ Apart(<<x>>)
  BY DEF InHand, Apart

\* Events one after the other.
LEMMA InHandBoth ==
  ASSUME NEW v \in Seq(Events), NEW w \in Seq(Events), Apart(v), Apart(w),
         InHand(v, Nobody) \cap InHand(w, Nobody) = {}
  PROVE  /\ v \o w \in Seq(Events) /\ Apart(v \o w)
         /\ InHand(v \o w, Nobody) = InHand(v, Nobody) \cup InHand(w, Nobody)
<1> DEFINE b == v \o w
<1>1. /\ b \in Seq(Events) /\ Len(b) = Len(v) + Len(w) /\ Len(v) \in Nat /\ Len(w) \in Nat
      /\ \A i \in 1..Len(v) : b[i] = v[i]
      /\ \A i \in 1..Len(w) : b[Len(v) + i] = w[i]
  OBVIOUS
<1> HIDE DEF b
<1>2. \A i \in 1..Len(b) : \/ i \in 1..Len(v) /\ b[i] = v[i]
                           \/ i - Len(v) \in 1..Len(w) /\ b[i] = w[i - Len(v)]
  <2> SUFFICES ASSUME NEW i \in 1..Len(b), i \notin 1..Len(v)
               PROVE  i - Len(v) \in 1..Len(w) /\ b[i] = w[i - Len(v)]
    BY <1>1
  <2>1. i - Len(v) \in 1..Len(w)
    BY <1>1
  <2>2. b[Len(v) + (i - Len(v))] = w[i - Len(v)]
    BY <1>1, <2>1
  <2>3. Len(v) + (i - Len(v)) = i
    BY <1>1
  <2> QED
    BY <2>1, <2>2, <2>3
<1>3. \A i \in 1..Len(v) : i \in 1..Len(b)
  BY <1>1
<1>4. \A i \in 1..Len(w) : Len(v) + i \in 1..Len(b)
  BY <1>1
<1>5. /\ InHand(b, Nobody) = UNION {b[i].chunks : i \in 1..Len(b)}
      /\ InHand(v, Nobody) = UNION {v[i].chunks : i \in 1..Len(v)}
      /\ InHand(w, Nobody) = UNION {w[i].chunks : i \in 1..Len(w)}
  BY DEF InHand
<1>6. InHand(b, Nobody) \subseteq InHand(v, Nobody) \cup InHand(w, Nobody)
  <2> SUFFICES ASSUME NEW c \in InHand(b, Nobody)
               PROVE  c \in InHand(v, Nobody) \cup InHand(w, Nobody)
    OBVIOUS
  <2>1. PICK i \in 1..Len(b) : c \in b[i].chunks
    BY <1>5
  <2>2. \/ \E k \in 1..Len(v) : c \in v[k].chunks
        \/ \E k \in 1..Len(w) : c \in w[k].chunks
    BY <1>2, <2>1
  <2> QED
    BY <1>5, <2>2
<1>7. InHand(v, Nobody) \subseteq InHand(b, Nobody)
  BY <1>1, <1>3, <1>5
<1>8. InHand(w, Nobody) \subseteq InHand(b, Nobody)
  <2>1. \A i \in 1..Len(w) : \E j \in 1..Len(b) : w[i].chunks = b[j].chunks
    BY <1>1, <1>4
  <2> QED
    BY <1>5, <2>1
<1>10. /\ \A i \in 1..Len(v) : v[i].chunks \subseteq InHand(v, Nobody)
       /\ \A i \in 1..Len(w) : w[i].chunks \subseteq InHand(w, Nobody)
  BY <1>5
<1>9. ASSUME NEW i \in 1..Len(b), NEW j \in 1..Len(b), i # j
      PROVE  b[i].chunks \cap b[j].chunks = {}
  <2>1. CASE i \in 1..Len(v) /\ j \in 1..Len(v) /\ b[i] = v[i] /\ b[j] = v[j]
    BY <1>9, <2>1 DEF Apart
  <2>2. CASE i - Len(v) \in 1..Len(w) /\ j - Len(v) \in 1..Len(w) /\ b[i] = w[i - Len(v)] /\ b[j] = w[j - Len(v)]
    <3>1. i - Len(v) # j - Len(v)
      BY <1>1, <1>9
    <3> QED
      BY <2>2, <3>1 DEF Apart
  <2>3. CASE i \in 1..Len(v) /\ j - Len(v) \in 1..Len(w) /\ b[i] = v[i] /\ b[j] = w[j - Len(v)]
    BY <1>10, <2>3
  <2>4. CASE j \in 1..Len(v) /\ i - Len(v) \in 1..Len(w) /\ b[j] = v[j] /\ b[i] = w[i - Len(v)]
    BY <1>10, <2>4
  <2> QED
    BY <1>2, <2>1, <2>2, <2>3, <2>4
<1> QED
  BY <1>1, <1>6, <1>7, <1>8, <1>9 DEF Apart, b

\* The events of a batch hold the batch, each delta once, also with an event of
\* another kind behind them.
LEMMA BatchHolds ==
  ASSUME NEW r \in Runs, Types, NEW k \in {"other", "complete"}
  PROVE  /\ BatchEvents(r) \in Seq(Events) /\ Apart(BatchEvents(r))
         /\ InHand(BatchEvents(r), Nobody) = pending[r]
         /\ Append(BatchEvents(r), Event(r, k, {})) \in Seq(Events) \ {<<>>}
         /\ Apart(Append(BatchEvents(r), Event(r, k, {})))
         /\ InHand(Append(BatchEvents(r), Event(r, k, {})), Nobody) = pending[r]
<1>1. /\ OfKind(r, "content") \cap OfKind(r, "thinking") = {}
      /\ OfKind(r, "content") \cup OfKind(r, "thinking") = pending[r]
  BY DEF OfKind, Types, AllChunks, Kinds
<1>2. ASSUME NEW kind \in Kinds
      PROVE  /\ KindEvent(r, kind) \in Seq(Events) /\ Apart(KindEvent(r, kind))
             /\ InHand(KindEvent(r, kind), Nobody) = OfKind(r, kind)
  <2>1. CASE OfKind(r, kind) = {}
    BY <2>1, InHandEmpty DEF KindEvent
  <2>2. CASE OfKind(r, kind) # {}
    <3>1. OfKind(r, kind) \subseteq AllChunks
      BY DEF OfKind, Types
    <3>2. Event(r, kind, OfKind(r, kind)) \in Events
      BY <3>1 DEF Event, Events
    <3>3. Event(r, kind, OfKind(r, kind)).chunks = OfKind(r, kind)
      BY DEF Event
    <3> QED
      BY <2>2, <3>2, <3>3, InHandOne DEF KindEvent
  <2> QED
    BY <2>1, <2>2
<1>3. /\ BatchEvents(r) \in Seq(Events) /\ Apart(BatchEvents(r))
      /\ InHand(BatchEvents(r), Nobody) = pending[r]
  <2>1. "content" \in Kinds /\ "thinking" \in Kinds
    BY DEF Kinds
  <2> QED
    BY <1>1, <1>2, <2>1, InHandBoth DEF BatchEvents
<1> DEFINE z == Event(r, k, {})
           w == BatchEvents(r)
<1>4. z \in Events /\ z.chunks = {}
  BY DEF Event, Events
<1> HIDE DEF z, w
<1>5. <<z>> \in Seq(Events) /\ InHand(<<z>>, Nobody) = {} /\ Apart(<<z>>)
  BY <1>4, InHandOne
<1>6. w \in Seq(Events) /\ Apart(w) /\ InHand(w, Nobody) = pending[r]
  BY <1>3 DEF w
<1>7. w \o <<z>> \in Seq(Events) /\ Apart(w \o <<z>>) /\ InHand(w \o <<z>>, Nobody) = pending[r]
  <2> DEFINE y == <<z>>
  <2>1. y \in Seq(Events) /\ InHand(y, Nobody) = {} /\ Apart(y)
    BY <1>5
  <2> HIDE DEF y
  <2>2. InHand(w, Nobody) \cap InHand(y, Nobody) = {}
    BY <2>1
  <2>3. /\ w \o y \in Seq(Events) /\ Apart(w \o y)
        /\ InHand(w \o y, Nobody) = InHand(w, Nobody) \cup InHand(y, Nobody)
    BY <1>6, <2>1, <2>2, InHandBoth
  <2> QED
    BY <1>6, <2>1, <2>3 DEF y
<1>8. Append(w, z) = w \o <<z>> /\ w \o <<z>> # <<>>
  BY <1>4, <1>5, <1>6
<1> QED
  BY <1>3, <1>7, <1>8 DEF w, z

-----------------------------------------------------------------------------
(* The invariant.                                                          *)

LEMMA InitIInv == Init => IInv
<1> SUFFICES ASSUME Init PROVE IInv
  OBVIOUS
<1>1. Types
  BY DEF Init, Types
<1>2. Numbered
  BY FS_EmptySet DEF Init, Numbered
<1>3. Rested /\ (\A t \in Threads : Apart(work[t]))
  BY DEF Init, Rested, Idle, Apart
<1>4. \A t \in Threads : Hands[t] = {}
  BY InHandEmpty DEF Init, Hands
<1>5. Once(pending, Hands, emitted, published)
  BY <1>4 DEF Init, Once
<1>6. \A r \in Runs : place[r] = "done" => pending[r] = {}
  BY DEF Init
<1> QED
  BY <1>1, <1>2, <1>3, <1>5, <1>6 DEF IInv

\* A goroutine takes the batch of a run and is about to emit the events w.
LEMMA TakeKeeps ==
  ASSUME IInv, NEW r \in Runs, NEW t \in Threads, NEW w,
         Idle(t), TakeBatch(r), UNCHANGED <<published, left, emitted>>,
         work' = [work EXCEPT ![t] = w],
         w \in Seq(Events), Apart(w), InHand(w, Nobody) = pending[r]
  PROVE  /\ pending' \in [Runs -> SUBSET AllChunks] /\ work' \in [Threads -> Seq(Events)]
         /\ \A u \in Threads : Apart(work'[u])
         /\ Once(pending', Hands', emitted', published')
<1>1. /\ pending' = [pending EXCEPT ![r] = {}]
      /\ pending \in [Runs -> SUBSET AllChunks] /\ work \in [Threads -> Seq(Events)]
      /\ left[t] = Nobody /\ work[t] = <<>>
  BY DEF TakeBatch, IInv, Types, Rested, Idle
<1>2. pending' \in [Runs -> SUBSET AllChunks] /\ work' \in [Threads -> Seq(Events)]
  BY <1>1
<1>3. \A u \in Threads : Apart(work'[u])
  BY <1>1 DEF IInv
<1> DEFINE P == pending
           H == Hands
           P2 == pending'
           H2 == Hands'
<1>4. H[t] = {}
  BY <1>1, InHandEmpty DEF Hands
<1>5. H2[t] = P[r]
  BY <1>1 DEF Hands
<1>6. \A u \in Threads : u # t => H2[u] = H[u]
  BY <1>1 DEF Hands
<1>7. P2[r] = {} /\ \A q \in Runs : q # r => P2[q] = P[q]
  BY <1>1
<1>8. Once(P, H, emitted, published)
  BY DEF IInv
<1>9. Once(P2, H2, emitted, published)
  <2> HIDE DEF P, H, P2, H2
  <2> QED
    BY <1>4, <1>5, <1>6, <1>7, <1>8, Taken
<1> QED
  BY <1>2, <1>3, <1>9

LEMMA PublishDeltaKeeps == ASSUME IInv, NEW r \in Runs, PublishDelta(r) PROVE IInv'
<1>1. PICK kind \in Kinds :
        LET chunk == <<r, Cardinality(published[r]) + 1, kind>> IN
        /\ published' = [published EXCEPT ![r] = @ \cup {chunk}]
        /\ pending' = [pending EXCEPT ![r] = @ \cup {chunk}]
  BY DEF PublishDelta
<1>2. place[r] = "open" /\ UNCHANGED <<place, flusher, work, left, emitted>>
  BY DEF PublishDelta, emitVars
<1>3. Types /\ Numbered /\ Rested /\ Once(pending, Hands, emitted, published)
  BY DEF IInv
<1> DEFINE n == Cardinality(published[r])
           c == <<r, n + 1, kind>>
<1>4. n \in Nat /\ IsFiniteSet(published[r])
  BY <1>3, FS_CardinalityType DEF Numbered
<1>5. c \in AllChunks /\ c[1] = r
  BY <1>4 DEF AllChunks
<1>6. \A q \in Runs : c \notin published[q]
  <2> SUFFICES ASSUME NEW q \in Runs, c \in published[q] PROVE FALSE
    OBVIOUS
  <2>1. c[1] = q /\ c[2] <= Cardinality(published[q])
    BY <1>3 DEF Numbered
  <2>2. n + 1 <= n
    BY <2>1
  <2> QED
    BY <1>4, <2>2
<1>7. /\ published'[r] = published[r] \cup {c} /\ pending'[r] = pending[r] \cup {c}
      /\ \A q \in Runs : q # r => published'[q] = published[q] /\ pending'[q] = pending[q]
  BY <1>1, <1>3 DEF Types
<1>8. Types'
  BY <1>1, <1>2, <1>3, <1>5 DEF Types
<1>9. Numbered'
  <2>1. IsFiniteSet(published[r] \cup {c}) /\ Cardinality(published[r] \cup {c}) = n + 1
    <3>1. c \notin published[r]
      BY <1>6
    <3> HIDE DEF c
    <3> QED
      BY <1>4, <3>1, FS_AddElement
  <2>2. ASSUME NEW q \in Runs
        PROVE  /\ IsFiniteSet(published'[q])
               /\ \A x \in published'[q] : x[1] = q /\ x[2] <= Cardinality(published'[q])
    <3>1. CASE q = r
      <4>1. published'[q] = published[r] \cup {c} /\ Cardinality(published'[q]) = n + 1
        BY <1>7, <2>1, <3>1
      <4>2. \A x \in published[r] : x[1] = r /\ x[2] <= n
        BY <1>3 DEF Numbered
      <4>3. \A x \in published[r] : x[2] \in Nat
        BY <1>3 DEF Types, AllChunks
      <4>4. \A x \in published[r] : x[2] <= n + 1
        BY <1>4, <4>2, <4>3
      <4>5. c[1] = r /\ c[2] = n + 1
        OBVIOUS
      <4>6. IsFiniteSet(published'[q])
        BY <2>1, <4>1
      <4>7. ASSUME NEW x \in published'[q]
            PROVE  x[1] = q /\ x[2] <= Cardinality(published'[q])
        <5>1. CASE x = c
          <6>1. x[1] = r /\ x[2] = n + 1 /\ n + 1 <= n + 1
            BY <1>4, <4>5, <5>1
          <6> HIDE DEF c, n
          <6> QED
            BY <3>1, <4>1, <6>1
        <5>2. CASE x \in published[r]
          <6>1. x[1] = r /\ x[2] <= n + 1
            BY <4>2, <4>4, <5>2
          <6> HIDE DEF c, n
          <6> QED
            BY <3>1, <4>1, <6>1
        <5> QED
          BY <4>1, <5>1, <5>2
      <4> QED
        BY <4>6, <4>7
    <3>2. CASE q # r
      BY <1>3, <1>7, <3>2 DEF Numbered
    <3> QED
      BY <3>1, <3>2
  <2> QED
    BY <2>2 DEF Numbered
<1>10. Rested' /\ (\A t \in Threads : Apart(work'[t])) /\ Hands' = Hands
  BY <1>2, <1>3 DEF Rested, Idle, Hands, IInv
<1>11. Once(pending', Hands', emitted', published')
  <2> DEFINE P == pending
             H == Hands
             P2 == pending'
             p == published
             p2 == published'
  <2>1. Once(P, H, emitted, p)
    BY <1>3
  <2>2. /\ p2[r] = p[r] \cup {c} /\ P2[r] = P[r] \cup {c}
        /\ \A q \in Runs : q # r => P2[q] = P[q] /\ p2[q] = p[q]
        /\ \A q \in Runs : c \notin p[q]
    BY <1>6, <1>7
  <2>3. Once(P2, H, emitted, p2)
    <3> HIDE DEF P, H, P2, p, p2, c
    <3> QED
      BY <1>5, <2>1, <2>2, Joins
  <2> QED
    BY <1>2, <1>10, <2>3
<1>12. \A q \in Runs : place'[q] = "done" => pending'[q] = {}
  BY <1>2, <1>7 DEF IInv
<1> QED
  BY <1>8, <1>9, <1>10, <1>11, <1>12 DEF IInv

LEMMA PublishEventKeeps == ASSUME IInv, NEW r \in Runs, PublishEvent(r) PROVE IInv'
<1>1. PICK k \in {"other", "complete"} :
        /\ work' = [work EXCEPT ![r] = Append(BatchEvents(r), Event(r, k, {}))]
        /\ place' = place \/ place' = [place EXCEPT ![r] = "done"]
  BY DEF PublishEvent
<1>2. Idle(r) /\ TakeBatch(r) /\ UNCHANGED <<published, flusher, left, emitted>>
  BY DEF PublishEvent
<1>3. Types /\ Numbered /\ Rested /\ r \in Threads
  BY DEF IInv, Threads
<1> DEFINE w == Append(BatchEvents(r), Event(r, k, {}))
<1>4. w \in Seq(Events) \ {<<>>} /\ Apart(w) /\ InHand(w, Nobody) = pending[r]
  BY <1>3, BatchHolds
<1>5. work' = [work EXCEPT ![r] = w]
  BY <1>1
<1> HIDE DEF w
<1>6. /\ pending' \in [Runs -> SUBSET AllChunks] /\ work' \in [Threads -> Seq(Events)]
      /\ \A u \in Threads : Apart(work'[u])
      /\ Once(pending', Hands', emitted', published')
  BY <1>2, <1>3, <1>4, <1>5, TakeKeeps
<1>7. Types'
  BY <1>1, <1>2, <1>3, <1>6 DEF Types
<1>8. Rested'
  <2>1. r \notin Timers /\ \A t \in Threads : t # r => work'[t] = work[t]
    BY <1>3, <1>5 DEF Types
  <2>2. work'[r] # <<>>
    BY <1>3, <1>4, <1>5 DEF Types
  <2>3. \A t \in Timers : t \in Threads
    BY DEF Threads
  <2> QED
    BY <1>2, <1>3, <2>1, <2>2, <2>3 DEF Rested, Idle
<1>9. Numbered'
  BY <1>2, <1>3 DEF Numbered
<1>10. \A q \in Runs : place'[q] = "done" => pending'[q] = {}
  <2>1. pending' = [pending EXCEPT ![r] = {}]
    BY <1>2 DEF TakeBatch
  <2> QED
    BY <1>1, <1>3, <2>1 DEF IInv, Types
<1> QED
  BY <1>6, <1>7, <1>8, <1>9, <1>10 DEF IInv

LEMMA FlushByTimerKeeps == ASSUME IInv, NEW t \in Timers, FlushByTimer(t) PROVE IInv'
<1> DEFINE r == flusher[t]
           w == BatchEvents(r)
<1>1. Types /\ Numbered /\ Rested /\ t \in Threads
  BY DEF IInv, Threads
<1>2. /\ r # NoRun /\ work' = [work EXCEPT ![t] = w] /\ TakeBatch(r)
      /\ flusher' = [flusher EXCEPT ![t] = NoRun]
      /\ UNCHANGED <<place, published, left, emitted>>
  BY DEF FlushByTimer, publisherVars
<1>3. r \in Runs /\ Idle(t)
  BY <1>1, <1>2 DEF Types, Rested
<1>4. w \in Seq(Events) /\ Apart(w) /\ InHand(w, Nobody) = pending[r]
  BY <1>1, <1>3, BatchHolds
<1> HIDE DEF r, w
<1>5. /\ pending' \in [Runs -> SUBSET AllChunks] /\ work' \in [Threads -> Seq(Events)]
      /\ \A u \in Threads : Apart(work'[u])
      /\ Once(pending', Hands', emitted', published')
  BY <1>1, <1>2, <1>3, <1>4, TakeKeeps
<1>6. Types'
  BY <1>1, <1>2, <1>5 DEF Types
<1>7. Rested'
  <2>1. \A u \in Threads : u # t => work'[u] = work[u]
    BY <1>1, <1>2 DEF Types
  <2>2. left[t] = Nobody
    BY <1>1, <1>3 DEF Rested
  <2>3. \A u \in Timers : u \in Threads /\ (flusher'[u] # NoRun => u # t /\ flusher[u] # NoRun)
    BY <1>1, <1>2 DEF Types, Threads
  <2> QED
    BY <1>1, <1>2, <2>1, <2>2, <2>3 DEF Rested, Idle
<1>8. Numbered'
  BY <1>1, <1>2 DEF Numbered
<1>9. \A q \in Runs : place'[q] = "done" => pending'[q] = {}
  <2>1. pending' = [pending EXCEPT ![r] = {}]
    BY <1>2 DEF TakeBatch
  <2> QED
    BY <1>1, <1>2, <2>1 DEF IInv, Types
<1> QED
  BY <1>5, <1>6, <1>7, <1>8, <1>9 DEF IInv

LEMMA TimerFiresKeeps ==
  ASSUME IInv, NEW r \in Runs, NEW t \in Timers, TimerFires(r, t) PROVE IInv'
<1>1. /\ Idle(t) /\ flusher' = [flusher EXCEPT ![t] = r]
      /\ UNCHANGED <<place, published, pending, work, left, emitted>>
  BY DEF TimerFires, publisherVars, emitVars
<1>2. Types' /\ Numbered'
  BY <1>1 DEF IInv, Types, Numbered
<1>3. Rested'
  BY <1>1 DEF IInv, Types, Rested, Idle
<1>4. Hands' = Hands
  BY <1>1 DEF Hands
<1> QED
  BY <1>1, <1>2, <1>3, <1>4 DEF IInv

LEMMA StartEmitKeeps == ASSUME IInv, NEW t \in Threads, StartEmit(t) PROVE IInv'
<1>1. PICK S \in SUBSET Subs : left' = [left EXCEPT ![t] = S]
  BY DEF StartEmit
<1>2. /\ ~Idle(t) /\ left[t] = Nobody /\ emitted' = emitted \cup Head(work[t]).chunks
      /\ UNCHANGED <<place, published, pending, flusher, work>>
  BY DEF StartEmit, publisherVars, batchVars
<1>3. Types /\ Numbered /\ Rested /\ Apart(work[t]) /\ work[t] \in Seq(Events) /\ work[t] # <<>>
      /\ S # Nobody
  BY <1>2 DEF IInv, Types, Idle
<1>4. Types' /\ Numbered'
  BY <1>1, <1>2, <1>3 DEF Types, Numbered
<1>5. \A u \in Threads : u # t => left'[u] = left[u]
  BY <1>1, <1>3 DEF Types
<1>6. Rested'
  BY <1>2, <1>3, <1>5 DEF Rested, Idle
<1> DEFINE H == Hands
           H2 == Hands'
           C == Head(work[t]).chunks
<1>7. /\ InHand(work[t], Nobody) = C \cup InHand(work[t], S)
      /\ C \cap InHand(work[t], S) = {}
  BY <1>3, InHandFirst
<1>8. left'[t] = S
  BY <1>1, <1>3 DEF Types
<1>9. H[t] = C \cup H2[t] /\ C \cap H2[t] = {}
  BY <1>2, <1>7, <1>8 DEF Hands
<1>10. \A u \in Threads : u # t => H2[u] = H[u]
  BY <1>2, <1>5 DEF Hands
<1>11. Once(pending, H, emitted, published)
  BY DEF IInv
<1>12. Once(pending, H2, emitted \cup C, published)
  <2> HIDE DEF H, H2, C
  <2> QED
    BY <1>9, <1>10, <1>11, Sent
<1> QED
  BY <1>2, <1>4, <1>6, <1>12 DEF IInv

LEMMA SendKeeps == ASSUME IInv, NEW t \in Threads, Send(t) PROVE IInv'
<1>1. PICK s \in left[t] : left' = [left EXCEPT ![t] = @ \ {s}]
  BY DEF Send
<1>2. left[t] # Nobody /\ UNCHANGED <<place, published, pending, flusher, work, emitted>>
  BY DEF Send, publisherVars, batchVars
<1>3. Types /\ Rested /\ left[t] \in SUBSET Subs
  BY <1>2 DEF IInv, Types
<1>4. left'[t] = left[t] \ {s} /\ left'[t] \in SUBSET Subs /\ left'[t] # Nobody
      /\ \A u \in Threads : u # t => left'[u] = left[u]
  BY <1>1, <1>3 DEF Types
<1>5. Types' /\ Numbered'
  BY <1>1, <1>2, <1>3 DEF IInv, Types, Numbered
<1>6. ~Idle(t)
  BY <1>2, <1>3 DEF Rested
<1>7. Rested'
  BY <1>2, <1>3, <1>4, <1>6 DEF Rested, Idle
<1>8. \A u \in Threads : InHand(work'[u], left'[u]) = InHand(work[u], left[u])
  BY <1>2, <1>4 DEF InHand
<1>9. Hands' = Hands
  BY <1>8 DEF Hands
<1> QED
  BY <1>2, <1>5, <1>7, <1>9 DEF IInv

LEMMA EndEmitKeeps == ASSUME IInv, NEW t \in Threads, EndEmit(t) PROVE IInv'
<1>1. /\ left[t] = {} /\ left' = [left EXCEPT ![t] = Nobody] /\ work' = [work EXCEPT ![t] = Tail(@)]
      /\ UNCHANGED <<place, published, pending, flusher, emitted>>
  BY DEF EndEmit, publisherVars, batchVars
<1>2. Types /\ Rested /\ left[t] # Nobody
  BY <1>1 DEF IInv, Nobody
<1>3. ~Idle(t)
  BY <1>2 DEF Rested
<1>4. work[t] \in Seq(Events) /\ work[t] # <<>> /\ Apart(work[t])
  BY <1>2, <1>3 DEF IInv, Types, Idle
<1>5. Tail(work[t]) \in Seq(Events)
  BY <1>4
<1>6. InHand(Tail(work[t]), Nobody) = InHand(work[t], left[t]) /\ Apart(Tail(work[t]))
  BY <1>2, <1>4, InHandRest
<1>7. /\ work'[t] = Tail(work[t]) /\ left'[t] = Nobody
      /\ \A u \in Threads : u # t => work'[u] = work[u] /\ left'[u] = left[u]
  BY <1>1, <1>2 DEF Types
<1>8. Types' /\ Numbered'
  BY <1>1, <1>2, <1>5 DEF IInv, Types, Numbered
<1>9. Rested'
  <2>1. \A u \in Timers : u \in Threads /\ (flusher[u] # NoRun => u # t)
    BY <1>2, <1>3 DEF Rested, Threads
  <2> QED
    BY <1>1, <1>2, <1>7, <2>1 DEF Rested, Idle
<1>10. \A u \in Threads : Apart(work'[u])
  BY <1>6, <1>7 DEF IInv
<1>11. \A u \in Threads : InHand(work'[u], left'[u]) = InHand(work[u], left[u])
  BY <1>6, <1>7
<1>12. Hands' = Hands
  BY <1>11 DEF Hands
<1> QED
  BY <1>1, <1>8, <1>9, <1>10, <1>12 DEF IInv

\* What clients do does not touch the deltas.
LEMMA ClientsKeep ==
  ASSUME IInv, UNCHANGED vars \/ \E s \in Subs : Subscribe(s) \/ Receive(s) \/ Unsubscribe(s)
  PROVE  IInv'
<1>1. UNCHANGED <<place, published, pending, flusher, work, left, emitted>>
  BY DEF vars, Subscribe, Receive, Unsubscribe, publisherVars, batchVars, emitVars
<1>2. Hands' = Hands /\ Types' /\ Numbered' /\ Rested'
  BY <1>1 DEF IInv, Hands, Types, Numbered, Rested, Idle
<1> QED
  BY <1>1, <1>2 DEF IInv

LEMMA StepIInv == IInv /\ [Next]_vars => IInv'
  BY PublishDeltaKeeps, PublishEventKeeps, FlushByTimerKeeps, TimerFiresKeeps, StartEmitKeeps,
     SendKeeps, EndEmitKeeps, ClientsKeep DEF Next, Emit

\* Where every delta is, and that no two events share one.
THEOREM Invariant == Spec => []IInv
  BY InitIInv, StepIInv, PTL DEF Spec

\* flushKey and emit: however publisher and timers race for a batch, each delta
\* is in exactly one place until it is emitted.
THEOREM DeltasOnce == Spec => []EveryDeltaOnce
<1>1. IInv => EveryDeltaOnce
  <2> SUFFICES ASSUME IInv PROVE EveryDeltaOnce
    OBVIOUS
  <2>1. \A t \in Threads : Held(t) = Hands[t]
    BY DEF Held, Hands, InHand
  <2>2. {Held(t) : t \in Threads} = {Hands[t] : t \in Threads}
    BY <2>1
  <2>3. Once(pending, Hands, emitted, published)
    BY DEF IInv
  <2> QED
    BY <2>1, <2>2, <2>3 DEF IInv, Once, EveryDeltaOnce
<1> QED
  BY <1>1, Invariant, PTL

-----------------------------------------------------------------------------
(* Types and the timers.                                                   *)

Bounds ==
  /\ \A r \in Runs : published[r] \subseteq {r} \X (1..Chunks) \X Kinds
  /\ others \in [Runs -> 0..Others] /\ armed \in [Runs -> BOOLEAN]
  /\ sub \in [Subs -> {"none", "open", "closed"}]
  /\ unread \in [Subs -> 0..Buffer] /\ panicked \in BOOLEAN

\* The bounds hold at the start.
LEMMA InitBounds == Init => Bounds
<1> SUFFICES ASSUME Init PROVE Bounds
  OBVIOUS
<1>1. \A r \in Runs : published[r] = {}
  BY DEF Init
<1>2. 0 \in 0..Others /\ 0 \in 0..Buffer
  OBVIOUS
<1>3. others \in [Runs -> 0..Others] /\ unread \in [Subs -> 0..Buffer]
  BY <1>2 DEF Init
<1>4. armed \in [Runs -> BOOLEAN] /\ sub \in [Subs -> {"none", "open", "closed"}]
  BY DEF Init
<1> QED
  BY <1>1, <1>3, <1>4 DEF Init, Bounds

\* Every step keeps them.
LEMMA StepBounds == ASSUME IInv, Bounds, [Next]_vars PROVE Bounds'
<1>1. ASSUME NEW r \in Runs, PublishDelta(r) PROVE Bounds'
  <2>1. PICK kind \in Kinds :
          published' = [published EXCEPT ![r] = @ \cup {<<r, Cardinality(published[r]) + 1, kind>>}]
    BY <1>1 DEF PublishDelta
  <2>2. Cardinality(published[r]) \in Nat /\ Cardinality(published[r]) + 1 <= Chunks
    <3>1. Cardinality(published[r]) \in Nat
      BY FS_CardinalityType DEF IInv, Numbered
    <3> QED
      BY <1>1, <3>1 DEF PublishDelta
  <2>3. <<r, Cardinality(published[r]) + 1, kind>> \in {r} \X (1..Chunks) \X Kinds
    BY <2>2
  <2>4. \A q \in Runs : published'[q] \subseteq {q} \X (1..Chunks) \X Kinds
    <3> DEFINE c == <<r, Cardinality(published[r]) + 1, kind>>
    <3>1. c \in {r} \X (1..Chunks) \X Kinds
      BY <2>3
    <3>2. published' = [published EXCEPT ![r] = @ \cup {c}]
      BY <2>1
    <3> HIDE DEF c
    <3> QED
      BY <3>1, <3>2 DEF Bounds, IInv, Types
  <2>5. UNCHANGED <<others, sub, unread, panicked>> /\ armed' = [armed EXCEPT ![r] = TRUE]
    BY <1>1 DEF PublishDelta, RestartTimer, subVars
  <2> QED
    BY <2>4, <2>5 DEF Bounds
<1>2. ASSUME NEW r \in Runs, PublishEvent(r) PROVE Bounds'
  BY <1>2 DEF PublishEvent, TakeBatch, subVars, Bounds
<1>3. ASSUME NEW r \in Runs, NEW t \in Timers, TimerFires(r, t) PROVE Bounds'
  BY <1>3 DEF TimerFires, publisherVars, subVars, Bounds
<1>4. ASSUME NEW t \in Timers, FlushByTimer(t) PROVE Bounds'
  BY <1>4 DEF FlushByTimer, TakeBatch, publisherVars, subVars, Bounds
<1>5. ASSUME NEW t \in Threads, StartEmit(t) \/ EndEmit(t) PROVE Bounds'
  BY <1>5 DEF StartEmit, EndEmit, publisherVars, batchVars, subVars, Bounds
<1>6. ASSUME NEW t \in Threads, Send(t) PROVE Bounds'
  <2>1. PICK s \in left[t] :
          \/ unread[s] < Buffer /\ unread' = [unread EXCEPT ![s] = @ + 1] /\ UNCHANGED panicked
          \/ UNCHANGED <<unread, panicked>>
          \/ panicked' = TRUE /\ UNCHANGED unread
    BY <1>6 DEF Send
  <2>2. s \in Subs
    BY <1>6 DEF Send, IInv, Types
  <2>3. unread' \in [Subs -> 0..Buffer] /\ panicked' \in BOOLEAN
    <3>1. CASE unread[s] < Buffer /\ unread' = [unread EXCEPT ![s] = @ + 1] /\ UNCHANGED panicked
      <4>1. unread[s] + 1 \in 0..Buffer
        BY <2>2, <3>1 DEF Bounds
      <4> QED
        BY <3>1, <4>1 DEF Bounds
    <3>2. CASE UNCHANGED <<unread, panicked>>
      BY <3>2 DEF Bounds
    <3>3. CASE panicked' = TRUE /\ UNCHANGED unread
      BY <3>3 DEF Bounds
    <3> QED
      BY <2>1, <3>1, <3>2, <3>3
  <2> QED
    BY <1>6, <2>3 DEF Send, publisherVars, batchVars, Bounds
<1>7. ASSUME NEW s \in Subs, Subscribe(s) \/ Receive(s) \/ Unsubscribe(s) PROVE Bounds'
  BY <1>7 DEF Subscribe, Receive, Unsubscribe, publisherVars, batchVars, Bounds
<1>8. UNCHANGED vars => Bounds'
  BY DEF vars, publisherVars, batchVars, subVars, Bounds
<1> QED
  BY <1>1, <1>2, <1>3, <1>4, <1>5, <1>6, <1>7, <1>8 DEF Next, Emit

\* Every variable keeps its type.
THEOREM TypeCorrect == Spec => []TypeOK
<1>1. Init => Bounds
  BY InitBounds
<1>2. IInv /\ Bounds => TypeOK
  <2> SUFFICES ASSUME IInv, Bounds PROVE TypeOK
    OBVIOUS
  <2>1. \A r \in Runs : pending[r] \subseteq published[r]
    BY DEF IInv, Once
  <2> QED
    BY <2>1 DEF IInv, Types, Bounds, TypeOK
<1>3. IInv /\ Bounds /\ [Next]_vars => Bounds'
  BY StepBounds
<1> QED
  BY <1>1, <1>2, <1>3, Invariant, PTL DEF Spec

\* RestartTimer and TakeBatch: stopping a timer never leaves a batch that nobody
\* will flush.
THEOREM NoBatchForgotten == Spec => []PendingIsWatched
<1>1. Init => PendingIsWatched
  BY DEF Init, PendingIsWatched
<1>2. ASSUME IInv, Bounds, PendingIsWatched, [Next]_vars PROVE PendingIsWatched'
  <2>1. ASSUME NEW r \in Runs, PublishDelta(r) PROVE PendingIsWatched'
    <3>1. /\ armed' = [armed EXCEPT ![r] = TRUE] /\ flusher' = flusher
          /\ \A q \in Runs : q # r => pending'[q] = pending[q]
      BY <1>2, <2>1 DEF PublishDelta, RestartTimer, IInv, Types
    <3> QED
      BY <1>2, <3>1 DEF PendingIsWatched, Bounds
  <2>2. ASSUME NEW r \in Runs, PublishEvent(r) PROVE PendingIsWatched'
    <3>1. /\ pending' = [pending EXCEPT ![r] = {}] /\ armed' = [armed EXCEPT ![r] = FALSE]
          /\ flusher' = flusher
      BY <2>2 DEF PublishEvent, TakeBatch
    <3> QED
      BY <1>2, <3>1 DEF PendingIsWatched, IInv, Types, Bounds
  <2>3. ASSUME NEW r \in Runs, NEW t \in Timers, TimerFires(r, t) PROVE PendingIsWatched'
    BY <1>2, <2>3 DEF TimerFires, PendingIsWatched, IInv, Types
  <2>4. ASSUME NEW t \in Timers, FlushByTimer(t) PROVE PendingIsWatched'
    BY <1>2, <2>4 DEF FlushByTimer, TakeBatch, PendingIsWatched, IInv, Types
  <2>5. UNCHANGED <<batchVars, flusher>> => PendingIsWatched'
    BY <1>2 DEF batchVars, PendingIsWatched
  <2> QED
    BY <1>2, <2>1, <2>2, <2>3, <2>4, <2>5
    DEF Next, Emit, StartEmit, Send, EndEmit, Subscribe, Receive, Unsubscribe, vars
<1>3. Init => Bounds
  BY InitBounds
<1>4. IInv /\ Bounds /\ [Next]_vars => Bounds'
  BY StepBounds
<1> QED
  BY <1>1, <1>2, <1>3, <1>4, Invariant, PTL DEF Spec

=============================================================================
