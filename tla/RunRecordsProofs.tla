-------------------------- MODULE RunRecordsProofs --------------------------
(***************************************************************************)
(* What restore computes of any log, and the repair of any view, proved by *)
(* induction over the records.                                             *)
(***************************************************************************)
EXTENDS RecordLog, FiniteSetTheorems, WellFoundedInduction, SequenceTheorems, TLAPS

-----------------------------------------------------------------------------
(* Induction.  The induction theorems of the library take a predicate as a *)
(* parameter; over a set they are first-order.                             *)

\* A set of naturals has a least element.
LEMMA LeastNatural ==
  ASSUME NEW U \in SUBSET Nat, U # {}
  PROVE  \E x \in U : \A y \in U : x <= y
<1> DEFINE R == { ss \in Nat \X Nat : ss[1] < ss[2] }
<1>1. IsWellFoundedOn(R, Nat)
  BY NatLessThanWellFounded DEF OpToRel
<1> HIDE DEF R
<1>2. PICK x \in U : \A y \in U : ~ (<<y, x>> \in R)
  BY <1>1, WFMin
<1>3. ASSUME NEW y \in U PROVE x <= y
  <2>1. <<y, x>> \notin R /\ <<y, x>> \in Nat \X Nat
    BY <1>2
  <2>2. ~ (y < x)
    BY <2>1 DEF R
  <2> QED
    BY <2>2
<1> QED
  BY <1>2, <1>3

\* A set that has 0 and with each natural the next one has all of them.
LEMMA Induction ==
  ASSUME NEW T, 0 \in T, \A n \in Nat : n \in T => n + 1 \in T
  PROVE  Nat \subseteq T
<1> SUFFICES ASSUME Nat \ T # {} PROVE FALSE
  OBVIOUS
<1>1. PICK x \in Nat \ T : \A y \in Nat \ T : x <= y
  BY LeastNatural
<1>2. x - 1 \in Nat /\ x - 1 \in T
  BY <1>1
<1> QED
  BY <1>1, <1>2

-----------------------------------------------------------------------------
(* Folds.  FoldLeft goes through the sets of positions, largest first; of   *)
(* a finite sequence there is a table of what it computes for each of them. *)

IsTable(g, V, base, n, F) ==
  /\ g \in [SUBSET (1 .. n) -> V]
  /\ \A s \in SUBSET (1 .. n) :
       g[s] = IF s = {} THEN base ELSE F[<<g[s \ {Max(s)}], Max(s)>>]

\* The table of a fold over n positions exists.
LEMMA FoldTable ==
  ASSUME NEW V, NEW base \in V, NEW n \in Nat, NEW F \in [V \X (1 .. n) -> V]
  PROVE  \E g : IsTable(g, V, base, n, F)
<1> DEFINE Table(g, k) ==
             /\ g \in [SUBSET (1 .. k) -> V]
             /\ \A s \in SUBSET (1 .. k) :
                  g[s] = IF s = {} THEN base ELSE F[<<g[s \ {Max(s)}], Max(s)>>]
           T == { k \in Nat : k <= n => \E g : Table(g, k) }
<1>1. 0 \in T
  <2> DEFINE g == [s \in SUBSET (1 .. 0) |-> base]
  <2>1. 1 .. 0 = {}
    OBVIOUS
  <2>2. Table(g, 0)
    BY <2>1
  <2> HIDE DEF Table
  <2> QED
    BY <2>2
<1>2. ASSUME NEW k \in Nat, k \in T PROVE k + 1 \in T
  <2> HIDE DEF Table
  <2> SUFFICES ASSUME k + 1 <= n PROVE \E h : Table(h, k + 1)
    OBVIOUS
  <2>1. PICK g : Table(g, k)
    BY <1>2
  <2> USE DEF Table
  <2> DEFINE h == [s \in SUBSET (1 .. k + 1) |->
                     IF k + 1 \in s THEN F[<<g[s \ {k + 1}], k + 1>>] ELSE g[s]]
  <2>2. /\ 1 .. k \subseteq 1 .. k + 1 /\ k + 1 \in 1 .. n
        /\ \A s \in SUBSET (1 .. k + 1) : k + 1 \notin s => s \in SUBSET (1 .. k)
        /\ \A s \in SUBSET (1 .. k + 1) : s \ {k + 1} \in SUBSET (1 .. k)
    OBVIOUS
  <2>3. h \in [SUBSET (1 .. k + 1) -> V]
    <3> SUFFICES ASSUME NEW s \in SUBSET (1 .. k + 1)
                 PROVE  (IF k + 1 \in s THEN F[<<g[s \ {k + 1}], k + 1>>] ELSE g[s]) \in V
      OBVIOUS
    <3>1. CASE k + 1 \in s
      <4>1. g[s \ {k + 1}] \in V
        BY <2>1, <2>2
      <4> QED
        BY <4>1, <2>2, <3>1
    <3>2. CASE k + 1 \notin s
      BY <2>1, <2>2, <3>2
    <3> QED
      BY <3>1, <3>2
  <2>4. ASSUME NEW s \in SUBSET (1 .. k + 1)
        PROVE  h[s] = IF s = {} THEN base ELSE F[<<h[s \ {Max(s)}], Max(s)>>]
    <3>1. CASE k + 1 \in s
      <4>1. Max(s) = k + 1
        <5>1. \A y \in s : y \in Int /\ k + 1 >= y
          OBVIOUS
        <5>2. \A y \in s : (\A z \in s : y >= z) => y = k + 1
          BY <3>1, <5>1
        <5> QED
          BY <3>1, <5>1, <5>2 DEF Max
      <4>2. h[s \ {k + 1}] = g[s \ {k + 1}]
        BY <2>2
      <4> QED
        BY <3>1, <4>1, <4>2
    <3>2. CASE k + 1 \notin s
      <4>1. s \in SUBSET (1 .. k) /\ s \ {Max(s)} \in SUBSET (1 .. k)
        BY <2>2, <3>2
      <4>2. h[s] = g[s] /\ h[s \ {Max(s)}] = g[s \ {Max(s)}]
        BY <2>2, <3>2, <4>1
      <4> QED
        BY <2>1, <4>1, <4>2
    <3> QED
      BY <3>1, <3>2
  <2>5. Table(h, k + 1)
    BY <2>3, <2>4
  <2> HIDE DEF Table, h
  <2> QED
    BY <2>5
<1>3. n \in T
  <2>1. Nat \subseteq T
    <3> HIDE DEF T
    <3> QED
      BY <1>1, <1>2, Induction
  <2> QED
    BY <2>1
<1>4. PICK g : Table(g, n)
  <2> HIDE DEF Table
  <2> QED
    BY <1>3
<1> QED
  BY <1>4 DEF Table, IsTable

\* Positions have a largest one.
LEMMA LargestPosition ==
  ASSUME NEW n \in Nat, NEW s \in SUBSET (1 .. n), s # {}
  PROVE  Max(s) \in s /\ \A z \in s : z <= Max(s)
<1> DEFINE U == { n - y : y \in s }
<1>1. U \in SUBSET Nat /\ U # {}
  <2>1. \A y \in s : n - y \in Nat
    OBVIOUS
  <2> QED
    BY <2>1
<1>2. PICK u \in U : \A w \in U : u <= w
  BY <1>1, LeastNatural
<1>3. PICK y \in s : u = n - y
  OBVIOUS
<1>4. \A z \in s : z \in Int /\ n - z \in U /\ y \in Int
  OBVIOUS
<1>5. \A z \in s : y >= z
  <2> SUFFICES ASSUME NEW z \in s PROVE y >= z
    OBVIOUS
  <2>1. n - y <= n - z
    BY <1>2, <1>3, <1>4
  <2> QED
    BY <2>1, <1>4
<1>6. Max(s) \in s /\ \A z \in s : Max(s) >= z
  BY <1>5 DEF Max
<1> QED
  BY <1>4, <1>6

\* What a table holds for the positions up to k.
LEMMA FirstPositions ==
  ASSUME NEW k \in Nat
  PROVE  /\ 1 .. k + 1 # {} /\ Max(1 .. k + 1) = k + 1 /\ (1 .. k + 1) \ {k + 1} = 1 .. k
         /\ 1 .. 0 = {}
<1> DEFINE s == 1 .. k + 1
<1>1. k + 1 \in s /\ \A y \in s : y \in Int /\ k + 1 >= y
  OBVIOUS
<1>2. \A y \in s : (\A z \in s : y >= z) => y = k + 1
  BY <1>1
<1>3. Max(s) = k + 1
  BY <1>1, <1>2 DEF Max
<1> QED
  BY <1>1, <1>3

\* The values a fold runs through.
IsRun(t, V, base, n, F) ==
  /\ t \in [0 .. n -> V] /\ t[0] = base
  /\ \A k \in Nat : k + 1 <= n => t[k + 1] = F[<<t[k], k + 1>>]

\* What the function behind FoldLeft holds for the first positions is a run.
LEMMA FoldRun ==
  ASSUME NEW V, NEW base \in V, NEW n \in Nat, NEW F \in [V \X (1 .. n) -> V], NEW G,
         G[{}] = base,
         \A s \in SUBSET (1 .. n) :
           (s # {} /\ G[s \ {Max(s)}] \in V) => G[s] = F[<<G[s \ {Max(s)}], Max(s)>>]
  PROVE  IsRun([k \in 0 .. n |-> G[1 .. k]], V, base, n, F)
<1> DEFINE t == [k \in 0 .. n |-> G[1 .. k]]
           T == { k \in Nat : k <= n => t[k] \in V }
<1>1. \A k \in 0 .. n : t[k] = G[1 .. k]
  OBVIOUS
<1>2. t[0] = base
  <2>1. 1 .. 0 = {} /\ 0 \in 0 .. n
    OBVIOUS
  <2> QED
    BY <1>1, <2>1
<1>3. ASSUME NEW k \in Nat, k + 1 <= n, t[k] \in V
      PROVE  t[k + 1] = F[<<t[k], k + 1>>] /\ t[k + 1] \in V
  <2> DEFINE s == 1 .. k + 1
  <2>1. k \in 0 .. n /\ k + 1 \in 0 .. n /\ k + 1 \in 1 .. n
    BY <1>3
  <2>2. s # {} /\ Max(s) = k + 1 /\ s \ {k + 1} = 1 .. k
    BY FirstPositions
  <2>3. s \in SUBSET (1 .. n)
    BY <2>1
  <2> HIDE DEF s, t
  <2>4. G[s] = F[<<G[1 .. k], k + 1>>]
    BY <1>1, <1>3, <2>1, <2>2, <2>3
  <2>5. t[k + 1] = F[<<t[k], k + 1>>]
    BY <1>1, <2>1, <2>4 DEF s
  <2> QED
    BY <1>3, <2>1, <2>5
<1> HIDE DEF t
<1>4. 0 \in T
  BY <1>2
<1>5. ASSUME NEW k \in Nat, k \in T PROVE k + 1 \in T
  <2> SUFFICES ASSUME k + 1 <= n PROVE t[k + 1] \in V
    OBVIOUS
  <2>1. t[k] \in V
    BY <1>5
  <2> QED
    BY <1>3, <2>1
<1>6. Nat \subseteq T
  <2> HIDE DEF T
  <2> QED
    BY <1>4, <1>5, Induction
<1>7. \A k \in Nat : k <= n => t[k] \in V
  BY <1>6
<1>8. \A k \in Nat : k + 1 <= n => t[k + 1] = F[<<t[k], k + 1>>]
  BY <1>3, <1>7
<1>9. t \in [0 .. n -> V]
  <2>1. \A k \in 0 .. n : G[1 .. k] \in V
    BY <1>1, <1>7
  <2> QED
    BY <2>1 DEF t
<1> QED
  BY <1>2, <1>8, <1>9 DEF IsRun, t

Agree(F, H, V, n) == \A v \in V, k \in 1 .. n : H[<<v, k>>] = F[<<v, k>>]

GoesOn(t, u, V, n, m, H) == t[n] \in V /\ u[m] = H[<<t[n], m>>]

\* Runs over the same values agree; one that is longer by one makes one step more.
LEMMA RunAppend ==
  ASSUME NEW V, NEW base, NEW n \in Nat, NEW m, m = n + 1, NEW F, NEW H, NEW t, NEW u,
         IsRun(t, V, base, n, F), IsRun(u, V, base, m, H),
         Agree(F, H, V, n)
  PROVE  GoesOn(t, u, V, n, m, H)
<1> DEFINE T == { k \in Nat : k <= n => t[k] = u[k] /\ t[k] \in V }
<1>1. \A k \in 0 .. n : t[k] \in V
  BY DEF IsRun
<1>2. 0 \in T
  BY <1>1 DEF IsRun
<1>3. ASSUME NEW k \in Nat, k \in T PROVE k + 1 \in T
  <2> SUFFICES ASSUME k + 1 <= n PROVE t[k + 1] = u[k + 1] /\ t[k + 1] \in V
    OBVIOUS
  <2>1. t[k] = u[k] /\ t[k] \in V /\ k + 1 \in 1 .. n /\ k + 1 \in 0 .. n /\ k + 1 <= n + 1
    BY <1>3
  <2>2. t[k + 1] = F[<<t[k], k + 1>>]
    BY DEF IsRun
  <2>3. u[k + 1] = H[<<u[k], k + 1>>]
    BY <2>1 DEF IsRun
  <2> QED
    BY <1>1, <2>1, <2>2, <2>3 DEF Agree
<1>4. Nat \subseteq T
  <2> HIDE DEF T
  <2> QED
    BY <1>2, <1>3, Induction
<1>5. t[n] = u[n] /\ t[n] \in V
  BY <1>4
<1>6. u[n + 1] = H[<<u[n], n + 1>>]
  BY DEF IsRun
<1> QED
  BY <1>5, <1>6 DEF GoesOn

-----------------------------------------------------------------------------
(* The fold of restore.                                                    *)

RecordsOf(C, O) ==
  [type : {"input", "assistant", "result"}, calls : Seq(C), ok : BOOLEAN, from : O]

\* What restore knows after some records.
Replays(C) ==
  [verdict : {"continue", "corrupt", "blocked"}, pending : Seq(C),
   answers : Nat]

\* A step of restore, by the type of the record.
Refused(acc, v) ==
  [verdict |-> v, pending |-> acc.pending, answers |-> acc.answers]

\* What one record does to a replay, by its type.
LEMMA RestoreCases ==
  ASSUME NEW C, NEW acc \in Replays(C), NEW rec, NEW rows, NEW b,
         b = RestoreRecord(acc, rec, rows)
  PROVE  /\ acc.verdict # "continue" => b = acc
         /\ acc.verdict = "continue" =>
              /\ rec.type = "input" =>
                   b = IF acc.pending # <<>> \/ (rec = Prompt /\ acc.answers > 0)
                       THEN Refused(acc, "corrupt") ELSE acc
              /\ rec.type = "assistant" =>
                   b = IF acc.pending # <<>> THEN Refused(acc, "corrupt")
                       ELSE [verdict |-> "continue", pending |-> rec.calls,
                             answers |-> acc.answers + 1]
              /\ rec.type = "result" =>
                   b = IF acc.pending = <<>> \/ Head(acc.pending) # CallOf(rec)
                       THEN Refused(acc, "corrupt")
                       ELSE IF rec.ok # (rows[CallOf(rec)] = "succeeded")
                       THEN Refused(acc, IF rec.ok THEN "blocked" ELSE "corrupt")
                       ELSE [verdict |-> "continue",
                             pending |-> Tail(acc.pending), answers |-> acc.answers]
<1> USE DEF Refused, Replays
<1>1. \A v : [acc EXCEPT !.verdict = v] = Refused(acc, v)
  OBVIOUS
<1>2. \A p : acc.verdict = "continue" =>
        [acc EXCEPT !.pending = p] =
          [verdict |-> "continue", pending |-> p, answers |-> acc.answers]
  OBVIOUS
<1>3. \A p : acc.verdict = "continue" =>
        [acc EXCEPT !.pending = p, !.answers = @ + 1] =
          [verdict |-> "continue", pending |-> p, answers |-> acc.answers + 1]
  <2> TAKE p
  <2>1. [acc EXCEPT !.pending = p, !.answers = @ + 1] =
          [[acc EXCEPT !.pending = p] EXCEPT !.answers = acc.answers + 1]
    OBVIOUS
  <2>2. \A k : [[verdict |-> "continue", pending |-> p, answers |-> acc.answers]
                 EXCEPT !.answers = k] =
               [verdict |-> "continue", pending |-> p, answers |-> k]
    OBVIOUS
  <2> QED
    BY <2>1, <2>2, <1>2
<1>4. acc.verdict # "continue" => b = acc
  BY DEF RestoreRecord
<1>5. CASE acc.verdict = "continue" /\ rec.type = "input"
  BY <1>1, <1>5 DEF RestoreRecord
<1>6. CASE acc.verdict = "continue" /\ rec.type = "assistant"
  BY <1>1, <1>3, <1>6 DEF RestoreRecord
<1>7. CASE acc.verdict = "continue" /\ rec.type = "result"
  BY <1>1, <1>2, <1>7 DEF RestoreRecord
<1> QED
  BY <1>4, <1>5, <1>6, <1>7

\* One record takes a replay to a replay.
LEMMA RestoreRecordType ==
  ASSUME NEW C, NEW O, NEW acc \in Replays(C), NEW rec \in RecordsOf(C, O), NEW rows
  PROVE  RestoreRecord(acc, rec, rows) \in Replays(C)
<1> DEFINE b == RestoreRecord(acc, rec, rows)
<1>1. acc.pending # <<>> => Tail(acc.pending) \in Seq(C)
  BY DEF Replays
<1>2. rec.calls \in Seq(C)
  BY DEF RecordsOf
<1>3. /\ acc.verdict \in {"continue", "corrupt", "blocked"} 
      /\ acc.pending \in Seq(C) /\ acc.answers \in Nat
  BY DEF Replays
<1>4. rec.type \in {"input", "assistant", "result"}
  BY DEF RecordsOf
<1>5. \A v \in {"corrupt", "blocked"} : Refused(acc, v) \in Replays(C)
  BY <1>3 DEF Refused, Replays
<1> HIDE DEF b
<1>6. CASE acc.verdict # "continue"
  BY <1>6, RestoreCases DEF b
<1>7. CASE acc.verdict = "continue" /\ rec.type = "input"
  BY <1>5, <1>7, RestoreCases DEF b
<1>8. CASE acc.verdict = "continue" /\ rec.type = "assistant"
  <2>1. [verdict |-> "continue", pending |-> rec.calls,
         answers |-> acc.answers + 1] \in Replays(C)
    BY <1>2, <1>3 DEF Replays
  <2> QED
    BY <1>5, <1>8, <2>1, RestoreCases DEF b
<1>9. CASE acc.verdict = "continue" /\ rec.type = "result"
  <2>1. acc.pending # <<>> =>
          [verdict |-> "continue", pending |-> Tail(acc.pending),
           answers |-> acc.answers] \in Replays(C)
    BY <1>1, <1>3 DEF Replays
  <2> QED
    BY <1>5, <1>9, <2>1, RestoreCases DEF b
<1> QED
  BY <1>4, <1>6, <1>7, <1>8, <1>9 DEF b

ReplaySteps(C, q, rows) ==
  [p \in Replays(C) \X (1 .. Len(q)) |-> RestoreRecord(p[1], q[p[2]], rows)]

\* The steps of a replay are typed, as the fold lemmas want them.
LEMMA ReplayStepType ==
  ASSUME NEW C, NEW O, NEW q \in Seq(RecordsOf(C, O)), NEW rows
  PROVE  /\ RestoreStart \in Replays(C)
         /\ \A p \in Replays(C) \X (1 .. Len(q)) :
              RestoreRecord(p[1], q[p[2]], rows) \in Replays(C)
<1>1. \A i \in 1 .. Len(q) : q[i] \in RecordsOf(C, O)
  OBVIOUS
<1>2. RestoreStart \in Replays(C)
  BY EmptySeq DEF RestoreStart, Replays
<1>3. ASSUME NEW p \in Replays(C) \X (1 .. Len(q))
      PROVE  RestoreRecord(p[1], q[p[2]], rows) \in Replays(C)
  <2>1. p[1] \in Replays(C) /\ q[p[2]] \in RecordsOf(C, O)
    BY <1>1
  <2> QED
    BY <2>1, RestoreRecordType
<1> QED
  BY <1>2, <1>3

\* A replay goes through its records one by one.
LEMMA ReplayRun ==
  ASSUME NEW C, NEW O, NEW q \in Seq(RecordsOf(C, O)), NEW rows
  PROVE  \E t : /\ IsRun(t, Replays(C), RestoreStart, Len(q), ReplaySteps(C, q, rows))
                /\ Replayed(q, rows) = t[Len(q)]
<1> DEFINE n == Len(q)
           V == Replays(C)
           F == ReplaySteps(C, q, rows)
           Equation(g) == g = [s \in SUBSET (1 .. n) |->
             IF s = {} THEN RestoreStart ELSE RestoreRecord(g[s \ {Max(s)}], q[Max(s)], rows)]
           G == CHOOSE g : Equation(g)
<1>1. n \in Nat /\ DOMAIN q = 1 .. n /\ \A i \in 1 .. n : q[i] \in RecordsOf(C, O)
  OBVIOUS
<1>2. F \in [V \X (1 .. n) -> V] /\ RestoreStart \in V
  BY ReplayStepType DEF ReplaySteps
<1>3. \A v \in V, k \in 1 .. n : F[<<v, k>>] = RestoreRecord(v, q[k], rows)
  BY DEF ReplaySteps
<1>4. Replayed(q, rows) = G[1 .. n]
  BY <1>1 DEF Replayed, FoldLeft, MapThenFoldSet
<1> HIDE DEF V, F, n
<1>5. PICK g : IsTable(g, V, RestoreStart, n, F)
  <2> HIDE DEF Equation
  <2> QED
    BY <1>1, <1>2, FoldTable
<1>6. Equation(g)
  <2> SUFFICES ASSUME NEW s \in SUBSET (1 .. n), s # {}
               PROVE  g[s] = RestoreRecord(g[s \ {Max(s)}], q[Max(s)], rows)
    BY <1>5 DEF IsTable
  <2>1. Max(s) \in 1 .. n
    BY <1>1, LargestPosition
  <2> QED
    BY <1>3, <1>5, <2>1 DEF IsTable
<1>7. Equation(G)
  <2> HIDE DEF Equation
  <2> QED
    BY <1>6
<1> HIDE DEF G
<1>8. G[{}] = RestoreStart
  BY <1>7
<1>9. \A s \in SUBSET (1 .. n) :
        (s # {} /\ G[s \ {Max(s)}] \in V) => G[s] = F[<<G[s \ {Max(s)}], Max(s)>>]
  <2> SUFFICES ASSUME NEW s \in SUBSET (1 .. n), s # {}, G[s \ {Max(s)}] \in V
               PROVE  G[s] = F[<<G[s \ {Max(s)}], Max(s)>>]
    OBVIOUS
  <2>1. Max(s) \in 1 .. n
    BY <1>1, LargestPosition
  <2> QED
    BY <1>3, <1>7, <2>1
<1> HIDE DEF Equation
<1> DEFINE t == [k \in 0 .. n |-> G[1 .. k]]
<1>10. IsRun(t, V, RestoreStart, n, F)
  <2>1. n \in Nat /\ RestoreStart \in V /\ F \in [V \X (1 .. n) -> V]
    BY <1>1, <1>2
  <2> QED
    BY <2>1, <1>8, <1>9, FoldRun
<1>11. t[n] = G[1 .. n]
  BY <1>1
<1> HIDE DEF t
<1> QED
  BY <1>4, <1>10, <1>11 DEF n, V, F

IsReplay(t, C, q, rows) ==
  /\ t \in [0 .. Len(q) -> Replays(C)]
  /\ Replayed(q, rows) = t[Len(q)]
  /\ t[0] = RestoreStart
  /\ \A k \in Nat : k + 1 <= Len(q) => t[k + 1] = RestoreRecord(t[k], q[k + 1], rows)

\* The same, with the steps expanded.
LEMMA ReplayTable ==
  ASSUME NEW C, NEW O, NEW q \in Seq(RecordsOf(C, O)), NEW rows
  PROVE  \E t : IsReplay(t, C, q, rows)
<1>1. PICK t : /\ IsRun(t, Replays(C), RestoreStart, Len(q), ReplaySteps(C, q, rows))
               /\ Replayed(q, rows) = t[Len(q)]
  BY ReplayRun
<1>2. ASSUME NEW k \in Nat, k + 1 <= Len(q)
      PROVE  t[k + 1] = RestoreRecord(t[k], q[k + 1], rows)
  <2>1. k \in 0 .. Len(q) /\ k + 1 \in 1 .. Len(q)
    BY <1>2
  <2>2. t[k] \in Replays(C) /\ t[k + 1] = ReplaySteps(C, q, rows)[<<t[k], k + 1>>]
    BY <1>1, <1>2, <2>1 DEF IsRun
  <2> QED
    BY <2>1, <2>2 DEF ReplaySteps
<1>3. IsReplay(t, C, q, rows)
  BY <1>1, <1>2 DEF IsRun, IsReplay
<1> QED
  BY <1>3

\* Nothing is replayed of an empty log.
LEMMA ReplayEmpty ==
  ASSUME NEW C, NEW O, NEW rows
  PROVE  Replayed(<<>>, rows) = RestoreStart
<1> DEFINE q == <<>>
<1>1. q \in Seq(RecordsOf(C, O)) /\ Len(q) = 0
  OBVIOUS
<1> HIDE DEF q
<1>2. PICK t : IsRun(t, Replays(C), RestoreStart, Len(q), ReplaySteps(C, q, rows)) /\ Replayed(q, rows) = t[Len(q)]
  BY <1>1, ReplayRun
<1> QED
  BY <1>1, <1>2 DEF q, IsRun

\* A record more is a step more.
LEMMA ReplayAppend ==
  ASSUME NEW C, NEW O, NEW q \in Seq(RecordsOf(C, O)), NEW rec \in RecordsOf(C, O), NEW rows
  PROVE  /\ Replayed(q, rows) \in Replays(C)
         /\ Replayed(Append(q, rec), rows) =
              RestoreRecord(Replayed(q, rows), rec, rows)
<1> DEFINE n == Len(q)
           p == Append(q, rec)
           V == Replays(C)
<1>1. /\ n \in Nat /\ p \in Seq(RecordsOf(C, O)) /\ Len(p) = n + 1 /\ p[n + 1] = rec
      /\ \A k \in 1 .. n : p[k] = q[k]
  OBVIOUS
<1>2. PICK t : IsRun(t, V, RestoreStart, n, ReplaySteps(C, q, rows)) /\ Replayed(q, rows) = t[n]
  BY ReplayRun
<1>3. PICK u : IsRun(u, V, RestoreStart, n + 1, ReplaySteps(C, p, rows)) /\ Replayed(p, rows) = u[n + 1]
  <2> HIDE DEF p
  <2>1. \E u : IsRun(u, V, RestoreStart, Len(p), ReplaySteps(C, p, rows)) /\ Replayed(p, rows) = u[Len(p)]
    BY <1>1, ReplayRun
  <2> QED
    BY <1>1, <2>1
<1> HIDE DEF p
<1>4. /\ \A v \in V, k \in 1 .. n : ReplaySteps(C, p, rows)[<<v, k>>] = ReplaySteps(C, q, rows)[<<v, k>>]
      /\ \A v \in V : ReplaySteps(C, p, rows)[<<v, n + 1>>] = RestoreRecord(v, rec, rows)
  <2>1. /\ \A k \in 1 .. n : k \in 1 .. Len(p) /\ k \in 1 .. Len(q)
        /\ n + 1 \in 1 .. Len(p)
    BY <1>1
  <2> HIDE DEF n, V
  <2>2. /\ \A v \in V, k \in 1 .. Len(p) : ReplaySteps(C, p, rows)[<<v, k>>] = RestoreRecord(v, p[k], rows)
        /\ \A v \in V, k \in 1 .. Len(q) : ReplaySteps(C, q, rows)[<<v, k>>] = RestoreRecord(v, q[k], rows)
    BY DEF ReplaySteps, V
  <2> QED
    BY <1>1, <2>1, <2>2
<1> HIDE DEF V, n
<1>5. t[n] \in V /\ u[n + 1] = ReplaySteps(C, p, rows)[<<t[n], n + 1>>]
  <2>1. PICK f, h, b, m, W : f = ReplaySteps(C, q, rows) /\ h = ReplaySteps(C, p, rows)
                            /\ b = RestoreStart /\ m = n + 1 /\ W = V
    OBVIOUS
  <2>2. PICK k \in Nat : k = n
    BY <1>1
  <2>3. /\ m = k + 1 /\ IsRun(t, W, b, k, f) /\ IsRun(u, W, b, m, h)
        /\ Agree(f, h, W, k)
    BY <1>2, <1>3, <1>4, <2>1, <2>2 DEF Agree
  <2>4. GoesOn(t, u, W, k, m, h)
    BY <2>3, RunAppend
  <2> QED
    BY <2>1, <2>2, <2>4 DEF GoesOn
<1> QED
  BY <1>2, <1>3, <1>4, <1>5 DEF p, V

\* What a replay computes.
LEMMA ReplayType ==
  ASSUME NEW C, NEW O, NEW q \in Seq(RecordsOf(C, O)), NEW rows
  PROVE  Replayed(q, rows) \in Replays(C)
<1>1. PICK t : /\ IsRun(t, Replays(C), RestoreStart, Len(q), ReplaySteps(C, q, rows))
               /\ Replayed(q, rows) = t[Len(q)]
  BY ReplayRun
<1>2. Len(q) \in 0 .. Len(q)
  OBVIOUS
<1> QED
  BY <1>1, <1>2 DEF IsRun

\* A sequence that is not empty ends in an element.
LEMMA SplitLast ==
  ASSUME NEW S, NEW q \in Seq(S), NEW k \in Nat, Len(q) = k + 1
  PROVE  /\ SubSeq(q, 1, k) \in Seq(S) /\ Len(SubSeq(q, 1, k)) = k /\ q[k + 1] \in S
         /\ q = Append(SubSeq(q, 1, k), q[k + 1])
<1> DEFINE p == SubSeq(q, 1, k)
           x == q[k + 1]
<1>1. p \in Seq(S) /\ x \in S /\ Len(p) = k
  OBVIOUS
<1>2. q = Append(p, x)
  OBVIOUS
<1> QED
  BY <1>1, <1>2

-----------------------------------------------------------------------------
(* The assistant that asked for what stands at a position.                 *)

\* Asker(q, i) is the last batch of calls before position i, or 0.
LEMMA AskerIs ==
  ASSUME NEW C, NEW O, NEW q \in Seq(RecordsOf(C, O)), NEW i \in 1 .. Len(q) + 1
  PROVE  /\ Asker(q, i) \in 0 .. i - 1
         /\ Asker(q, i) # 0 => q[Asker(q, i)].type = "assistant"
         /\ \A j \in 1 .. i - 1 : q[j].type = "assistant" => j <= Asker(q, i)
<1> DEFINE before == { j \in 1 .. i - 1 : q[j].type = "assistant" }
<1>1. CASE before = {}
  BY <1>1 DEF Asker
<1>2. CASE before # {}
  <2>1. i - 1 \in Nat /\ before \in SUBSET (1 .. i - 1)
    OBVIOUS
  <2>2. Max(before) \in before /\ \A k \in before : k <= Max(before)
    <3> HIDE DEF before
    <3> QED
      BY <1>2, <2>1, LargestPosition
  <2>3. Asker(q, i) \in before /\ \A k \in before : k <= Asker(q, i)
    BY <1>2, <2>2 DEF Asker
  <2> QED
    BY <2>1, <2>3
<1> QED
  BY <1>1, <1>2

\* There is only one such position.
LEMMA AskerUnique ==
  ASSUME NEW C, NEW O, NEW q \in Seq(RecordsOf(C, O)), NEW i \in 1 .. Len(q) + 1,
         NEW m \in 0 .. i - 1, m # 0 => q[m].type = "assistant",
         \A j \in 1 .. i - 1 : q[j].type = "assistant" => j <= m
  PROVE  Asker(q, i) = m
<1>1. /\ Asker(q, i) \in 0 .. i - 1
      /\ Asker(q, i) # 0 => q[Asker(q, i)].type = "assistant"
      /\ \A j \in 1 .. i - 1 : q[j].type = "assistant" => j <= Asker(q, i)
  BY AskerIs
<1> QED
  BY <1>1

\* A record more leaves the askers before it alone.
LEMMA AskerAppend ==
  ASSUME NEW C, NEW O, NEW q \in Seq(RecordsOf(C, O)), NEW rec \in RecordsOf(C, O)
  PROVE  /\ \A i \in 1 .. Len(q) + 1 : Asker(Append(q, rec), i) = Asker(q, i)
         /\ Asker(Append(q, rec), Len(q) + 2) =
              IF rec.type = "assistant" THEN Len(q) + 1 ELSE Asker(q, Len(q) + 1)
<1> DEFINE p == Append(q, rec)
<1>1. /\ p \in Seq(RecordsOf(C, O)) /\ Len(q) \in Nat /\ Len(p) = Len(q) + 1
      /\ p[Len(q) + 1] = rec /\ \A i \in 1 .. Len(q) : p[i] = q[i]
  OBVIOUS
<1> HIDE DEF p
<1>2. ASSUME NEW i \in 1 .. Len(q) + 1 PROVE Asker(p, i) = Asker(q, i)
  <2> DEFINE m == Asker(q, i)
  <2>1. /\ m \in 0 .. i - 1
        /\ m # 0 => q[m].type = "assistant"
        /\ \A j \in 1 .. i - 1 : q[j].type = "assistant" => j <= m
    BY AskerIs
  <2> HIDE DEF m
  <2>2. /\ i \in 1 .. Len(p) + 1
        /\ m # 0 => p[m].type = "assistant"
        /\ \A j \in 1 .. i - 1 : p[j].type = "assistant" => j <= m
    BY <1>1, <2>1
  <2>3. Asker(p, i) = m
    BY <1>1, <2>1, <2>2, AskerUnique
  <2> QED
    BY <2>3 DEF m
<1>3. CASE rec.type = "assistant"
  <2>1. Len(q) + 2 \in 1 .. Len(p) + 1 /\ Len(q) + 1 \in 0 .. (Len(q) + 2) - 1
    BY <1>1
  <2>2. Asker(p, Len(q) + 2) = Len(q) + 1
    BY <1>1, <1>3, <2>1, AskerUnique
  <2> QED
    BY <1>2, <1>3, <2>2 DEF p
<1>4. CASE rec.type # "assistant"
  <2> DEFINE m == Asker(q, Len(q) + 1)
  <2>1. Len(q) + 1 \in 1 .. Len(q) + 1 /\ Len(q) + 2 \in 1 .. Len(p) + 1
    BY <1>1
  <2>2. /\ m \in 0 .. Len(q)
        /\ m # 0 => q[m].type = "assistant"
        /\ \A j \in 1 .. Len(q) : q[j].type = "assistant" => j <= m
    <3>1. (Len(q) + 1) - 1 = Len(q)
      BY <1>1
    <3> QED
      BY <2>1, <3>1, AskerIs
  <2> HIDE DEF m
  <2>3. /\ m \in 0 .. (Len(q) + 2) - 1
        /\ m # 0 => p[m].type = "assistant"
        /\ \A j \in 1 .. (Len(q) + 2) - 1 : p[j].type = "assistant" => j <= m
    BY <1>1, <1>4, <2>2
  <2>4. Asker(p, Len(q) + 2) = m
    BY <1>1, <2>1, <2>3, AskerUnique
  <2> QED
    BY <1>2, <1>4, <2>4 DEF p, m
<1> QED
  BY <1>3, <1>4

-----------------------------------------------------------------------------
(* What makes a log sound, record by record.                               *)

ResultsOf(q) == { i \in 1 .. Len(q) : q[i].type = "result" }

AnswersOf(q) == { i \in 1 .. Len(q) : q[i].type = "assistant" }

Agreeing(rec, rows) == rec.ok = (rows[CallOf(rec)] = "succeeded")

SoundLog(q, rows) ==
  InOrder(q) /\ PromptFirst(q) /\ \A i \in ResultsOf(q) : Agreeing(q[i], rows)

LastAsker(q) == Asker(q, Len(q) + 1)

\* A record may follow the log: a result the calls, another one the results.
MayFollow(q, rec) ==
  LET asker == LastAsker(q)
      n == IF asker = 0 THEN 0 ELSE Len(q[asker].calls)
  IN IF rec.type = "result"
     THEN asker # 0 /\ (Len(q) + 1) - asker <= n /\ CallOf(rec) = q[asker].calls[(Len(q) + 1) - asker]
     ELSE (Len(q) + 1) - asker > n \/ asker = 0

\* A log in order stays so exactly when the next record may follow it.
LEMMA InOrderAppend ==
  ASSUME NEW C, NEW O, NEW q \in Seq(RecordsOf(C, O)), NEW rec \in RecordsOf(C, O)
  PROVE  InOrder(Append(q, rec)) <=> InOrder(q) /\ MayFollow(q, rec)
<1> DEFINE p == Append(q, rec)
           n == Len(q)
<1>1. /\ p \in Seq(RecordsOf(C, O)) /\ n \in Nat /\ Len(p) = n + 1
      /\ p[n + 1] = rec /\ \A i \in 1 .. n : p[i] = q[i]
  OBVIOUS
<1>2. \A i \in 1 .. n + 1 : Asker(p, i) = Asker(q, i) /\ Asker(q, i) \in 0 .. i - 1
  BY AskerAppend, AskerIs
<1> HIDE DEF p
<1> DEFINE Placed(r, i) ==
      LET asker == Asker(q, i)
          k == IF asker = 0 THEN 0 ELSE Len(q[asker].calls)
      IN IF r.type = "result"
         THEN asker # 0 /\ i - asker <= k /\ CallOf(r) = q[asker].calls[i - asker]
         ELSE i - asker > k \/ asker = 0
<1>3. InOrder(q) <=> \A i \in 1 .. n : Placed(q[i], i)
  BY DEF InOrder
<1>4. \A i \in 1 .. n + 1 : Asker(q, i) # 0 => Asker(q, i) \in 1 .. n
  BY <1>1, <1>2
<1>5. InOrder(p) <=> \A i \in 1 .. n + 1 : Placed(p[i], i)
  BY <1>1, <1>2, <1>4 DEF InOrder
<1>6. MayFollow(q, rec) <=> Placed(rec, n + 1)
  BY DEF MayFollow, LastAsker
<1> HIDE DEF Placed, n
<1>7. (\A i \in 1 .. n + 1 : Placed(p[i], i)) <=> (\A i \in 1 .. n : Placed(q[i], i)) /\ Placed(rec, n + 1)
  BY <1>1
<1> QED
  BY <1>3, <1>5, <1>6, <1>7 DEF p

\* What the next record has to satisfy for a sound log to stay sound.
LEMMA SoundAppend ==
  ASSUME NEW C, NEW O, NEW q \in Seq(RecordsOf(C, O)), NEW rec \in RecordsOf(C, O), NEW rows
  PROVE  SoundLog(Append(q, rec), rows) <=>
           /\ SoundLog(q, rows) /\ MayFollow(q, rec)
           /\ rec = Prompt => \A i \in 1 .. Len(q) : q[i].type = "input"
           /\ rec.type = "result" => Agreeing(rec, rows)
<1> DEFINE p == Append(q, rec)
           n == Len(q)
<1>1. /\ p \in Seq(RecordsOf(C, O)) /\ n \in Nat /\ Len(p) = n + 1
      /\ p[n + 1] = rec /\ \A i \in 1 .. n : p[i] = q[i]
  OBVIOUS
<1>2. InOrder(p) <=> InOrder(q) /\ MayFollow(q, rec)
  BY InOrderAppend
<1> HIDE DEF p, n
<1>3. PromptFirst(p) <=>
        PromptFirst(q) /\ (rec = Prompt => \A i \in 1 .. n : q[i].type = "input")
  <2>1. PromptFirst(q) <=> \A i, j \in 1 .. n : (q[j] = Prompt /\ i < j) => q[i].type = "input"
    BY DEF PromptFirst, n
  <2>2. PromptFirst(p) <=> \A i, j \in 1 .. n + 1 : (p[j] = Prompt /\ i < j) => p[i].type = "input"
    BY <1>1 DEF PromptFirst
  <2> QED
    BY <1>1, <2>1, <2>2
<1>4. (\A i \in ResultsOf(p) : Agreeing(p[i], rows)) <=>
        (\A i \in ResultsOf(q) : Agreeing(q[i], rows)) /\ (rec.type = "result" => Agreeing(rec, rows))
  <2>1. ResultsOf(q) = { i \in 1 .. n : q[i].type = "result" }
    BY DEF ResultsOf, n
  <2>2. ResultsOf(p) = { i \in 1 .. n + 1 : p[i].type = "result" }
    BY <1>1 DEF ResultsOf
  <2> QED
    BY <1>1, <2>1, <2>2
<1> QED
  BY <1>2, <1>3, <1>4 DEF SoundLog, p, n

\* Only an answer of the model counts as one.
LEMMA AnswersAppend ==
  ASSUME NEW C, NEW O, NEW q \in Seq(RecordsOf(C, O)), NEW rec \in RecordsOf(C, O)
  PROVE  /\ Cardinality(AnswersOf(q)) \in Nat
         /\ Cardinality(AnswersOf(q)) = 0 <=> \A i \in 1 .. Len(q) : q[i].type # "assistant"
         /\ Cardinality(AnswersOf(Append(q, rec))) =
              Cardinality(AnswersOf(q)) + (IF rec.type = "assistant" THEN 1 ELSE 0)
<1> DEFINE p == Append(q, rec)
           n == Len(q)
<1>1. /\ p \in Seq(RecordsOf(C, O)) /\ n \in Nat /\ Len(p) = n + 1
      /\ p[n + 1] = rec /\ \A i \in 1 .. n : p[i] = q[i]
  OBVIOUS
<1>2. IsFiniteSet(AnswersOf(q)) /\ n + 1 \notin AnswersOf(q)
  <2>1. IsFiniteSet(1 .. n)
    BY <1>1, FS_Interval
  <2>2. AnswersOf(q) \subseteq 1 .. n
    BY DEF AnswersOf
  <2>3. n + 1 \notin 1 .. n
    BY <1>1
  <2> QED
    BY <2>1, <2>2, <2>3, FS_Subset
<1> HIDE DEF p, n
<1>3. AnswersOf(p) = AnswersOf(q) \cup (IF rec.type = "assistant" THEN {n + 1} ELSE {})
  <2>1. AnswersOf(q) = { i \in 1 .. n : q[i].type = "assistant" }
    BY DEF AnswersOf, n
  <2>2. AnswersOf(p) = { i \in 1 .. n + 1 : p[i].type = "assistant" }
    BY <1>1 DEF AnswersOf
  <2> QED
    BY <1>1, <2>1, <2>2
<1>4. Cardinality(AnswersOf(q)) \in Nat
  BY <1>2, FS_CardinalityType
<1>5. Cardinality(AnswersOf(q)) = 0 <=> AnswersOf(q) = {}
  BY <1>2, FS_EmptySet
<1>6. Cardinality(AnswersOf(q) \cup {n + 1}) = Cardinality(AnswersOf(q)) + 1
  BY <1>2, FS_AddElement
<1>7. AnswersOf(q) \cup {} = AnswersOf(q)
  OBVIOUS
<1>8. AnswersOf(q) = {} <=> \A i \in 1 .. n : q[i].type # "assistant"
  BY DEF AnswersOf, n
<1>9. Cardinality(AnswersOf(p)) = Cardinality(AnswersOf(q)) + (IF rec.type = "assistant" THEN 1 ELSE 0)
  <2>1. CASE rec.type = "assistant"
    BY <1>3, <1>6, <2>1
  <2>2. CASE rec.type # "assistant"
    BY <1>3, <1>4, <1>7, <2>2
  <2> QED
    BY <2>1, <2>2
<1> QED
  BY <1>4, <1>5, <1>8, <1>9 DEF p, n

-----------------------------------------------------------------------------
(* What a sound log leaves pending.                                        *)

\* How many calls of the last batch have their result.
Given(q) ==
  LET last == LastAsker(q) IN
  IF Len(q) - last <= Len(q[last].calls) THEN Len(q) - last ELSE Len(q[last].calls)

PendingOf(q) ==
  LET last == LastAsker(q) IN
  IF last = 0 THEN <<>> ELSE SubSeq(q[last].calls, Given(q) + 1, Len(q[last].calls))

\* The rest of a sequence.
LEMMA RestOf ==
  ASSUME NEW S, NEW s \in Seq(S), NEW k \in Nat, k <= Len(s)
  PROVE  LET rest == SubSeq(s, k + 1, Len(s)) IN
         /\ rest \in Seq(S)
         /\ rest = <<>> <=> k = Len(s)
         /\ k < Len(s) => Head(rest) = s[k + 1] /\ Tail(rest) = SubSeq(s, k + 2, Len(s))
<1> DEFINE rest == SubSeq(s, k + 1, Len(s))
<1>1. rest \in Seq(S) /\ Len(rest) = Len(s) - k /\ Len(s) \in Nat
  OBVIOUS
<1>2. \A i \in 1 .. Len(s) - k : rest[i] = s[k + i]
  OBVIOUS
<1>3. rest = <<>> <=> k = Len(s)
  <2>1. \A r \in Seq(S) : r = <<>> <=> Len(r) = 0
    OBVIOUS
  <2> HIDE DEF rest
  <2> QED
    BY <1>1, <2>1
<1>4. ASSUME k < Len(s) PROVE Head(rest) = s[k + 1] /\ Tail(rest) = SubSeq(s, k + 2, Len(s))
  <2> DEFINE more == SubSeq(s, k + 2, Len(s))
  <2>1. more \in Seq(S) /\ Len(more) = Len(s) - k - 1 /\ \A i \in 1 .. Len(more) : more[i] = s[k + 1 + i]
    BY <1>4
  <2> HIDE DEF rest, more
  <2>2. rest # <<>>
    BY <1>3, <1>4
  <2>3. /\ Tail(rest) \in Seq(S) /\ Len(Tail(rest)) = Len(rest) - 1
        /\ \A i \in 1 .. Len(Tail(rest)) : Tail(rest)[i] = rest[i + 1]
    BY <1>1, <2>2
  <2>4. ASSUME NEW i \in 1 .. Len(Tail(rest))
        PROVE  Tail(rest)[i] = more[i]
    <3>1. i \in 1 .. Len(more) /\ i + 1 \in 1 .. Len(s) - k /\ k + (i + 1) = k + 1 + i
      BY <1>1, <2>1, <2>3
    <3>2. Tail(rest)[i] = rest[i + 1]
      BY <2>3
    <3>3. rest[i + 1] = s[k + (i + 1)]
      BY <1>2, <3>1
    <3>4. more[i] = s[k + 1 + i]
      BY <2>1, <3>1
    <3> QED
      BY <3>1, <3>2, <3>3, <3>4
  <2>5. Tail(rest) = more
    <3>1. Len(Tail(rest)) = Len(more)
      BY <1>1, <2>1, <2>3
    <3> QED
      BY <2>1, <2>3, <2>4, <3>1, SeqEqual
  <2>6. Head(rest) = rest[1] /\ 1 \in 1 .. Len(s) - k
    BY <1>1, <1>4, <2>2
  <2> QED
    BY <1>2, <2>5, <2>6 DEF more
<1> QED
  BY <1>1, <1>3, <1>4

\* A record is accepted exactly if it may follow; what is pending then.
LEMMA PendingAppend ==
  ASSUME NEW C, NEW O, NEW q \in Seq(RecordsOf(C, O)), NEW rec \in RecordsOf(C, O)
  PROVE  /\ PendingOf(q) \in Seq(C)
         /\ rec.type # "result" => (MayFollow(q, rec) <=> PendingOf(q) = <<>>)
         /\ rec.type = "result" =>
              (MayFollow(q, rec) <=> PendingOf(q) # <<>> /\ Head(PendingOf(q)) = CallOf(rec))
         /\ MayFollow(q, rec) =>
              PendingOf(Append(q, rec)) = IF rec.type = "assistant" THEN rec.calls
                                          ELSE IF rec.type = "result" THEN Tail(PendingOf(q))
                                          ELSE PendingOf(q)
<1> DEFINE p == Append(q, rec)
           n == Len(q)
           last == LastAsker(q)
           calls == q[last].calls
           k == Given(q)
<1>1. /\ p \in Seq(RecordsOf(C, O)) /\ n \in Nat /\ Len(p) = n + 1
      /\ p[n + 1] = rec /\ \A i \in 1 .. n : p[i] = q[i] /\ q[i] \in RecordsOf(C, O)
  OBVIOUS
<1>2. last \in 0 .. n
  <2>1. n + 1 \in 1 .. n + 1 /\ (n + 1) - 1 = n
    BY <1>1
  <2> QED
    BY <2>1, AskerIs DEF LastAsker
<1>3. LastAsker(p) = IF rec.type = "assistant" THEN n + 1 ELSE last
  <2>1. (n + 1) + 1 = n + 2
    BY <1>1
  <2> QED
    BY <1>1, <2>1, AskerAppend DEF LastAsker
<1>4. rec.calls \in Seq(C) /\ rec.type \in {"input", "assistant", "result"}
  BY DEF RecordsOf
<1> HIDE DEF p, n, last, calls
<1>5. CASE last = 0
  <2>1. PendingOf(q) = <<>>
    BY <1>5 DEF PendingOf, last
  <2>2. rec.type = "result" => ~ MayFollow(q, rec)
    BY <1>5 DEF MayFollow, last
  <2>3. rec.type # "result" => MayFollow(q, rec)
    BY <1>5 DEF MayFollow, last
  <2>4. rec.type = "input" => PendingOf(p) = <<>>
    BY <1>3, <1>5 DEF PendingOf
  <2>5. rec.type = "assistant" => PendingOf(p) = rec.calls
    <3> SUFFICES ASSUME rec.type = "assistant" PROVE PendingOf(p) = rec.calls
      OBVIOUS
    <3>1. LastAsker(p) = n + 1 /\ n + 1 # 0 /\ p[n + 1].calls = rec.calls
      BY <1>1, <1>3
    <3>2. Given(p) = 0
      BY <1>1, <1>4, <3>1 DEF Given
    <3> QED
      BY <1>1, <1>4, <3>1, <3>2 DEF PendingOf
  <2> QED
    BY <1>4, <2>1, <2>2, <2>3, <2>4, <2>5 DEF p
<1>6. CASE last # 0
  <2>1. last \in 1 .. n /\ calls \in Seq(C) /\ Len(calls) \in Nat /\ p[last].calls = calls
    BY <1>1, <1>2, <1>6 DEF calls, RecordsOf
  <2>2. k = (IF n - last <= Len(calls) THEN n - last ELSE Len(calls)) /\ k \in Nat /\ k <= Len(calls)
    <3>1. k = IF n - last <= Len(calls) THEN n - last ELSE Len(calls)
      BY DEF Given, last, n, calls
    <3> QED
      BY <1>1, <2>1, <3>1
  <2>3. PendingOf(q) = SubSeq(calls, k + 1, Len(calls))
    BY <1>6 DEF PendingOf, last, calls
  <2> HIDE DEF k
  <2>4. /\ PendingOf(q) \in Seq(C)
        /\ PendingOf(q) = <<>> <=> k = Len(calls)
        /\ k < Len(calls) => /\ Head(PendingOf(q)) = calls[k + 1]
                             /\ Tail(PendingOf(q)) = SubSeq(calls, k + 2, Len(calls))
    <3>1. calls \in Seq(C) /\ k \in Nat /\ k <= Len(calls)
      BY <2>1, <2>2
    <3> DEFINE rest == SubSeq(calls, k + 1, Len(calls))
    <3>2. /\ rest \in Seq(C)
          /\ rest = <<>> <=> k = Len(calls)
          /\ k < Len(calls) => Head(rest) = calls[k + 1] /\ Tail(rest) = SubSeq(calls, k + 2, Len(calls))
      BY <3>1, RestOf
    <3> HIDE DEF rest
    <3>3. PendingOf(q) = rest
      BY <2>3 DEF rest
    <3> QED
      BY <3>2, <3>3
  <2>5. MayFollow(q, rec) <=> IF rec.type = "result"
          THEN (n + 1) - last <= Len(calls) /\ CallOf(rec) = calls[(n + 1) - last]
          ELSE (n + 1) - last > Len(calls)
    BY <1>6 DEF MayFollow, last, n, calls
  <2>6. k = Len(calls) <=> (n + 1) - last > Len(calls)
    BY <1>1, <2>1, <2>2
  <2>7. rec.type # "result" => (MayFollow(q, rec) <=> PendingOf(q) = <<>>)
    BY <2>4, <2>5, <2>6
  <2>8. (n + 1) - last <= Len(calls) <=> k < Len(calls)
    BY <1>1, <2>1, <2>2
  <2>9. k < Len(calls) => k + 1 = (n + 1) - last
    BY <1>1, <2>1, <2>2
  <2>10. rec.type = "result" =>
           (MayFollow(q, rec) <=> PendingOf(q) # <<>> /\ Head(PendingOf(q)) = CallOf(rec))
    <3>1. PendingOf(q) # <<>> <=> k < Len(calls)
      BY <2>2, <2>1, <2>4
    <3> QED
      BY <2>4, <2>5, <2>8, <2>9, <3>1
  <2>11. ASSUME rec.type = "assistant" PROVE PendingOf(p) = rec.calls
    <3>1. LastAsker(p) = n + 1 /\ n + 1 # 0 /\ p[n + 1].calls = rec.calls
      BY <1>1, <1>3, <2>11
    <3>2. Given(p) = 0
      BY <1>1, <1>4, <3>1 DEF Given
    <3> QED
      BY <1>1, <1>4, <3>1, <3>2 DEF PendingOf
  <2>12. ASSUME rec.type # "assistant" PROVE
           /\ Given(p) = IF (n + 1) - last <= Len(calls) THEN (n + 1) - last ELSE Len(calls)
           /\ PendingOf(p) = SubSeq(calls, Given(p) + 1, Len(calls))
    <3>1. LastAsker(p) = last
      BY <1>3, <2>12
    <3> QED
      BY <1>1, <1>6, <2>1, <3>1 DEF Given, PendingOf
  <2>13. ASSUME rec.type = "input", MayFollow(q, rec) PROVE PendingOf(p) = PendingOf(q)
    <3>1. Given(p) = k /\ rec.type # "assistant"
      <4>1. (n + 1) - last > Len(calls)
        BY <2>5, <2>13
      <4>2. k = Len(calls) /\ ~ ((n + 1) - last <= Len(calls))
        BY <1>1, <2>1, <2>6, <4>1
      <4> QED
        BY <2>12, <2>13, <4>2
    <3> QED
      BY <2>3, <2>12, <3>1
  <2>14. ASSUME rec.type = "result", MayFollow(q, rec) PROVE PendingOf(p) = Tail(PendingOf(q))
    <3>1. Given(p) = k + 1 /\ rec.type # "assistant" /\ k < Len(calls)
      BY <1>1, <2>1, <2>2, <2>5, <2>8, <2>9, <2>12, <2>14
    <3>2. (k + 1) + 1 = k + 2
      BY <2>2
    <3> QED
      BY <2>4, <2>12, <3>1, <3>2
  <2> QED
    BY <1>4, <2>4, <2>7, <2>10, <2>11, <2>13, <2>14 DEF p
<1> QED
  BY <1>5, <1>6

-----------------------------------------------------------------------------
(* Restore is exact.                                                       *)

\* What a replay of a log is, said without a fold.
Exact(q, rows) ==
  LET acc == Replayed(q, rows) IN
  /\ acc.verdict = "continue" <=> SoundLog(q, rows)
  /\ SoundLog(q, rows) => /\ acc.answers = Cardinality(AnswersOf(q))
                          /\ acc.pending = PendingOf(q)

\* Without an answer there is no result in a sound log.
LEMMA InputsOnly ==
  ASSUME NEW C, NEW O, NEW q \in Seq(RecordsOf(C, O)), InOrder(q)
  PROVE  Cardinality(AnswersOf(q)) = 0 <=> \A i \in 1 .. Len(q) : q[i].type = "input"
<1>1. Cardinality(AnswersOf(q)) = 0 <=> \A i \in 1 .. Len(q) : q[i].type # "assistant"
  <2>1. CASE Len(q) = 0
    <3>1. AnswersOf(q) = {}
      BY <2>1 DEF AnswersOf
    <3> QED
      BY <2>1, <3>1, FS_EmptySet
  <2>2. CASE Len(q) # 0
    <3>1. q[1] \in RecordsOf(C, O)
      BY <2>2
    <3> QED
      BY <3>1, AnswersAppend
  <2> QED
    BY <2>1, <2>2
<1>2. ASSUME \A i \in 1 .. Len(q) : q[i].type # "assistant", NEW i \in 1 .. Len(q)
      PROVE  q[i].type = "input"
  <2>1. i \in 1 .. Len(q) + 1
    OBVIOUS
  <2>2. Asker(q, i) \in 0 .. i - 1 /\ (Asker(q, i) # 0 => q[Asker(q, i)].type = "assistant")
    BY <2>1, AskerIs
  <2>3. Asker(q, i) = 0
    BY <1>2, <2>2
  <2>4. q[i].type # "result"
    BY <2>3 DEF InOrder
  <2>5. q[i] \in RecordsOf(C, O)
    OBVIOUS
  <2> QED
    BY <1>2, <2>4, <2>5 DEF RecordsOf
<1> QED
  BY <1>1, <1>2

\* If restore is exact on a log, it is so on the log with one more record.
LEMMA ExactAppend ==
  ASSUME NEW C, NEW O, NEW q \in Seq(RecordsOf(C, O)), NEW rec \in RecordsOf(C, O), NEW rows,
         Exact(q, rows)
  PROVE  Exact(Append(q, rec), rows)
<1> DEFINE acc == Replayed(q, rows)
           p == Append(q, rec)
           now == Replayed(p, rows)
           n == Cardinality(AnswersOf(q))
           pending == PendingOf(q)
           follows == MayFollow(q, rec)
           sound == SoundLog(q, rows)
           agrees == Agreeing(rec, rows)
<1>1. acc \in Replays(C) /\ now = RestoreRecord(acc, rec, rows)
  BY ReplayType, ReplayAppend
<1>2. /\ acc.verdict # "continue" => now = acc
      /\ acc.verdict = "continue" =>
           /\ rec.type = "input" =>
                now = IF acc.pending # <<>> \/ (rec = Prompt /\ acc.answers > 0)
                      THEN Refused(acc, "corrupt") ELSE acc
           /\ rec.type = "assistant" =>
                now = IF acc.pending # <<>> THEN Refused(acc, "corrupt")
                      ELSE [verdict |-> "continue", pending |-> rec.calls,
                            answers |-> acc.answers + 1]
           /\ rec.type = "result" =>
                now = IF acc.pending = <<>> \/ Head(acc.pending) # CallOf(rec)
                      THEN Refused(acc, "corrupt")
                      ELSE IF ~ agrees
                      THEN Refused(acc, IF rec.ok THEN "blocked" ELSE "corrupt")
                      ELSE [verdict |-> "continue",
                            pending |-> Tail(acc.pending), answers |-> acc.answers]
  <2> HIDE DEF acc, now
  <2> QED
    BY <1>1, RestoreCases DEF Agreeing
<1>3. acc.verdict = "continue" <=> sound
  BY DEF Exact
<1>4. sound => acc.answers = n /\ acc.pending = pending
  BY DEF Exact
<1>5. SoundLog(p, rows) <=>
        /\ sound /\ follows
        /\ rec = Prompt => \A i \in 1 .. Len(q) : q[i].type = "input"
        /\ rec.type = "result" => agrees
  BY SoundAppend
<1>6. n \in Nat /\ Cardinality(AnswersOf(p)) = n + (IF rec.type = "assistant" THEN 1 ELSE 0)
  BY AnswersAppend
<1>7. /\ rec.type # "result" => (follows <=> pending = <<>>)
      /\ rec.type = "result" => (follows <=> pending # <<>> /\ Head(pending) = CallOf(rec))
      /\ follows => PendingOf(p) = IF rec.type = "assistant" THEN rec.calls
                                   ELSE IF rec.type = "result" THEN Tail(pending) ELSE pending
  BY PendingAppend
<1>8. sound => (n > 0 <=> ~ \A i \in 1 .. Len(q) : q[i].type = "input")
  <2>1. sound => InOrder(q)
    BY DEF SoundLog
  <2>2. sound => (n = 0 <=> \A i \in 1 .. Len(q) : q[i].type = "input")
    BY <2>1, InputsOnly
  <2> QED
    BY <1>6, <2>2
<1>9. rec.type \in {"input", "assistant", "result"} /\ (rec = Prompt => rec.type = "input")
  BY DEF RecordsOf, Prompt
<1>10. \A v \in {"corrupt", "blocked"} : Refused(acc, v).verdict # "continue"
  BY DEF Refused
<1> HIDE DEF p, acc, now, n, pending, follows, sound, agrees
<1>11. CASE ~ sound
  BY <1>2, <1>3, <1>5, <1>11 DEF Exact, now, p
<1>12. CASE sound /\ rec.type = "input"
  <2>1. CASE pending # <<>> \/ (rec = Prompt /\ n > 0)
    <3>1. now.verdict # "continue"
      BY <1>2, <1>3, <1>4, <1>10, <1>12, <2>1
    <3>2. ~ SoundLog(p, rows)
      BY <1>5, <1>7, <1>8, <1>12, <2>1
    <3> QED
      BY <3>1, <3>2 DEF Exact, now, p
  <2>2. CASE ~ (pending # <<>> \/ (rec = Prompt /\ n > 0))
    <3>1. now = acc
      BY <1>2, <1>3, <1>4, <1>12, <2>2
    <3>2. SoundLog(p, rows) /\ PendingOf(p) = pending /\ Cardinality(AnswersOf(p)) = n
      BY <1>5, <1>6, <1>7, <1>8, <1>12, <2>2
    <3> QED
      BY <1>3, <1>4, <1>12, <3>1, <3>2 DEF Exact, now, p
  <2> QED
    BY <2>1, <2>2
<1>13. CASE sound /\ rec.type = "assistant"
  <2>1. CASE pending # <<>>
    <3>1. now.verdict # "continue"
      BY <1>2, <1>3, <1>4, <1>10, <1>13, <2>1
    <3>2. ~ SoundLog(p, rows)
      BY <1>5, <1>7, <1>13, <2>1
    <3> QED
      BY <3>1, <3>2 DEF Exact, now, p
  <2>2. CASE pending = <<>>
    <3>1. now = [verdict |-> "continue", pending |-> rec.calls, answers |-> n + 1]
      BY <1>2, <1>3, <1>4, <1>13, <2>2
    <3>2. SoundLog(p, rows) /\ PendingOf(p) = rec.calls /\ Cardinality(AnswersOf(p)) = n + 1
      BY <1>5, <1>6, <1>7, <1>9, <1>13, <2>2
    <3> QED
      BY <3>1, <3>2 DEF Exact, now, p
  <2> QED
    BY <2>1, <2>2
<1>14. CASE sound /\ rec.type = "result"
  <2>1. CASE pending = <<>> \/ Head(pending) # CallOf(rec) \/ ~ agrees
    <3>1. now.verdict # "continue"
      BY <1>2, <1>3, <1>4, <1>10, <1>14, <2>1
    <3>2. ~ SoundLog(p, rows)
      BY <1>5, <1>7, <1>14, <2>1
    <3> QED
      BY <3>1, <3>2 DEF Exact, now, p
  <2>2. CASE ~ (pending = <<>> \/ Head(pending) # CallOf(rec) \/ ~ agrees)
    <3>1. now = [verdict |-> "continue", pending |-> Tail(pending), answers |-> n]
      BY <1>2, <1>3, <1>4, <1>14, <2>2
    <3>2. SoundLog(p, rows) /\ PendingOf(p) = Tail(pending) /\ Cardinality(AnswersOf(p)) = n
      BY <1>5, <1>6, <1>7, <1>9, <1>14, <2>2
    <3> QED
      BY <3>1, <3>2 DEF Exact, now, p
  <2> QED
    BY <2>1, <2>2
<1> QED
  BY <1>9, <1>11, <1>12, <1>13, <1>14 DEF p

\* Every replay is exact.
LEMMA ReplayExact ==
  ASSUME NEW C, NEW O, NEW q \in Seq(RecordsOf(C, O)), NEW rows
  PROVE  Exact(q, rows)
<1> DEFINE T == { k \in Nat : \A p \in Seq(RecordsOf(C, O)) : Len(p) = k => Exact(p, rows) }
<1>1. 0 \in T
  <2> SUFFICES ASSUME NEW p \in Seq(RecordsOf(C, O)), Len(p) = 0 PROVE Exact(p, rows)
    OBVIOUS
  <2>1. p = <<>>
    OBVIOUS
  <2>2. Replayed(p, rows) = RestoreStart
    BY <2>1, ReplayEmpty
  <2>3. SoundLog(p, rows) /\ AnswersOf(p) = {}
    BY DEF SoundLog, InOrder, PromptFirst, ResultsOf, AnswersOf
  <2>4. LastAsker(p) = 0
    <3>1. 1 \in 1 .. Len(p) + 1
      OBVIOUS
    <3>2. Asker(p, 1) \in 0 .. 1 - 1
      BY <3>1, AskerIs
    <3> QED
      BY <3>2 DEF LastAsker
  <2>5. PendingOf(p) = <<>>
    BY <2>4 DEF PendingOf
  <2>6. Cardinality(AnswersOf(p)) = 0
    BY <2>3, FS_EmptySet
  <2> QED
    BY <2>2, <2>3, <2>5, <2>6 DEF Exact, RestoreStart
<1>2. ASSUME NEW k \in Nat, k \in T PROVE k + 1 \in T
  <2> SUFFICES ASSUME NEW p \in Seq(RecordsOf(C, O)), Len(p) = k + 1 PROVE Exact(p, rows)
    OBVIOUS
  <2> DEFINE f == SubSeq(p, 1, k)
             x == p[k + 1]
  <2>1. f \in Seq(RecordsOf(C, O)) /\ Len(f) = k /\ x \in RecordsOf(C, O) /\ p = Append(f, x)
    BY SplitLast
  <2> HIDE DEF f, x
  <2>2. Exact(f, rows)
    BY <1>2, <2>1
  <2> QED
    BY <2>1, <2>2, ExactAppend
<1>3. Nat \subseteq T
  <2> HIDE DEF T
  <2> QED
    BY <1>1, <1>2, Induction
<1> QED
  BY <1>3

\* The results after the last assistant are as many as restore counts.
LEMMA GivenIsCounted ==
  ASSUME NEW C, NEW O, NEW q \in Seq(RecordsOf(C, O)), InOrder(q), LastAsker(q) # 0
  PROVE  Cardinality({ i \in ResultsOf(q) : i > LastAsker(q) }) = Given(q)
<1> DEFINE last == LastAsker(q)
           n == Len(q)
           calls == q[last].calls
           m == IF n - last <= Len(calls) THEN n - last ELSE Len(calls)
           given == { i \in ResultsOf(q) : i > last }
<1>1. n + 1 \in 1 .. n + 1 /\ (n + 1) - 1 = n /\ n \in Nat
  OBVIOUS
<1>2. last \in 1 .. n /\ q[last].type = "assistant" /\ \A j \in 1 .. n : q[j].type = "assistant" => j <= last
  BY <1>1, AskerIs DEF LastAsker
<1>3. q[last] \in RecordsOf(C, O) /\ \A i \in 1 .. n : q[i] \in RecordsOf(C, O)
  BY <1>2
<1>4. calls \in Seq(C) /\ Len(calls) \in Nat
  BY <1>3 DEF RecordsOf
<1> HIDE DEF last, calls
<1>5. ASSUME NEW i \in last + 1 .. n PROVE q[i].type = "result" <=> i - last <= Len(calls)
  <2>1. i \in 1 .. n /\ i \in 1 .. n + 1 /\ last \in 0 .. i - 1 /\ last # 0
    BY <1>1, <1>2
  <2>2. \A j \in 1 .. i - 1 : q[j].type = "assistant" => j <= last
    BY <1>1, <1>2, <2>1
  <2>3. Asker(q, i) = last
    BY <1>2, <2>1, <2>2, AskerUnique
  <2>4. IF q[i].type = "result" THEN i - last <= Len(calls) ELSE i - last > Len(calls)
    BY <2>1, <2>3 DEF InOrder, calls
  <2>5. i - last \in Nat
    BY <1>1, <1>2
  <2> QED
    BY <1>4, <2>4, <2>5
<1>6. given = last + 1 .. last + m
  <2>1. \A i \in given : i \in last + 1 .. n /\ q[i].type = "result"
    BY <1>1, <1>2 DEF ResultsOf
  <2>2. \A i \in given : i \in last + 1 .. last + m
    BY <1>1, <1>2, <1>4, <1>5, <2>1
  <2>3. \A i \in last + 1 .. last + m : i \in last + 1 .. n /\ i - last <= Len(calls) /\ i \in 1 .. n /\ i > last
    BY <1>1, <1>2, <1>4
  <2>4. \A i \in last + 1 .. last + m : i \in given
    BY <1>5, <2>3 DEF ResultsOf
  <2> QED
    BY <2>2, <2>4
<1>7. Cardinality(last + 1 .. last + m) = m
  <2>1. last + 1 \in Int /\ last + m \in Int /\ m \in Nat
    BY <1>1, <1>2, <1>4
  <2>2. Cardinality(last + 1 .. last + m) =
          IF last + 1 > last + m THEN 0 ELSE (last + m) - (last + 1) + 1
    BY <2>1, FS_Interval
  <2> HIDE DEF m
  <2> QED
    BY <1>2, <2>1, <2>2
<1>8. Given(q) = m
  BY DEF Given, last, calls
<1> QED
  BY <1>6, <1>7, <1>8 DEF last

\* Whatever records a log holds and however its tools ended, restore accepts it
\* exactly if it is in order and agrees with the rows, and says what is pending.
THEOREM RestoreExact ==
  ASSUME NEW C, NEW O, NEW q \in Seq(RecordsOf(C, O)), NEW rows
  PROVE  RestoreIsExact(q, rows)
<1> DEFINE acc == Replayed(q, rows)
           end == Restored(q, rows)
           last == Asker(q, Len(q) + 1)
           results == { i \in 1 .. Len(q) : q[i].type = "result" }
           told == Cardinality({ i \in results : i > last })
           sound == /\ InOrder(q) /\ PromptFirst(q)
                    /\ \A i \in results : q[i].ok = (rows[CallOf(q[i])] = "succeeded")
           ends == q # <<>> /\ q[Len(q)] = Final
<1>1. acc \in Replays(C)
  BY ReplayType
<1>2. sound <=> SoundLog(q, rows)
  BY DEF SoundLog, ResultsOf, Agreeing
<1>3. /\ acc.verdict = "continue" <=> sound
      /\ sound => /\ acc.answers = Cardinality({ i \in 1 .. Len(q) : q[i].type = "assistant" })
                  /\ acc.pending = PendingOf(q)
  BY <1>2, ReplayExact DEF Exact, AnswersOf
<1>4. sound /\ last # 0 => acc.pending = SubSeq(q[last].calls, told + 1, Len(q[last].calls))
  <2>1. sound /\ last # 0 => told = Given(q)
    BY GivenIsCounted DEF LastAsker, ResultsOf
  <2> QED
    BY <1>3, <2>1 DEF PendingOf, LastAsker
<1> HIDE DEF sound, told, last
<1>5. end = IF acc.verdict = "continue" /\ ends
            THEN [verdict |-> "completed", pending |-> acc.pending, answers |-> acc.answers]
            ELSE acc
  <2>1. [acc EXCEPT !.verdict = "completed"] =
          [verdict |-> "completed", pending |-> acc.pending, answers |-> acc.answers]
    BY <1>1 DEF Replays
  <2> QED
    BY <2>1 DEF Restored, Last
<1>6. acc.verdict # "completed"
  BY <1>1 DEF Replays
<1> HIDE DEF acc, end, ends
<1>7. /\ end.verdict \in {"continue", "completed"} <=> sound
      /\ end.verdict = "completed" <=> sound /\ ends
      /\ end.pending = acc.pending /\ end.answers = acc.answers
  <2>1. CASE acc.verdict = "continue" /\ ends
    BY <1>3, <1>5, <2>1
  <2>2. CASE ~ (acc.verdict = "continue" /\ ends)
    <3>1. end = acc
      BY <1>5, <2>2
    <3>2. acc.verdict \in {"continue", "corrupt", "blocked"}
      BY <1>1 DEF Replays
    <3> QED
      BY <1>3, <2>2, <3>1, <3>2
  <2> QED
    BY <2>1, <2>2
<1> QED
  BY <1>3, <1>4, <1>7 DEF RestoreIsExact, sound, told, last, end, ends

\* What a growing log holds.
LogHolds == RecordsOf(LogCalls, { rec.from : rec \in LogRecords })

LogOK == records \in Seq(LogHolds)

\* A growing log stays typed.
LEMMA LogTyped == LogSpec => []LogOK
<1>1. LogRecords \subseteq LogHolds
  <2> SUFFICES ASSUME NEW rec \in LogRecords PROVE rec \in LogHolds
    OBVIOUS
  <2>1. rec \in [type : {"input", "assistant", "result"}, calls : Seq(LogCalls), ok : BOOLEAN,
                 from : {rec.from}]
    BY RecordLogAssumption
  <2>2. rec.from \in { r.from : r \in LogRecords }
    OBVIOUS
  <2> QED
    BY <2>1, <2>2 DEF RecordsOf, LogHolds
<1>2. LogInit => LogOK
  BY DEF LogInit, LogOK
<1>3. LogOK /\ [Grow]_logVars => LogOK'
  <2> SUFFICES ASSUME records \in Seq(LogHolds), [Grow]_logVars
               PROVE  records' \in Seq(LogHolds)
    BY DEF LogOK
  <2>1. CASE Grow
    <3>1. PICK rec \in LogRecords : records' = Append(records, rec)
      BY <2>1 DEF Grow
    <3> QED
      BY <1>1, <3>1
  <2>2. CASE UNCHANGED logVars
    BY <2>2 DEF logVars
  <2> QED
    BY <2>1, <2>2
<1> QED
  BY <1>2, <1>3, PTL DEF LogSpec

\* restore is exact on every log that grows record by record (RecordLog).
THEOREM RestoreAgreesAlways == LogSpec => []RestoreAgrees
<1>1. LogOK => RestoreAgrees
  BY RestoreExact DEF RestoreAgrees, LogOK, LogHolds
<1> QED
  BY <1>1, LogTyped, PTL

-----------------------------------------------------------------------------
(* Sequences without repetition.                                           *)

\* No element twice.
Distinct(s) == \A i, j \in 1 .. Len(s) : s[i] = s[j] => i = j

\* RemoveFirst takes out one occurrence and closes the gap.
LEMMA RemoveFirstIs ==
  ASSUME NEW C, NEW s \in Seq(C), NEW c, Contains(s, c)
  PROVE  \E k \in 1 .. Len(s) :
           /\ s[k] = c
           /\ RemoveFirst(s, c) \in Seq(C) /\ Len(RemoveFirst(s, c)) = Len(s) - 1
           /\ \A i \in 1 .. Len(s) - 1 :
                RemoveFirst(s, c)[i] = IF i < k THEN s[i] ELSE s[i + 1]
<1> DEFINE I == { i \in 1 .. Len(s) : s[i] = c }
           k == Min(I)
           r == SubSeq(s, 1, k - 1) \o SubSeq(s, k + 1, Len(s))
<1>1. I # {} /\ I \in SUBSET Nat
  BY DEF Contains
<1>2. PICK x \in I : \A y \in I : x <= y
  <2> HIDE DEF I
  <2> QED
    BY <1>1, LeastNatural
<1>3. k \in I
  <2>1. \E z \in I : \A y \in I : z <= y
    BY <1>2
  <2> QED
    BY <2>1 DEF Min
<1>4. k \in 1 .. Len(s) /\ s[k] = c
  BY <1>3
<1>5. RemoveFirst(s, c) = r
  BY <1>1 DEF RemoveFirst, RemoveAt, SelectInSeq, Contains
<1> HIDE DEF k
<1> DEFINE p == SubSeq(s, 1, k - 1)
           w == SubSeq(s, k + 1, Len(s))
<1>6. p \in Seq(C) /\ Len(p) = k - 1 /\ \A i \in 1 .. k - 1 : p[i] = s[i]
  BY <1>4
<1>7. w \in Seq(C) /\ Len(w) = Len(s) - k /\ \A i \in 1 .. Len(s) - k : w[i] = s[k + i]
  BY <1>4
<1>10. r = p \o w
  OBVIOUS
<1> HIDE DEF p, w, r
<1>8. r \in Seq(C) /\ Len(r) = Len(s) - 1
  BY <1>4, <1>6, <1>7, <1>10
<1>9. ASSUME NEW i \in 1 .. Len(s) - 1
      PROVE  r[i] = IF i < k THEN s[i] ELSE s[i + 1]
  <2>1. CASE i < k
    <3>1. i \in 1 .. k - 1
      BY <1>4, <2>1
    <3>2. r[i] = p[i]
      BY <1>6, <1>7, <1>10, <3>1
    <3> QED
      BY <1>6, <2>1, <3>1, <3>2
  <2>2. CASE ~ (i < k)
    <3>1. i - (k - 1) \in 1 .. Len(s) - k /\ k + (i - (k - 1)) = i + 1
      BY <1>4, <2>2
    <3>2. r[i] = w[i - (k - 1)]
      <4>1. i \in 1 .. Len(p) + Len(w) /\ i > Len(p)
        BY <1>4, <1>6, <1>7, <2>2
      <4> QED
        BY <1>6, <1>7, <1>10, <4>1
    <3> QED
      BY <1>7, <2>2, <3>1, <3>2
  <2> QED
    BY <2>1, <2>2
<1> QED
  BY <1>4, <1>5, <1>8, <1>9

\* The removal of an element that occurs once.
LEMMA RemoveFirstDistinct ==
  ASSUME NEW C, NEW s \in Seq(C), NEW c, Contains(s, c), Distinct(s)
  PROVE  LET r == RemoveFirst(s, c) IN
         r \in Seq(C) /\ Distinct(r) /\ ToSet(r) = ToSet(s) \ {c}
<1> DEFINE r == RemoveFirst(s, c)
<1>1. PICK k \in 1 .. Len(s) :
        /\ s[k] = c
        /\ r \in Seq(C) /\ Len(r) = Len(s) - 1
        /\ \A i \in 1 .. Len(s) - 1 : r[i] = IF i < k THEN s[i] ELSE s[i + 1]
  BY RemoveFirstIs
<1> HIDE DEF r
<1>2. Distinct(r)
  <2> SUFFICES ASSUME NEW i \in 1 .. Len(r), NEW j \in 1 .. Len(r), r[i] = r[j]
               PROVE  i = j
    BY DEF Distinct
  <2> DEFINE x == IF i < k THEN i ELSE i + 1
             y == IF j < k THEN j ELSE j + 1
  <2>1. x \in 1 .. Len(s) /\ y \in 1 .. Len(s) /\ (x = y => i = j)
    BY <1>1
  <2>2. r[i] = s[x] /\ r[j] = s[y]
    BY <1>1
  <2> QED
    BY <2>1, <2>2 DEF Distinct
<1>3. ASSUME NEW e PROVE e \in ToSet(r) <=> e \in ToSet(s) \ {c}
  <2>1. ASSUME e \in ToSet(r) PROVE e \in ToSet(s) \ {c}
    <3>1. PICK i \in 1 .. Len(r) : e = r[i]
      BY <1>1, <2>1 DEF ToSet
    <3> DEFINE x == IF i < k THEN i ELSE i + 1
    <3>2. x \in 1 .. Len(s) /\ x # k /\ e = s[x]
      BY <1>1, <3>1
    <3> HIDE DEF x
    <3> QED
      BY <1>1, <3>2 DEF ToSet, Distinct
  <2>2. ASSUME e \in ToSet(s) \ {c} PROVE e \in ToSet(r)
    <3>1. PICK x \in 1 .. Len(s) : e = s[x]
      BY <2>2 DEF ToSet
    <3> DEFINE i == IF x < k THEN x ELSE x - 1
    <3>2. x # k
      BY <1>1, <2>2, <3>1
    <3>3. i \in 1 .. Len(s) - 1 /\ x = IF i < k THEN i ELSE i + 1
      BY <1>1, <3>2
    <3> HIDE DEF i
    <3>4. r[i] = s[x]
      BY <1>1, <3>3
    <3>5. i \in DOMAIN r
      BY <1>1, <3>3
    <3> QED
      BY <3>1, <3>4, <3>5 DEF ToSet
  <2> QED
    BY <2>1, <2>2
<1> QED
  BY <1>1, <1>2, <1>3 DEF r

\* What is in a sequence with one element more.
LEMMA AppendSet ==
  ASSUME NEW C, NEW s \in Seq(C), NEW c
  PROVE  ToSet(Append(s, c)) = ToSet(s) \cup {c}
<1>1. /\ DOMAIN Append(s, c) = 1 .. Len(s) + 1 /\ DOMAIN s = 1 .. Len(s)
      /\ Append(s, c)[Len(s) + 1] = c /\ \A i \in 1 .. Len(s) : Append(s, c)[i] = s[i]
  OBVIOUS
<1>2. 1 .. Len(s) + 1 = (1 .. Len(s)) \cup {Len(s) + 1}
  OBVIOUS
<1> QED
  BY <1>1, <1>2 DEF ToSet

-----------------------------------------------------------------------------
(* The calls of a batch without repetition.                                *)

Unrepeat(acc, c) == IF Contains(acc, c) THEN acc ELSE Append(acc, c)

UnrepeatSteps(C, calls) ==
  [p \in Seq(C) \X (1 .. Len(calls)) |-> Unrepeat(p[1], calls[p[2]])]

\* Unrepeated is the last value of a run over the calls.
LEMMA UnrepeatedRun ==
  ASSUME NEW C, NEW calls \in Seq(C)
  PROVE  \E t : /\ IsRun(t, Seq(C), <<>>, Len(calls), UnrepeatSteps(C, calls))
                /\ Unrepeated(calls) = t[Len(calls)]
<1> DEFINE n == Len(calls)
           V == Seq(C)
           F == UnrepeatSteps(C, calls)
           Equation(g) == g = [s \in SUBSET (1 .. n) |->
             IF s = {} THEN <<>>
                       ELSE IF Contains(g[s \ {Max(s)}], calls[Max(s)]) THEN g[s \ {Max(s)}]
                            ELSE Append(g[s \ {Max(s)}], calls[Max(s)])]
           G == CHOOSE g : Equation(g)
<1>1. n \in Nat /\ DOMAIN calls = 1 .. n /\ \A i \in 1 .. n : calls[i] \in C
  OBVIOUS
<1>2. F \in [V \X (1 .. n) -> V] /\ <<>> \in V
  <2> SUFFICES ASSUME NEW p \in V \X (1 .. n) PROVE Unrepeat(p[1], calls[p[2]]) \in V
    BY DEF UnrepeatSteps
  <2>1. p[1] \in Seq(C) /\ calls[p[2]] \in C
    BY <1>1
  <2> QED
    BY <2>1 DEF Unrepeat
<1>3. \A v \in V, k \in 1 .. n :
        F[<<v, k>>] = IF Contains(v, calls[k]) THEN v ELSE Append(v, calls[k])
  BY DEF UnrepeatSteps, Unrepeat
<1>4. Unrepeated(calls) = G[1 .. n]
  BY <1>1 DEF Unrepeated, FoldLeft, MapThenFoldSet
<1> HIDE DEF V, F, n
<1>5. PICK g : IsTable(g, V, <<>>, n, F)
  <2> HIDE DEF Equation
  <2> QED
    BY <1>1, <1>2, FoldTable
<1>6. Equation(g)
  <2> SUFFICES ASSUME NEW s \in SUBSET (1 .. n), s # {}
               PROVE  g[s] = IF Contains(g[s \ {Max(s)}], calls[Max(s)]) THEN g[s \ {Max(s)}]
                             ELSE Append(g[s \ {Max(s)}], calls[Max(s)])
    BY <1>5 DEF IsTable
  <2>1. Max(s) \in 1 .. n
    BY <1>1, LargestPosition
  <2> QED
    BY <1>3, <1>5, <2>1 DEF IsTable
<1>7. Equation(G)
  <2> HIDE DEF Equation
  <2> QED
    BY <1>6
<1> HIDE DEF G
<1>8. G[{}] = <<>>
  BY <1>7
<1>9. ASSUME NEW s \in SUBSET (1 .. n), s # {}, G[s \ {Max(s)}] \in V
      PROVE  G[s] = F[<<G[s \ {Max(s)}], Max(s)>>]
  <2>1. Max(s) \in 1 .. n
    BY <1>1, <1>9, LargestPosition
  <2> QED
    BY <1>3, <1>7, <1>9, <2>1
<1> HIDE DEF Equation
<1> DEFINE t == [k \in 0 .. n |-> G[1 .. k]]
<1>10. IsRun(t, V, <<>>, n, F)
  <2>1. \A s \in SUBSET (1 .. n) :
          (s # {} /\ G[s \ {Max(s)}] \in V) => G[s] = F[<<G[s \ {Max(s)}], Max(s)>>]
    BY <1>9
  <2>2. n \in Nat /\ <<>> \in V /\ F \in [V \X (1 .. n) -> V]
    BY <1>1, <1>2
  <2> QED
    BY <2>1, <2>2, <1>8, FoldRun
<1>11. t[n] = G[1 .. n]
  BY <1>1
<1> HIDE DEF t
<1> QED
  BY <1>4, <1>10, <1>11 DEF n, V, F

\* Unrepeated keeps each call, and once.
LEMMA UnrepeatedIs ==
  ASSUME NEW C, NEW calls \in Seq(C)
  PROVE  LET r == Unrepeated(calls) IN
         r \in Seq(C) /\ Distinct(r) /\ ToSet(r) = ToSet(calls)
<1> DEFINE n == Len(calls)
<1>1. PICK t : IsRun(t, Seq(C), <<>>, n, UnrepeatSteps(C, calls)) /\ Unrepeated(calls) = t[n]
  BY UnrepeatedRun
<1>2. n \in Nat /\ \A k \in 1 .. n : calls[k] \in C
  OBVIOUS
<1>3. \A v \in Seq(C), k \in 1 .. n : UnrepeatSteps(C, calls)[<<v, k>>] = Unrepeat(v, calls[k])
  BY DEF UnrepeatSteps
<1> DEFINE Good(k) == Distinct(t[k]) /\ ToSet(t[k]) = { calls[i] : i \in 1 .. k }
           T == { k \in Nat : k <= n => Good(k) }
<1>4. \A k \in 0 .. n : t[k] \in Seq(C)
  BY <1>1 DEF IsRun
<1>5. 0 \in T
  <2>1. t[0] = <<>> /\ 1 .. 0 = {} /\ Len(<<>>) = 0 /\ ToSet(<<>>) = {}
    BY <1>1 DEF IsRun, ToSet
  <2> QED
    BY <2>1 DEF Distinct
<1>6. ASSUME NEW k \in Nat, k \in T PROVE k + 1 \in T
  <2> SUFFICES ASSUME k + 1 <= n PROVE Good(k + 1)
    OBVIOUS
  <2> DEFINE v == t[k]
             c == calls[k + 1]
  <2>1. Good(k) /\ v \in Seq(C) /\ c \in C /\ k + 1 \in 1 .. n
    BY <1>2, <1>4, <1>6
  <2>2. t[k + 1] = Unrepeat(v, c)
    BY <1>1, <1>3, <2>1 DEF IsRun
  <2>3. { calls[i] : i \in 1 .. k + 1 } = { calls[i] : i \in 1 .. k } \cup {c}
    <3>1. 1 .. k + 1 = (1 .. k) \cup {k + 1}
      OBVIOUS
    <3> QED
      BY <3>1
  <2>4. Contains(v, c) <=> c \in ToSet(v)
    BY <2>1 DEF Contains, ToSet
  <2> HIDE DEF v, c
  <2>5. CASE Contains(v, c)
    BY <2>1, <2>2, <2>3, <2>4, <2>5 DEF Unrepeat, v
  <2>6. CASE ~ Contains(v, c)
    <3>1. t[k + 1] = Append(v, c)
      BY <2>2, <2>6 DEF Unrepeat
    <3>2. ToSet(Append(v, c)) = ToSet(v) \cup {c}
      BY <2>1, AppendSet
    <3>3. Distinct(Append(v, c))
      <4>1. /\ Len(Append(v, c)) = Len(v) + 1 /\ Append(v, c)[Len(v) + 1] = c
            /\ \A i \in 1 .. Len(v) : Append(v, c)[i] = v[i] /\ v[i] # c
        BY <2>1, <2>6 DEF Contains
      <4>2. Distinct(v) /\ Len(v) \in Nat
        BY <2>1 DEF v
      <4>3. \A i \in 1 .. Len(v) + 1 : i \in 1 .. Len(v) \/ i = Len(v) + 1
        BY <4>2
      <4> QED
        BY <4>1, <4>2, <4>3 DEF Distinct
    <3> QED
      BY <2>1, <2>3, <3>1, <3>2, <3>3 DEF v
  <2> QED
    BY <2>5, <2>6
<1>7. Nat \subseteq T
  <2> HIDE DEF T
  <2> QED
    BY <1>5, <1>6, Induction
<1>8. Good(n) /\ t[n] \in Seq(C)
  <2>1. n \in T
    <3> HIDE DEF T
    <3> QED
      BY <1>2, <1>7
  <2> HIDE DEF Good
  <2> QED
    BY <1>2, <1>4, <2>1
<1>9. ToSet(calls) = { calls[i] : i \in 1 .. n }
  BY DEF ToSet
<1> QED
  BY <1>1, <1>8, <1>9

-----------------------------------------------------------------------------
(* The messages that are no results.                                       *)

OthersSteps(C, O, q) ==
  [p \in Seq(RecordsOf(C, O)) \X (1 .. Len(q)) |->
     IF q[p[2]].type = "result" THEN p[1] ELSE Append(p[1], q[p[2]])]

\* The steps of Others are typed.
LEMMA OthersStepType ==
  ASSUME NEW C, NEW O, NEW q \in Seq(RecordsOf(C, O))
  PROVE  /\ <<>> \in Seq(RecordsOf(C, O))
         /\ \A p \in Seq(RecordsOf(C, O)) \X (1 .. Len(q)) :
              (IF q[p[2]].type = "result" THEN p[1] ELSE Append(p[1], q[p[2]])) \in Seq(RecordsOf(C, O))
<1> DEFINE R == RecordsOf(C, O)
<1>1. \A i \in 1 .. Len(q) : q[i] \in R
  OBVIOUS
<1>2. \A v \in Seq(R), r \in R : Append(v, r) \in Seq(R)
  OBVIOUS
<1>3. <<>> \in Seq(R)
  OBVIOUS
<1> HIDE DEF R
<1>4. ASSUME NEW p \in Seq(R) \X (1 .. Len(q))
      PROVE  (IF q[p[2]].type = "result" THEN p[1] ELSE Append(p[1], q[p[2]])) \in Seq(R)
  <2>1. p[1] \in Seq(R) /\ q[p[2]] \in R
    BY <1>1
  <2> QED
    BY <1>2, <2>1
<1> QED
  BY <1>3, <1>4 DEF R

\* Others is the last value of a run over the messages.
LEMMA OthersRun ==
  ASSUME NEW C, NEW O, NEW q \in Seq(RecordsOf(C, O))
  PROVE  \E t : /\ IsRun(t, Seq(RecordsOf(C, O)), <<>>, Len(q), OthersSteps(C, O, q))
                /\ Others(q) = t[Len(q)]
<1> DEFINE n == Len(q)
           V == Seq(RecordsOf(C, O))
           F == OthersSteps(C, O, q)
           Equation(g) == g = [s \in SUBSET (1 .. n) |->
             IF s = {} THEN <<>> ELSE IF q[Max(s)].type = "result" THEN g[s \ {Max(s)}]
                            ELSE Append(g[s \ {Max(s)}], q[Max(s)])]
           G == CHOOSE g : Equation(g)
<1>1. n \in Nat /\ DOMAIN q = 1 .. n /\ \A i \in 1 .. n : q[i] \in RecordsOf(C, O)
  OBVIOUS
<1>2. F \in [V \X (1 .. n) -> V] /\ <<>> \in V
  BY OthersStepType DEF OthersSteps
<1>3. \A v \in V, k \in 1 .. n : F[<<v, k>>] = IF q[k].type = "result" THEN v ELSE Append(v, q[k])
  BY DEF OthersSteps
<1>4. Others(q) = G[1 .. n]
  BY <1>1 DEF Others, FoldLeft, MapThenFoldSet
<1> HIDE DEF V, F, n
<1>5. PICK g : IsTable(g, V, <<>>, n, F)
  <2> HIDE DEF Equation
  <2> QED
    BY <1>1, <1>2, FoldTable
<1>6. Equation(g)
  <2> SUFFICES ASSUME NEW s \in SUBSET (1 .. n), s # {}
               PROVE  g[s] = IF q[Max(s)].type = "result" THEN g[s \ {Max(s)}]
                             ELSE Append(g[s \ {Max(s)}], q[Max(s)])
    BY <1>5 DEF IsTable
  <2>1. Max(s) \in 1 .. n
    BY <1>1, LargestPosition
  <2> QED
    BY <1>3, <1>5, <2>1 DEF IsTable
<1>7. Equation(G)
  <2> HIDE DEF Equation
  <2> QED
    BY <1>6
<1> HIDE DEF G
<1>8. G[{}] = <<>>
  BY <1>7
<1>9. \A s \in SUBSET (1 .. n) :
        (s # {} /\ G[s \ {Max(s)}] \in V) => G[s] = F[<<G[s \ {Max(s)}], Max(s)>>]
  <2> SUFFICES ASSUME NEW s \in SUBSET (1 .. n), s # {}, G[s \ {Max(s)}] \in V
               PROVE  G[s] = F[<<G[s \ {Max(s)}], Max(s)>>]
    OBVIOUS
  <2>1. Max(s) \in 1 .. n
    BY <1>1, LargestPosition
  <2> QED
    BY <1>3, <1>7, <2>1
<1> HIDE DEF Equation
<1> DEFINE t == [k \in 0 .. n |-> G[1 .. k]]
<1>10. IsRun(t, V, <<>>, n, F)
  <2>1. n \in Nat /\ <<>> \in V /\ F \in [V \X (1 .. n) -> V]
    BY <1>1, <1>2
  <2> QED
    BY <2>1, <1>8, <1>9, FoldRun
<1>11. t[n] = G[1 .. n]
  BY <1>1
<1> HIDE DEF t
<1> QED
  BY <1>4, <1>10, <1>11 DEF n, V, F

\* An empty view has no messages that are not results.
LEMMA OthersEmpty == Others(<<>>) = <<>>
<1> DEFINE q == <<>>
           C == {}
           O == {}
<1>1. q \in Seq(RecordsOf(C, O)) /\ Len(q) = 0
  OBVIOUS
<1> HIDE DEF q, C, O
<1>2. PICK t : IsRun(t, Seq(RecordsOf(C, O)), <<>>, Len(q), OthersSteps(C, O, q)) /\ Others(q) = t[Len(q)]
  BY <1>1, OthersRun
<1> QED
  BY <1>1, <1>2 DEF q, IsRun

\* Another message only adds itself, and a result adds nothing.
LEMMA OthersAppend ==
  ASSUME NEW C, NEW O, NEW q \in Seq(RecordsOf(C, O)), NEW rec \in RecordsOf(C, O)
  PROVE  /\ Others(q) \in Seq(RecordsOf(C, O))
         /\ Others(Append(q, rec)) =
              IF rec.type = "result" THEN Others(q) ELSE Append(Others(q), rec)
<1> DEFINE n == Len(q)
           p == Append(q, rec)
           V == Seq(RecordsOf(C, O))
<1>1. /\ n \in Nat /\ p \in Seq(RecordsOf(C, O)) /\ Len(p) = n + 1 /\ p[n + 1] = rec
      /\ \A k \in 1 .. n : p[k] = q[k]
  OBVIOUS
<1>2. PICK t : IsRun(t, V, <<>>, n, OthersSteps(C, O, q)) /\ Others(q) = t[n]
  BY OthersRun
<1>3. PICK u : IsRun(u, V, <<>>, n + 1, OthersSteps(C, O, p)) /\ Others(p) = u[n + 1]
  <2> HIDE DEF p
  <2>1. \E u : IsRun(u, V, <<>>, Len(p), OthersSteps(C, O, p)) /\ Others(p) = u[Len(p)]
    BY <1>1, OthersRun
  <2> QED
    BY <1>1, <2>1
<1> HIDE DEF p
<1>4. /\ \A v \in V, k \in 1 .. n : OthersSteps(C, O, p)[<<v, k>>] = OthersSteps(C, O, q)[<<v, k>>]
      /\ \A v \in V : OthersSteps(C, O, p)[<<v, n + 1>>] = IF rec.type = "result" THEN v ELSE Append(v, rec)
  <2>1. /\ \A k \in 1 .. n : k \in 1 .. Len(p) /\ k \in 1 .. Len(q)
        /\ n + 1 \in 1 .. Len(p)
    BY <1>1
  <2> HIDE DEF n, V
  <2>2. /\ \A v \in V, k \in 1 .. Len(p) : OthersSteps(C, O, p)[<<v, k>>] = IF p[k].type = "result" THEN v ELSE Append(v, p[k])
        /\ \A v \in V, k \in 1 .. Len(q) : OthersSteps(C, O, q)[<<v, k>>] = IF q[k].type = "result" THEN v ELSE Append(v, q[k])
    BY DEF OthersSteps, V
  <2> QED
    BY <1>1, <2>1, <2>2
<1> HIDE DEF V, n
<1>5. t[n] \in V /\ u[n + 1] = OthersSteps(C, O, p)[<<t[n], n + 1>>]
  <2>1. PICK f, h, b, m, W : f = OthersSteps(C, O, q) /\ h = OthersSteps(C, O, p)
                            /\ b = <<>> /\ m = n + 1 /\ W = V
    OBVIOUS
  <2>2. PICK k \in Nat : k = n
    BY <1>1
  <2>3. /\ m = k + 1 /\ IsRun(t, W, b, k, f) /\ IsRun(u, W, b, m, h)
        /\ Agree(f, h, W, k)
    BY <1>2, <1>3, <1>4, <2>1, <2>2 DEF Agree
  <2>4. GoesOn(t, u, W, k, m, h)
    BY <2>3, RunAppend
  <2> QED
    BY <2>1, <2>2, <2>4 DEF GoesOn
<1> QED
  BY <1>2, <1>3, <1>4, <1>5 DEF p, V

-----------------------------------------------------------------------------
(* The fold of the repair.                                                 *)

\* What the repair has after some messages.
Repairs(C, O) == [out : Seq(RecordsOf(C, O \cup {"repair"})), order : Seq(C)]

RepairStart == [out |-> <<>>, order |-> <<>>]

Mended(q) == FoldLeft(RepairMessage, [out |-> <<>>, order |-> <<>>], q)

\* The result that the repair makes up is a result of its call.
LEMMA OrphanType ==
  ASSUME NEW C, NEW O, NEW c \in C
  PROVE  /\ Orphan(c) \in RecordsOf(C, O \cup {"repair"})
         /\ Orphan(c).type = "result" /\ CallOf(Orphan(c)) = c
<1>1. <<c>> \in Seq(C) /\ Head(<<c>>) = c
  OBVIOUS
<1> QED
  BY <1>1 DEF Orphan, RecordsOf, CallOf

\* A flush appends one made-up result for each call still missing.
LEMMA FlushType ==
  ASSUME NEW C, NEW O, NEW acc \in Repairs(C, O)
  PROVE  LET w == [i \in 1 .. Len(acc.order) |-> Orphan(acc.order[i])] IN
         /\ w \in Seq(RecordsOf(C, O \cup {"repair"})) /\ Len(w) = Len(acc.order)
         /\ FlushMissing(acc) = [out |-> acc.out \o w, order |-> <<>>]
         /\ FlushMissing(acc) \in Repairs(C, O)
<1> DEFINE w == [i \in 1 .. Len(acc.order) |-> Orphan(acc.order[i])]
           R == RecordsOf(C, O \cup {"repair"})
<1>1. acc.order \in Seq(C) /\ acc.out \in Seq(R)
  BY DEF Repairs
<1>2. \A i \in 1 .. Len(acc.order) : Orphan(acc.order[i]) \in R
  <2>1. \A i \in 1 .. Len(acc.order) : acc.order[i] \in C
    BY <1>1
  <2>2. \A c \in C : Orphan(c) \in R
    BY OrphanType
  <2> QED
    BY <2>1, <2>2
<1>3. Len(acc.order) \in Nat
  BY <1>1
<1>4. w \in Seq(R) /\ Len(w) = Len(acc.order)
  <2> HIDE DEF R
  <2>1. w \in [1 .. Len(acc.order) -> R]
    BY <1>2
  <2> QED
    BY <1>3, <2>1, SeqDef
<1>5. FlushMissing(acc) = [out |-> acc.out \o w, order |-> <<>>]
  BY DEF FlushMissing
<1> HIDE DEF w
<1>6. acc.out \o w \in Seq(R) /\ <<>> \in Seq(C)
  <2> HIDE DEF R
  <2> QED
    BY <1>1, <1>4
<1>7. [out |-> acc.out \o w, order |-> <<>>] \in Repairs(C, O)
  BY <1>6 DEF Repairs
<1> QED
  BY <1>4, <1>5, <1>7 DEF w, R

\* One message takes a repair to a repair.
LEMMA RepairMessageType ==
  ASSUME NEW C, NEW O, NEW acc \in Repairs(C, O), NEW m \in RecordsOf(C, O)
  PROVE  RepairMessage(acc, m) \in Repairs(C, O)
<1> DEFINE R == RecordsOf(C, O \cup {"repair"})
<1>1. acc.order \in Seq(C) /\ acc.out \in Seq(R)
  BY DEF Repairs
<1>2. m \in R /\ m.calls \in Seq(C)
  BY DEF RecordsOf
<1>3. FlushMissing(acc).out \in Seq(R)
  BY FlushType DEF Repairs
<1> HIDE DEF R
<1>4. Append(acc.out, m) \in Seq(R) /\ Append(FlushMissing(acc).out, m) \in Seq(R)
  BY <1>1, <1>2, <1>3
<1>5. CASE m.type = "result" /\ Contains(acc.order, CallOf(m))
  <2>1. RemoveFirst(acc.order, CallOf(m)) \in Seq(C)
    BY <1>1, <1>5, RemoveFirstIs
  <2>2. RepairMessage(acc, m) =
          [out |-> Append(acc.out, m), order |-> RemoveFirst(acc.order, CallOf(m))]
    BY <1>5 DEF RepairMessage
  <2> QED
    BY <1>4, <2>1, <2>2 DEF Repairs, R
<1>6. CASE m.type = "result" /\ ~ Contains(acc.order, CallOf(m))
  BY <1>6 DEF RepairMessage
<1>7. CASE m.type # "result"
  <2>1. Unrepeated(m.calls) \in Seq(C)
    BY <1>2, UnrepeatedIs
  <2>2. RepairMessage(acc, m) =
          [out |-> Append(FlushMissing(acc).out, m), order |-> Unrepeated(m.calls)]
    BY <1>7 DEF RepairMessage
  <2> QED
    BY <1>4, <2>1, <2>2 DEF Repairs, R
<1> QED
  BY <1>5, <1>6, <1>7

RepairSteps(C, O, q) ==
  [p \in Repairs(C, O) \X (1 .. Len(q)) |-> RepairMessage(p[1], q[p[2]])]

\* The steps of a repair are typed.
LEMMA RepairStepType ==
  ASSUME NEW C, NEW O, NEW q \in Seq(RecordsOf(C, O))
  PROVE  /\ RepairStart \in Repairs(C, O)
         /\ \A p \in Repairs(C, O) \X (1 .. Len(q)) :
              RepairMessage(p[1], q[p[2]]) \in Repairs(C, O)
<1>1. \A i \in 1 .. Len(q) : q[i] \in RecordsOf(C, O)
  OBVIOUS
<1>2. RepairStart \in Repairs(C, O)
  BY EmptySeq DEF RepairStart, Repairs
<1>3. ASSUME NEW p \in Repairs(C, O) \X (1 .. Len(q))
      PROVE  RepairMessage(p[1], q[p[2]]) \in Repairs(C, O)
  <2>1. p[1] \in Repairs(C, O) /\ q[p[2]] \in RecordsOf(C, O)
    BY <1>1
  <2> QED
    BY <2>1, RepairMessageType
<1> QED
  BY <1>2, <1>3

\* Mended is the last value of a run over the messages.
LEMMA RepairRun ==
  ASSUME NEW C, NEW O, NEW q \in Seq(RecordsOf(C, O))
  PROVE  \E t : /\ IsRun(t, Repairs(C, O), RepairStart, Len(q), RepairSteps(C, O, q))
                /\ Mended(q) = t[Len(q)]
<1> DEFINE n == Len(q)
           V == Repairs(C, O)
           F == RepairSteps(C, O, q)
           Equation(g) == g = [s \in SUBSET (1 .. n) |->
             IF s = {} THEN RepairStart ELSE RepairMessage(g[s \ {Max(s)}], q[Max(s)])]
           G == CHOOSE g : Equation(g)
<1>1. n \in Nat /\ DOMAIN q = 1 .. n /\ \A i \in 1 .. n : q[i] \in RecordsOf(C, O)
  OBVIOUS
<1>2. F \in [V \X (1 .. n) -> V] /\ RepairStart \in V
  BY RepairStepType DEF RepairSteps
<1>3. \A v \in V, k \in 1 .. n : F[<<v, k>>] = RepairMessage(v, q[k])
  BY DEF RepairSteps
<1>4. Mended(q) = G[1 .. n]
  BY <1>1 DEF Mended, RepairStart, FoldLeft, MapThenFoldSet
<1> HIDE DEF V, F, n
<1>5. PICK g : IsTable(g, V, RepairStart, n, F)
  <2> HIDE DEF Equation
  <2> QED
    BY <1>1, <1>2, FoldTable
<1>6. Equation(g)
  <2> SUFFICES ASSUME NEW s \in SUBSET (1 .. n), s # {}
               PROVE  g[s] = RepairMessage(g[s \ {Max(s)}], q[Max(s)])
    BY <1>5 DEF IsTable
  <2>1. Max(s) \in 1 .. n
    BY <1>1, LargestPosition
  <2> QED
    BY <1>3, <1>5, <2>1 DEF IsTable
<1>7. Equation(G)
  <2> HIDE DEF Equation
  <2> QED
    BY <1>6
<1> HIDE DEF G
<1>8. G[{}] = RepairStart
  BY <1>7
<1>9. \A s \in SUBSET (1 .. n) :
        (s # {} /\ G[s \ {Max(s)}] \in V) => G[s] = F[<<G[s \ {Max(s)}], Max(s)>>]
  <2> SUFFICES ASSUME NEW s \in SUBSET (1 .. n), s # {}, G[s \ {Max(s)}] \in V
               PROVE  G[s] = F[<<G[s \ {Max(s)}], Max(s)>>]
    OBVIOUS
  <2>1. Max(s) \in 1 .. n
    BY <1>1, LargestPosition
  <2> QED
    BY <1>3, <1>7, <2>1
<1> HIDE DEF Equation
<1> DEFINE t == [k \in 0 .. n |-> G[1 .. k]]
<1>10. IsRun(t, V, RepairStart, n, F)
  <2>1. n \in Nat /\ RepairStart \in V /\ F \in [V \X (1 .. n) -> V]
    BY <1>1, <1>2
  <2> QED
    BY <2>1, <1>8, <1>9, FoldRun
<1>11. t[n] = G[1 .. n]
  BY <1>1
<1> HIDE DEF t
<1> QED
  BY <1>4, <1>10, <1>11 DEF n, V, F

\* The repair of an empty view has not done anything.
LEMMA MendedEmpty == Mended(<<>>) = RepairStart
<1> DEFINE q == <<>>
           C == {}
           O == {}
<1>1. q \in Seq(RecordsOf(C, O)) /\ Len(q) = 0
  OBVIOUS
<1> HIDE DEF q, C, O
<1>2. PICK t : IsRun(t, Repairs(C, O), RepairStart, Len(q), RepairSteps(C, O, q)) /\ Mended(q) = t[Len(q)]
  BY <1>1, RepairRun
<1> QED
  BY <1>1, <1>2 DEF q, IsRun

\* A view with one more message is repaired by one more step.
LEMMA MendedAppend ==
  ASSUME NEW C, NEW O, NEW q \in Seq(RecordsOf(C, O)), NEW rec \in RecordsOf(C, O)
  PROVE  /\ Mended(q) \in Repairs(C, O)
         /\ Mended(Append(q, rec)) =
              RepairMessage(Mended(q), rec)
<1> DEFINE n == Len(q)
           p == Append(q, rec)
           V == Repairs(C, O)
<1>1. /\ n \in Nat /\ p \in Seq(RecordsOf(C, O)) /\ Len(p) = n + 1 /\ p[n + 1] = rec
      /\ \A k \in 1 .. n : p[k] = q[k]
  OBVIOUS
<1>2. PICK t : IsRun(t, V, RepairStart, n, RepairSteps(C, O, q)) /\ Mended(q) = t[n]
  BY RepairRun
<1>3. PICK u : IsRun(u, V, RepairStart, n + 1, RepairSteps(C, O, p)) /\ Mended(p) = u[n + 1]
  <2> HIDE DEF p
  <2>1. \E u : IsRun(u, V, RepairStart, Len(p), RepairSteps(C, O, p)) /\ Mended(p) = u[Len(p)]
    BY <1>1, RepairRun
  <2> QED
    BY <1>1, <2>1
<1> HIDE DEF p
<1>4. /\ \A v \in V, k \in 1 .. n : RepairSteps(C, O, p)[<<v, k>>] = RepairSteps(C, O, q)[<<v, k>>]
      /\ \A v \in V : RepairSteps(C, O, p)[<<v, n + 1>>] = RepairMessage(v, rec)
  <2>1. /\ \A k \in 1 .. n : k \in 1 .. Len(p) /\ k \in 1 .. Len(q)
        /\ n + 1 \in 1 .. Len(p)
    BY <1>1
  <2> HIDE DEF n, V
  <2>2. /\ \A v \in V, k \in 1 .. Len(p) : RepairSteps(C, O, p)[<<v, k>>] = RepairMessage(v, p[k])
        /\ \A v \in V, k \in 1 .. Len(q) : RepairSteps(C, O, q)[<<v, k>>] = RepairMessage(v, q[k])
    BY DEF RepairSteps, V
  <2> QED
    BY <1>1, <2>1, <2>2
<1> HIDE DEF V, n
<1>5. t[n] \in V /\ u[n + 1] = RepairSteps(C, O, p)[<<t[n], n + 1>>]
  <2>1. PICK f, h, b, m, W : f = RepairSteps(C, O, q) /\ h = RepairSteps(C, O, p)
                            /\ b = RepairStart /\ m = n + 1 /\ W = V
    OBVIOUS
  <2>2. PICK k \in Nat : k = n
    BY <1>1
  <2>3. /\ m = k + 1 /\ IsRun(t, W, b, k, f) /\ IsRun(u, W, b, m, h)
        /\ Agree(f, h, W, k)
    BY <1>2, <1>3, <1>4, <2>1, <2>2 DEF Agree
  <2>4. GoesOn(t, u, W, k, m, h)
    BY <2>3, RunAppend
  <2> QED
    BY <2>1, <2>2, <2>4 DEF GoesOn
<1> QED
  BY <1>2, <1>3, <1>4, <1>5 DEF p, V

-----------------------------------------------------------------------------
(* What is missing at a place of a view.                                   *)

IsResult(m) == m.type = "result"

\* The last message before position i that is no result, 0 if there is none.
Opener(q, i) ==
  LET before == { j \in 1 .. i - 1 : ~ IsResult(q[j]) } IN IF before = {} THEN 0 ELSE Max(before)

CallsAt(q, j) == IF j = 0 THEN {} ELSE ToSet(q[j].calls)

ToldIn(q, j, i) == { CallOf(q[x]) : x \in j + 1 .. i - 1 }

\* The calls that have no result yet when position i is reached.
MissingAt(q, i) == CallsAt(q, Opener(q, i)) \ ToldIn(q, Opener(q, i), i)

Missing(q) == MissingAt(q, Len(q) + 1)

\* Every result is one that is missing, and another message comes when none is.
Fits(q, i) == IF IsResult(q[i]) THEN CallOf(q[i]) \in MissingAt(q, i) ELSE MissingAt(q, i) = {}

Legal(q) == \A i \in 1 .. Len(q) : Fits(q, i)

\* Opener(q, i) is the last message before position i that is no result, or 0.
LEMMA OpenerIs ==
  ASSUME NEW q, NEW i \in Nat \ {0}
  PROVE  /\ Opener(q, i) \in 0 .. i - 1
         /\ Opener(q, i) # 0 => ~ IsResult(q[Opener(q, i)])
         /\ \A x \in Opener(q, i) + 1 .. i - 1 : IsResult(q[x])
<1> DEFINE before == { j \in 1 .. i - 1 : ~ IsResult(q[j]) }
           o == Opener(q, i)
<1>1. CASE before = {}
  <2>1. o = 0
    BY <1>1 DEF Opener
  <2> HIDE DEF o
  <2> QED
    BY <1>1, <2>1 DEF o
<1>2. CASE before # {}
  <2>1. o = Max(before)
    BY <1>2 DEF Opener
  <2>2. i - 1 \in Nat /\ before \in SUBSET (1 .. i - 1)
    OBVIOUS
  <2> HIDE DEF before
  <2>3. o \in before /\ \A z \in before : z <= o
    BY <1>2, <2>1, <2>2, LargestPosition
  <2> HIDE DEF o
  <2>4. o \in 1 .. i - 1 /\ ~ IsResult(q[o])
    BY <2>3 DEF before
  <2>5. ASSUME NEW x \in o + 1 .. i - 1 PROVE IsResult(q[x])
    <3>1. x \in 1 .. i - 1 /\ ~ (x <= o)
      BY <2>4
    <3> QED
      BY <2>3, <3>1 DEF before
  <2> QED
    BY <2>4, <2>5 DEF o
<1> QED
  BY <1>1, <1>2

\* Nothing else is it.
LEMMA OpenerUnique ==
  ASSUME NEW q, NEW i \in Nat \ {0}, NEW o \in 0 .. i - 1, o # 0 => ~ IsResult(q[o]),
         \A x \in o + 1 .. i - 1 : IsResult(q[x])
  PROVE  Opener(q, i) = o
<1> DEFINE p == Opener(q, i)
<1>1. /\ p \in 0 .. i - 1 /\ (p # 0 => ~ IsResult(q[p]))
      /\ \A x \in p + 1 .. i - 1 : IsResult(q[x])
  BY OpenerIs
<1> HIDE DEF p
<1>2. ~ (p < o) /\ ~ (o < p)
  BY <1>1
<1> QED
  BY <1>1, <1>2 DEF p

\* What a message more changes.
LEMMA MissingAppend ==
  ASSUME NEW S, NEW q \in Seq(S), NEW rec
  PROVE  LET p == Append(q, rec) IN
         /\ \A i \in 1 .. Len(q) + 1 : MissingAt(p, i) = MissingAt(q, i)
         /\ Missing(p) = IF IsResult(rec) THEN Missing(q) \ {CallOf(rec)} ELSE ToSet(rec.calls)
<1> DEFINE p == Append(q, rec)
           n == Len(q)
<1>1. /\ n \in Nat /\ Len(p) = n + 1 /\ p[n + 1] = rec
      /\ \A i \in 1 .. n : p[i] = q[i]
  OBVIOUS
<1> HIDE DEF p, n
<1>2. ASSUME NEW i \in 1 .. n + 1
      PROVE  MissingAt(p, i) = MissingAt(q, i) /\ Opener(p, i) = Opener(q, i)
  <2>1. i \in Nat \ {0} /\ \A x \in 1 .. i - 1 : p[x] = q[x]
    BY <1>1
  <2> DEFINE o == Opener(q, i)
  <2>2. /\ o \in 0 .. i - 1 /\ (o # 0 => ~ IsResult(q[o]))
        /\ \A x \in o + 1 .. i - 1 : IsResult(q[x])
    BY <2>1, OpenerIs
  <2> HIDE DEF o
  <2>3. (o # 0 => p[o] = q[o]) /\ \A x \in o + 1 .. i - 1 : p[x] = q[x]
    BY <2>1, <2>2
  <2>4. Opener(p, i) = o
    BY <2>1, <2>2, <2>3, OpenerUnique
  <2>5. CallsAt(p, o) = CallsAt(q, o) /\ ToldIn(p, o, i) = ToldIn(q, o, i)
    BY <2>3 DEF CallsAt, ToldIn
  <2> QED
    BY <2>4, <2>5 DEF MissingAt, o
<1>3. Missing(p) = MissingAt(p, n + 2) /\ Missing(q) = MissingAt(p, n + 1)
  <2>1. n + 1 \in 1 .. n + 1 /\ Len(p) + 1 = n + 2
    BY <1>1
  <2> QED
    BY <1>2, <2>1 DEF Missing, n
<1> DEFINE o == Opener(p, n + 1)
<1>4. /\ o \in 0 .. n /\ (o # 0 => ~ IsResult(p[o])) /\ \A x \in o + 1 .. n : IsResult(p[x])
  <2>1. n + 1 \in Nat \ {0} /\ (n + 1) - 1 = n
    BY <1>1
  <2> HIDE DEF o
  <2>2. /\ o \in 0 .. (n + 1) - 1 /\ (o # 0 => ~ IsResult(p[o]))
        /\ \A x \in o + 1 .. (n + 1) - 1 : IsResult(p[x])
    BY <2>1, OpenerIs DEF o
  <2> QED
    BY <2>1, <2>2
<1> HIDE DEF o
<1> DEFINE Changed == Missing(p) = IF IsResult(rec) THEN Missing(q) \ {CallOf(rec)} ELSE ToSet(rec.calls)
<1>5. ASSUME IsResult(rec) PROVE Changed
  <2>1. n + 2 \in Nat \ {0} /\ o \in 0 .. (n + 2) - 1
    BY <1>1, <1>4
  <2>2. \A x \in o + 1 .. (n + 2) - 1 : IsResult(p[x])
    BY <1>1, <1>4, <1>5
  <2>3. Opener(p, n + 2) = o
    BY <1>4, <2>1, <2>2, OpenerUnique
  <2>4. ToldIn(p, o, n + 2) = ToldIn(p, o, n + 1) \cup {CallOf(rec)}
    <3>1. /\ o + 1 .. (n + 2) - 1 = (o + 1 .. (n + 1) - 1) \cup {n + 1}
      BY <1>1, <1>4
    <3> QED
      BY <1>1, <3>1 DEF ToldIn
  <2>5. MissingAt(p, n + 1) = CallsAt(p, o) \ ToldIn(p, o, n + 1)
    BY DEF MissingAt, o
  <2>6. MissingAt(p, n + 2) = CallsAt(p, o) \ ToldIn(p, o, n + 2)
    BY <2>3 DEF MissingAt
  <2> QED
    BY <1>3, <1>5, <2>4, <2>5, <2>6
<1>6. ASSUME ~ IsResult(rec) PROVE Changed
  <2>1. /\ n + 2 \in Nat \ {0} /\ n + 1 \in 0 .. (n + 2) - 1 /\ n + 1 # 0
        /\ (n + 1) + 1 .. (n + 2) - 1 = {}
    BY <1>1
  <2>2. Opener(p, n + 2) = n + 1
    BY <1>1, <1>6, <2>1, OpenerUnique
  <2>3. ToldIn(p, n + 1, n + 2) = {}
    BY <2>1 DEF ToldIn
  <2>4. MissingAt(p, n + 2) = CallsAt(p, n + 1) \ ToldIn(p, n + 1, n + 2)
    BY <2>2 DEF MissingAt
  <2>5. CallsAt(p, n + 1) = ToSet(rec.calls)
    BY <1>1, <2>1 DEF CallsAt
  <2> QED
    BY <1>3, <1>6, <2>3, <2>4, <2>5
<1> QED
  BY <1>2, <1>5, <1>6 DEF p, n

\* An empty view is legal and misses nothing.
LEMMA LegalEmpty == Legal(<<>>) /\ Missing(<<>>) = {}
<1> DEFINE q == <<>>
<1>1. Len(q) = 0
  OBVIOUS
<1> HIDE DEF q
<1>2. Opener(q, 1) = 0
  <2>1. Opener(q, 1) \in 0 .. 1 - 1
    BY OpenerIs
  <2> QED
    BY <2>1
<1> QED
  BY <1>1, <1>2 DEF Legal, Missing, MissingAt, CallsAt, q

\* A legal view stays legal if the next message is a result it misses, or if it
\* misses none.
LEMMA LegalAppend ==
  ASSUME NEW S, NEW q \in Seq(S), NEW rec
  PROVE  Legal(Append(q, rec)) <=>
           /\ Legal(q)
           /\ IF IsResult(rec) THEN CallOf(rec) \in Missing(q) ELSE Missing(q) = {}
<1> DEFINE p == Append(q, rec)
           n == Len(q)
<1>1. /\ n \in Nat /\ Len(p) = n + 1 /\ p[n + 1] = rec
      /\ \A i \in 1 .. n : p[i] = q[i]
  OBVIOUS
<1>2. \A i \in 1 .. n + 1 : MissingAt(p, i) = MissingAt(q, i)
  BY MissingAppend
<1> HIDE DEF p, n
<1>3. \A i \in 1 .. n : Fits(p, i) <=> Fits(q, i)
  BY <1>1, <1>2 DEF Fits
<1>4. Fits(p, n + 1) <=> IF IsResult(rec) THEN CallOf(rec) \in Missing(q) ELSE Missing(q) = {}
  <2>1. n + 1 \in 1 .. n + 1
    BY <1>1
  <2> QED
    BY <1>1, <1>2, <2>1 DEF Fits, Missing, n
<1>5. 1 .. n + 1 = (1 .. n) \cup {n + 1}
  BY <1>1
<1> QED
  BY <1>1, <1>3, <1>4, <1>5 DEF Legal, p, n

\* f lists K from i + 1 to e: by number and content, or element by element.
Lists(f, K, i, e) == e - i = Cardinality(K) /\ K = { f[x] : x \in i + 1 .. e }

ListsNew(f, K, i, e) ==
  /\ \A x \in i + 1 .. e : f[x] \in K \ { f[y] : y \in i + 1 .. x - 1 }
  /\ K \ { f[y] : y \in i + 1 .. e } = {}

\* A numbered list names every element of K, and none twice, exactly if each of
\* its entries is in K and new and nothing of K is left over.
LEMMA NamesOnce ==
  ASSUME NEW K, NEW i \in Nat, NEW e \in Nat, i <= e, NEW f
  PROVE  Lists(f, K, i, e) <=> ListsNew(f, K, i, e)
<1> DEFINE D == i + 1 .. e
           g == [x \in D |-> f[x]]
           New == \A x \in D : f[x] \in K \ { f[y] : y \in i + 1 .. x - 1 }
<1>1. IsFiniteSet(D) /\ Cardinality(D) = e - i
  <2>1. i + 1 \in Int /\ e \in Int
    OBVIOUS
  <2>2. IsFiniteSet(i + 1 .. e) /\ Cardinality(i + 1 .. e) = IF i + 1 > e THEN 0 ELSE e - (i + 1) + 1
    BY <2>1, FS_Interval
  <2> HIDE DEF D
  <2> QED
    BY <2>2 DEF D
<1>2. ASSUME K = { f[x] : x \in D }
      PROVE  Cardinality(K) = e - i <=> New
  <2>1. g \in Surjection(D, K)
    BY <1>2 DEF Surjection
  <2>2. Cardinality(K) = Cardinality(D) <=> g \in Injection(D, K)
    <3> HIDE DEF D, g
    <3> QED
      BY <1>1, <2>1, FS_Surjection
  <2>3. g \in Injection(D, K) <=> \A x, y \in D : f[x] = f[y] => x = y
    BY <2>1 DEF Surjection, Injection, IsInjective
  <2>4. (\A x, y \in D : f[x] = f[y] => x = y) <=> New
    <3>1. ASSUME \A x, y \in D : f[x] = f[y] => x = y, NEW x \in D
          PROVE  f[x] \in K \ { f[y] : y \in i + 1 .. x - 1 }
      <4>1. \A y \in i + 1 .. x - 1 : y \in D /\ y # x
        OBVIOUS
      <4> HIDE DEF D
      <4> QED
        BY <1>2, <3>1, <4>1
    <3>2. ASSUME New, NEW x \in D, NEW y \in D, f[x] = f[y]
          PROVE  x = y
      <4>1. x < y => x \in i + 1 .. y - 1
        OBVIOUS
      <4>2. y < x => y \in i + 1 .. x - 1
        OBVIOUS
      <4>3. ~ (x < y) /\ ~ (y < x)
        BY <3>2, <4>1, <4>2
      <4> QED
        BY <4>3
    <3> HIDE DEF D, New
    <3>3. (\A x, y \in D : f[x] = f[y] => x = y) => New
      BY <3>1 DEF New
    <3> QED
      BY <3>2, <3>3
  <2> HIDE DEF New, D
  <2> QED
    BY <1>1, <2>2, <2>3, <2>4
<1>3. New /\ K \ { f[y] : y \in D } = {} => K = { f[x] : x \in D }
  <2> HIDE DEF D
  <2> QED
    OBVIOUS
<1> HIDE DEF New, D
<1>4. (e - i = Cardinality(K) /\ K = { f[x] : x \in D }) <=> (New /\ K \ { f[y] : y \in D } = {})
  BY <1>2, <1>3
<1> QED
  BY <1>4 DEF New, D, Lists, ListsNew

-----------------------------------------------------------------------------
(* Paired, message by message.                                             *)

\* A message that is no result, or the beginning, and the results up to e after it.
Segment(q, i, e) ==
  /\ i \in 0 .. Len(q) /\ e \in i .. Len(q)
  /\ i # 0 => ~ IsResult(q[i])
  /\ \A x \in i + 1 .. e : IsResult(q[x])
  /\ e < Len(q) => ~ IsResult(q[e + 1])

Whole(q, i, e) == e - i = Cardinality(CallsAt(q, i)) /\ CallsAt(q, i) = ToldIn(q, i, e + 1)

\* The results after a message are paired with its calls exactly when each one is
\* missing where it stands and none is missing at the end.
LEMMA SegmentIs ==
  ASSUME NEW S, NEW q \in Seq(S), NEW i \in Nat, NEW e \in Nat, Segment(q, i, e)
  PROVE  Whole(q, i, e) <=> /\ \A x \in i + 1 .. e : Fits(q, x)
                            /\ MissingAt(q, e + 1) = {}
<1> DEFINE K == CallsAt(q, i)
           f == [x \in i + 1 .. e |-> CallOf(q[x])]
<1>1. i \in Nat /\ e \in Nat /\ i <= e /\ (e + 1) - 1 = e
  BY DEF Segment
<1>2. \A x \in i + 1 .. e + 1 : ToldIn(q, i, x) = { f[y] : y \in i + 1 .. x - 1 }
  <2> SUFFICES ASSUME NEW x \in i + 1 .. e + 1
               PROVE  ToldIn(q, i, x) = { f[y] : y \in i + 1 .. x - 1 }
    OBVIOUS
  <2>1. \A y \in i + 1 .. x - 1 : y \in i + 1 .. e
    BY <1>1
  <2>2. \A y \in i + 1 .. x - 1 : f[y] = CallOf(q[y])
    BY <2>1
  <2> HIDE DEF f
  <2> QED
    BY <2>2 DEF ToldIn
<1>3. \A x \in i + 1 .. e + 1 : MissingAt(q, x) = K \ { f[y] : y \in i + 1 .. x - 1 }
  <2> SUFFICES ASSUME NEW x \in i + 1 .. e + 1
               PROVE  MissingAt(q, x) = K \ { f[y] : y \in i + 1 .. x - 1 }
    OBVIOUS
  <2>1. /\ x \in Nat \ {0} /\ i \in 0 .. x - 1 /\ (i # 0 => ~ IsResult(q[i]))
        /\ \A y \in i + 1 .. x - 1 : IsResult(q[y])
    BY <1>1 DEF Segment
  <2>2. Opener(q, x) = i
    BY <2>1, OpenerUnique
  <2> HIDE DEF f
  <2> QED
    BY <1>2, <2>2 DEF MissingAt
<1>4. \A x \in i + 1 .. e : Fits(q, x) <=> f[x] \in K \ { f[y] : y \in i + 1 .. x - 1 }
  <2> SUFFICES ASSUME NEW x \in i + 1 .. e
               PROVE  Fits(q, x) <=> f[x] \in K \ { f[y] : y \in i + 1 .. x - 1 }
    OBVIOUS
  <2>1. IsResult(q[x]) /\ x \in i + 1 .. e + 1 /\ f[x] = CallOf(q[x])
    BY <1>1 DEF Segment
  <2> HIDE DEF f
  <2> QED
    BY <1>3, <2>1 DEF Fits
<1>5. e + 1 \in i + 1 .. e + 1
  BY <1>1
<1>6. /\ MissingAt(q, e + 1) = K \ { f[y] : y \in i + 1 .. e }
      /\ ToldIn(q, i, e + 1) = { f[y] : y \in i + 1 .. e }
  <2> HIDE DEF f, K
  <2> QED
    BY <1>1, <1>2, <1>3, <1>5
<1> HIDE DEF f, K
<1>7. Lists(f, K, i, e) <=> ListsNew(f, K, i, e)
  BY <1>1, NamesOnce
<1>8. Whole(q, i, e) <=> Lists(f, K, i, e)
  BY <1>6 DEF Whole, Lists, K
<1>9. (\A x \in i + 1 .. e : Fits(q, x)) /\ MissingAt(q, e + 1) = {} <=> ListsNew(f, K, i, e)
  BY <1>4, <1>6 DEF ListsNew
<1> QED
  BY <1>7, <1>8, <1>9

\* Where the results after position i end.
Closer(q, i) ==
  LET later == { j \in i + 1 .. Len(q) : q[j].type # "result" } IN
  IF later = {} THEN Len(q) ELSE (CHOOSE j \in later : \A k \in later : j <= k) - 1

\* Up to its Closer a message is followed by results only.
LEMMA CloserIs ==
  ASSUME NEW S, NEW q \in Seq(S), NEW i \in 0 .. Len(q), i # 0 => ~ IsResult(q[i])
  PROVE  Segment(q, i, Closer(q, i))
<1> DEFINE later == { j \in i + 1 .. Len(q) : q[j].type # "result" }
           c == CHOOSE j \in later : \A k \in later : j <= k
           e == Closer(q, i)
<1>1. Len(q) \in Nat /\ i \in Nat
  OBVIOUS
<1>2. CASE later = {}
  <2>1. e = Len(q)
    BY <1>2 DEF Closer
  <2>2. \A x \in i + 1 .. e : IsResult(q[x])
    BY <1>2, <2>1 DEF IsResult
  <2> HIDE DEF e
  <2> QED
    BY <1>1, <2>1, <2>2 DEF Segment, e
<1>3. CASE later # {}
  <2>1. later \in SUBSET Nat
    BY <1>1
  <2>2. \E j \in later : \A k \in later : j <= k
    <3> HIDE DEF later
    <3> QED
      BY <1>3, <2>1, LeastNatural
  <2>3. c \in later /\ \A k \in later : c <= k
    <3> HIDE DEF later
    <3> QED
      BY <2>2
  <2>4. e = c - 1
    BY <1>3 DEF Closer
  <2> HIDE DEF c, e
  <2>5. c \in i + 1 .. Len(q) /\ ~ IsResult(q[c])
    BY <2>3 DEF IsResult
  <2>6. ASSUME NEW x \in i + 1 .. e PROVE IsResult(q[x])
    <3>1. x \in i + 1 .. Len(q) /\ ~ (c <= x)
      BY <1>1, <2>4, <2>5
    <3> QED
      BY <2>3, <3>1 DEF IsResult
  <2>7. e + 1 = c /\ e \in i .. Len(q)
    BY <1>1, <2>4, <2>5
  <2> QED
    BY <2>5, <2>6, <2>7 DEF Segment, e
<1> QED
  BY <1>2, <1>3

\* Paired says that every segment is whole.
LEMMA PairedWhole ==
  ASSUME NEW S, NEW q \in Seq(S)
  PROVE  Paired(q) <=> \A i \in 0 .. Len(q) : (i # 0 => ~ IsResult(q[i])) => Whole(q, i, Closer(q, i))
<1> DEFINE N == { j \in 1 .. Len(q) : q[j].type # "result" } \cup {0}
<1>1. Paired(q) <=> \A i \in N : Whole(q, i, Closer(q, i))
  <2>1. \A i \in N :
          Whole(q, i, Closer(q, i)) <=>
          LET later == { j \in i + 1 .. Len(q) : q[j].type # "result" }
              end == IF later = {} THEN Len(q) ELSE (CHOOSE j \in later : \A k \in later : j <= k) - 1
              calls == IF i = 0 THEN {} ELSE ToSet(q[i].calls)
          IN /\ end - i = Cardinality(calls)
             /\ calls = { CallOf(q[j]) : j \in i + 1 .. end }
    <3> SUFFICES ASSUME NEW i \in N
                 PROVE  Whole(q, i, Closer(q, i)) <=>
                          LET end == Closer(q, i)
                              calls == CallsAt(q, i)
                          IN /\ end - i = Cardinality(calls)
                             /\ calls = { CallOf(q[j]) : j \in i + 1 .. end }
      BY DEF Closer, CallsAt
    <3> DEFINE e == Closer(q, i)
    <3>1. (e + 1) - 1 = e
      <4>1. Segment(q, i, e)
        BY CloserIs DEF IsResult
      <4> HIDE DEF e
      <4>2. e \in i .. Len(q) /\ i \in Nat
        BY <4>1 DEF Segment
      <4> QED
        BY <4>2
    <3> HIDE DEF e
    <3>2. Whole(q, i, e) <=> (e - i = Cardinality(CallsAt(q, i)) /\ CallsAt(q, i) = { CallOf(q[j]) : j \in i + 1 .. e })
      BY <3>1 DEF Whole, ToldIn
    <3> QED
      BY <3>2 DEF e
  <2> QED
    BY <2>1 DEF Paired
<1>2. \A i : i \in N <=> (i \in 0 .. Len(q) /\ (i # 0 => ~ IsResult(q[i])))
  BY DEF IsResult
<1> HIDE DEF N
<1> QED
  BY <1>1, <1>2

\* Paired says that the view is legal and nothing is missing at its end.
LEMMA PairedIs ==
  ASSUME NEW S, NEW q \in Seq(S)
  PROVE  Paired(q) <=> Legal(q) /\ Missing(q) = {}
<1>0. Len(q) \in Nat
  OBVIOUS
<1>1. ASSUME NEW i \in 0 .. Len(q), i # 0 => ~ IsResult(q[i])
      PROVE  /\ Segment(q, i, Closer(q, i)) /\ i \in Nat /\ Closer(q, i) \in Nat
             /\ Whole(q, i, Closer(q, i)) <=> /\ \A x \in i + 1 .. Closer(q, i) : Fits(q, x)
                                              /\ MissingAt(q, Closer(q, i) + 1) = {}
  <2>1. Segment(q, i, Closer(q, i))
    BY <1>1, CloserIs
  <2>2. i \in Nat /\ Closer(q, i) \in Nat
    BY <2>1 DEF Segment
  <2> QED
    BY <2>1, <2>2, SegmentIs
<1>2. ASSUME Legal(q), Missing(q) = {}, NEW i \in 0 .. Len(q), i # 0 => ~ IsResult(q[i])
      PROVE  Whole(q, i, Closer(q, i))
  <2> DEFINE e == Closer(q, i)
  <2>1. Segment(q, i, e) /\ i \in Nat /\ e \in Nat
    BY <1>1, <1>2
  <2>2. Whole(q, i, e) <=> /\ \A x \in i + 1 .. e : Fits(q, x)
                           /\ MissingAt(q, e + 1) = {}
    BY <1>1, <1>2
  <2> HIDE DEF e
  <2>3. \A x \in i + 1 .. e : Fits(q, x)
    <3>1. \A x \in i + 1 .. e : x \in 1 .. Len(q)
      BY <1>0, <2>1 DEF Segment
    <3> QED
      BY <1>2, <3>1 DEF Legal
  <2>4. CASE e = Len(q)
    BY <1>2, <2>2, <2>3, <2>4 DEF Missing, e
  <2>5. CASE e # Len(q)
    <3>1. e + 1 \in 1 .. Len(q) /\ ~ IsResult(q[e + 1])
      BY <1>0, <2>1, <2>5 DEF Segment
    <3>2. MissingAt(q, e + 1) = {}
      BY <1>2, <3>1 DEF Legal, Fits
    <3> QED
      BY <2>2, <2>3, <3>2 DEF e
  <2> QED
    BY <2>4, <2>5
<1>3. ASSUME Paired(q), NEW x \in 1 .. Len(q) + 1
      PROVE  IF x \in 1 .. Len(q) /\ IsResult(q[x]) THEN Fits(q, x) ELSE MissingAt(q, x) = {}
  <2> DEFINE i == Opener(q, x)
             e == Closer(q, i)
  <2>1. /\ i \in 0 .. x - 1 /\ (i # 0 => ~ IsResult(q[i]))
        /\ \A y \in i + 1 .. x - 1 : IsResult(q[y])
    BY <1>0, OpenerIs
  <2> HIDE DEF i
  <2>2. i \in 0 .. Len(q)
    BY <1>0, <2>1
  <2>3. /\ Segment(q, i, e) /\ i \in Nat /\ e \in Nat
        /\ Whole(q, i, e) <=> /\ \A y \in i + 1 .. e : Fits(q, y)
                              /\ MissingAt(q, e + 1) = {}
    BY <1>1, <2>1, <2>2
  <2>4. Whole(q, i, e)
    BY <1>3, <2>1, <2>2, PairedWhole
  <2> HIDE DEF e
  <2>5. ~ (e + 1 < x)
    <3> SUFFICES ASSUME e + 1 < x PROVE FALSE
      OBVIOUS
    <3>1. e + 1 \in i + 1 .. x - 1 /\ e < Len(q)
      BY <1>0, <2>1, <2>3 DEF Segment
    <3> QED
      BY <2>1, <2>3, <3>1 DEF Segment
  <2>6. CASE x \in 1 .. Len(q) /\ IsResult(q[x])
    <3>1. x # e + 1
      BY <1>0, <2>3, <2>6 DEF Segment
    <3>2. x \in i + 1 .. e
      BY <1>0, <2>1, <2>3, <2>5, <3>1
    <3> QED
      BY <2>3, <2>4, <2>6, <3>2
  <2>7. CASE ~ (x \in 1 .. Len(q) /\ IsResult(q[x]))
    <3>1. x \notin i + 1 .. e
      BY <1>0, <2>3, <2>7 DEF Segment
    <3>2. x = e + 1
      BY <1>0, <2>1, <2>3, <2>5, <3>1
    <3> QED
      BY <2>3, <2>4, <2>7, <3>2
  <2> QED
    BY <2>6, <2>7
<1>4. Paired(q) => Legal(q) /\ Missing(q) = {}
  <2> SUFFICES ASSUME Paired(q) PROVE Legal(q) /\ Missing(q) = {}
    OBVIOUS
  <2>1. \A x \in 1 .. Len(q) : Fits(q, x)
    <3> SUFFICES ASSUME NEW x \in 1 .. Len(q) PROVE Fits(q, x)
      OBVIOUS
    <3>1. x \in 1 .. Len(q) + 1
      BY <1>0
    <3>2. IF x \in 1 .. Len(q) /\ IsResult(q[x]) THEN Fits(q, x) ELSE MissingAt(q, x) = {}
      BY <1>3, <3>1
    <3> QED
      BY <3>2 DEF Fits
  <2>2. Len(q) + 1 \in 1 .. Len(q) + 1 /\ Len(q) + 1 \notin 1 .. Len(q)
    BY <1>0
  <2>3. MissingAt(q, Len(q) + 1) = {}
    BY <1>3, <2>2
  <2> QED
    BY <2>1, <2>3 DEF Legal, Missing
<1>5. Legal(q) /\ Missing(q) = {} => Paired(q)
  BY <1>2, PairedWhole
<1> QED
  BY <1>4, <1>5

\* A sequence without elements is empty.
LEMMA NoElements ==
  ASSUME NEW C, NEW s \in Seq(C), ToSet(s) = {}
  PROVE  s = <<>>
<1>1. Len(s) \in Nat /\ DOMAIN s = 1 .. Len(s)
  OBVIOUS
<1>2. ~ (1 \in DOMAIN s)
  BY DEF ToSet
<1>3. Len(s) = 0
  BY <1>1, <1>2
<1> QED
  BY <1>3

\* The results that are invented are those that are missing.
LEMMA FlushLegal ==
  ASSUME NEW C, NEW O, NEW acc \in Repairs(C, O),
         Legal(acc.out), Distinct(acc.order), ToSet(acc.order) = Missing(acc.out)
  PROVE  LET f == FlushMissing(acc) IN
         /\ Legal(f.out) /\ Missing(f.out) = {} /\ Others(f.out) = Others(acc.out)
         /\ acc.order = <<>> => f.out = acc.out
<1> DEFINE P == O \cup {"repair"}
           R == RecordsOf(C, P)
           u == acc.out
           o == acc.order
           w == [i \in 1 .. Len(o) |-> Orphan(o[i])]
           n == Len(o)
           p(k) == u \o SubSeq(w, 1, k)
           Good(k) == /\ Legal(p(k)) /\ Others(p(k)) = Others(u)
                      /\ Missing(p(k)) = { o[x] : x \in k + 1 .. n }
           T == { k \in Nat : k <= n => Good(k) }
<1>1. o \in Seq(C) /\ u \in Seq(R) /\ n \in Nat /\ DOMAIN o = 1 .. n
  BY DEF Repairs
<1>2. w \in Seq(R) /\ Len(w) = n /\ FlushMissing(acc) = [out |-> u \o w, order |-> <<>>]
  BY FlushType
<1>3. \A i \in 1 .. n : /\ w[i] = Orphan(o[i]) /\ w[i] \in R /\ o[i] \in C
                        /\ IsResult(w[i]) /\ CallOf(w[i]) = o[i]
  <2>1. \A i \in 1 .. n : w[i] = Orphan(o[i]) /\ o[i] \in C
    BY <1>1
  <2>2. \A c \in C : Orphan(c) \in R /\ IsResult(Orphan(c)) /\ CallOf(Orphan(c)) = c
    BY OrphanType DEF IsResult
  <2> HIDE DEF w, R
  <2> QED
    BY <2>1, <2>2
<1> HIDE DEF u, o, w, n, R
<1>4. p(0) = u /\ p(n) = u \o w
  <2>1. SubSeq(w, 1, 0) = <<>> /\ SubSeq(w, 1, n) = w
    BY <1>1, <1>2
  <2> QED
    BY <1>1, <2>1
<1>5. ASSUME NEW k \in Nat, k + 1 <= n
      PROVE  p(k) \in Seq(R) /\ p(k + 1) = Append(p(k), w[k + 1])
  <2> DEFINE v == SubSeq(w, 1, k)
  <2>1. v \in Seq(R) /\ w[k + 1] \in R /\ SubSeq(w, 1, k + 1) = Append(v, w[k + 1])
    BY <1>1, <1>2, <1>5
  <2> HIDE DEF v
  <2>2. u \o v \in Seq(R) /\ u \o Append(v, w[k + 1]) = Append(u \o v, w[k + 1])
    BY <1>1, <2>1
  <2> QED
    BY <2>1, <2>2 DEF v
<1> HIDE DEF p
<1>6. 0 \in T
  <2>1. ToSet(o) = { o[x] : x \in 0 + 1 .. n }
    BY <1>1 DEF ToSet
  <2>2. Legal(u) /\ ToSet(o) = Missing(u)
    BY DEF u, o
  <2> QED
    BY <1>4, <2>1, <2>2
<1>7. ASSUME NEW k \in Nat, k \in T PROVE k + 1 \in T
  <2> SUFFICES ASSUME k + 1 <= n PROVE Good(k + 1)
    OBVIOUS
  <2> DEFINE q == p(k)
             m == w[k + 1]
  <2>1. k <= n /\ k + 1 \in 1 .. n /\ k + 1 \in k + 1 .. n
    BY <1>1
  <2>2. Good(k) /\ q \in Seq(R) /\ p(k + 1) = Append(q, m)
    BY <1>5, <1>7, <2>1
  <2>3. m \in R /\ IsResult(m) /\ CallOf(m) = o[k + 1]
    BY <1>3, <2>1
  <2>4. CallOf(m) \in Missing(q)
    BY <2>1, <2>2, <2>3
  <2>5. { o[x] : x \in k + 1 .. n } \ {o[k + 1]} = { o[x] : x \in (k + 1) + 1 .. n }
    <3>1. k + 1 .. n = ((k + 1) + 1 .. n) \cup {k + 1}
      BY <1>1, <2>1
    <3>2. \A x \in (k + 1) + 1 .. n : x \in 1 .. n /\ x # k + 1
      BY <1>1
    <3>3. \A x \in (k + 1) + 1 .. n : o[x] # o[k + 1]
      BY <2>1, <3>2 DEF Distinct, o, n
    <3> QED
      BY <3>1, <3>3
  <2> HIDE DEF q, m
  <2>6. Legal(Append(q, m))
    BY <2>2, <2>3, <2>4, LegalAppend DEF q
  <2>7. Missing(Append(q, m)) = Missing(q) \ {CallOf(m)}
    BY <2>2, <2>3, MissingAppend
  <2>8. Others(Append(q, m)) = Others(q)
    BY <2>2, <2>3, OthersAppend DEF R, IsResult
  <2> QED
    BY <2>2, <2>3, <2>5, <2>6, <2>7, <2>8 DEF q
<1>8. n \in T
  <2>1. Nat \subseteq T
    <3> HIDE DEF T
    <3> QED
      BY <1>6, <1>7, Induction
  <2> QED
    BY <1>1, <2>1
<1>9. Good(n) /\ n + 1 .. n = {}
  BY <1>1, <1>8
<1>10. o = <<>> => n = 0
  BY DEF n
<1> QED
  BY <1>2, <1>4, <1>9, <1>10 DEF u, o

-----------------------------------------------------------------------------
(* The repair.                                                             *)

\* What the repair of q has got: a legal view, whose missing calls are pending, of
\* the same messages, and q itself if that was legal.
Mends(q, acc) ==
  /\ Legal(acc.out) /\ Distinct(acc.order) /\ ToSet(acc.order) = Missing(acc.out)
  /\ Others(acc.out) = Others(q)
  /\ Legal(q) => acc.out = q

\* The invariant of the repair: one more message keeps it.
LEMMA MendsAppend ==
  ASSUME NEW C, NEW O, NEW q \in Seq(RecordsOf(C, O)), NEW m \in RecordsOf(C, O),
         NEW acc \in Repairs(C, O), Mends(q, acc)
  PROVE  Mends(Append(q, m), RepairMessage(acc, m))
<1> DEFINE P == O \cup {"repair"}
           R == RecordsOf(C, P)
           b == RepairMessage(acc, m)
           c == CallOf(m)
<1>1. acc.order \in Seq(C) /\ acc.out \in Seq(R)
  BY DEF Repairs
<1>2. m \in R /\ m.calls \in Seq(C)
  BY DEF RecordsOf
<1>3. /\ Legal(acc.out) /\ Distinct(acc.order) /\ ToSet(acc.order) = Missing(acc.out)
      /\ Others(acc.out) = Others(q)
      /\ Legal(q) => acc.out = q
  BY DEF Mends
<1>4. Contains(acc.order, c) <=> c \in Missing(acc.out)
  BY <1>1, <1>3 DEF Contains, ToSet
<1>5. Others(Append(q, m)) = IF m.type = "result" THEN Others(q) ELSE Append(Others(q), m)
  BY OthersAppend
<1>6. \A v \in Seq(R) :
        Others(Append(v, m)) = IF m.type = "result" THEN Others(v) ELSE Append(Others(v), m)
  BY <1>2, OthersAppend
<1> HIDE DEF R, c
<1>7. Legal(Append(q, m)) <=>
        Legal(q) /\ (IF IsResult(m) THEN c \in Missing(q) ELSE Missing(q) = {})
  BY LegalAppend DEF c
<1>8. \A v \in Seq(R) : Legal(Append(v, m)) <=>
        Legal(v) /\ (IF IsResult(m) THEN c \in Missing(v) ELSE Missing(v) = {})
  BY LegalAppend DEF c
<1>9. \A v \in Seq(R) : Missing(Append(v, m)) =
        IF IsResult(m) THEN Missing(v) \ {c} ELSE ToSet(m.calls)
  BY MissingAppend DEF c
<1>10. CASE m.type = "result" /\ Contains(acc.order, c)
  <2>1. b.out = Append(acc.out, m) /\ b.order = RemoveFirst(acc.order, c)
    BY <1>10 DEF RepairMessage, c
  <2>2. Distinct(b.order) /\ ToSet(b.order) = ToSet(acc.order) \ {c}
    BY <1>1, <1>3, <1>10, <2>1, RemoveFirstDistinct
  <2> HIDE DEF b
  <2>3. Legal(b.out) /\ Missing(b.out) = ToSet(b.order)
    BY <1>1, <1>3, <1>4, <1>8, <1>9, <1>10, <2>1, <2>2 DEF IsResult
  <2>4. Others(b.out) = Others(Append(q, m))
    BY <1>1, <1>3, <1>5, <1>6, <1>10, <2>1
  <2>5. Legal(Append(q, m)) => b.out = Append(q, m)
    BY <1>3, <1>7, <2>1
  <2> QED
    BY <2>2, <2>3, <2>4, <2>5 DEF Mends, b
<1>11. CASE m.type = "result" /\ ~ Contains(acc.order, c)
  <2>1. b = acc
    BY <1>11 DEF RepairMessage, c
  <2> HIDE DEF b
  <2>2. ~ Legal(Append(q, m))
    BY <1>3, <1>4, <1>7, <1>11 DEF IsResult
  <2> QED
    BY <1>3, <1>5, <1>11, <2>1, <2>2 DEF Mends, b
<1>12. CASE m.type # "result"
  <2> DEFINE f == FlushMissing(acc)
  <2>1. b.out = Append(f.out, m) /\ b.order = Unrepeated(m.calls)
    BY <1>12 DEF RepairMessage
  <2>2. f.out \in Seq(R)
    BY FlushType DEF Repairs, R
  <2>3. /\ Legal(f.out) /\ Missing(f.out) = {} /\ Others(f.out) = Others(acc.out)
        /\ acc.order = <<>> => f.out = acc.out
    BY <1>3, FlushLegal
  <2>4. Distinct(b.order) /\ ToSet(b.order) = ToSet(m.calls)
    BY <1>2, <2>1, UnrepeatedIs
  <2> HIDE DEF b, f
  <2>5. Legal(b.out) /\ Missing(b.out) = ToSet(b.order)
    BY <1>8, <1>9, <1>12, <2>1, <2>2, <2>3, <2>4 DEF IsResult
  <2>6. Others(b.out) = Others(Append(q, m))
    BY <1>3, <1>5, <1>6, <1>12, <2>1, <2>2, <2>3
  <2>7. Legal(Append(q, m)) => b.out = Append(q, m)
    <3>1. ToSet(acc.order) = {} => acc.order = <<>>
      BY <1>1, NoElements
    <3> QED
      BY <1>3, <1>7, <1>12, <2>1, <2>3, <3>1 DEF IsResult
  <2> QED
    BY <2>4, <2>5, <2>6, <2>7 DEF Mends, b
<1> QED
  BY <1>10, <1>11, <1>12

\* So it holds of the repair of every view.
LEMMA MendedIs ==
  ASSUME NEW C, NEW O, NEW q \in Seq(RecordsOf(C, O))
  PROVE  Mended(q) \in Repairs(C, O) /\ Mends(q, Mended(q))
<1> DEFINE R == RecordsOf(C, O)
           T == { k \in Nat : \A v \in Seq(R) :
                    Len(v) = k => Mended(v) \in Repairs(C, O) /\ Mends(v, Mended(v)) }
<1>1. 0 \in T
  <2> SUFFICES ASSUME NEW v \in Seq(R), Len(v) = 0
               PROVE  Mended(v) \in Repairs(C, O) /\ Mends(v, Mended(v))
    OBVIOUS
  <2>1. v = <<>>
    <3> HIDE DEF R
    <3> QED
      OBVIOUS
  <2>2. Mended(v) = RepairStart
    BY <2>1, MendedEmpty
  <2>3. RepairStart \in Repairs(C, O)
    BY RepairStepType
  <2>4. ToSet(<<>>) = {} /\ Len(<<>>) = 0
    BY DEF ToSet
  <2>5. Legal(v) /\ Missing(v) = {}
    BY <2>1, LegalEmpty
  <2>6. RepairStart.out = v /\ RepairStart.order = <<>>
    BY <2>1 DEF RepairStart
  <2>7. Mends(v, RepairStart)
    <3> DEFINE b == RepairStart
    <3>1. b.out = v /\ ToSet(b.order) = {}
      BY <2>4, <2>6
    <3>2. Distinct(b.order)
      BY <2>4, <2>6 DEF Distinct
    <3> HIDE DEF b
    <3>3. Mends(v, b)
      BY <2>5, <3>1, <3>2 DEF Mends
    <3> QED
      BY <3>3 DEF b
  <2> QED
    BY <2>2, <2>3, <2>7
<1>2. ASSUME NEW k \in Nat, k \in T PROVE k + 1 \in T
  <2> SUFFICES ASSUME NEW v \in Seq(R), Len(v) = k + 1
               PROVE  Mended(v) \in Repairs(C, O) /\ Mends(v, Mended(v))
    OBVIOUS
  <2> DEFINE p == SubSeq(v, 1, k)
             m == v[k + 1]
  <2>1. p \in Seq(R) /\ Len(p) = k /\ m \in R /\ v = Append(p, m)
    <3> HIDE DEF R
    <3> QED
      BY SplitLast
  <2>2. Mended(p) \in Repairs(C, O) /\ Mends(p, Mended(p))
    BY <1>2, <2>1
  <2> HIDE DEF p, m
  <2>3. Mended(Append(p, m)) = RepairMessage(Mended(p), m)
    BY <2>1, MendedAppend
  <2> DEFINE acc == Mended(p)
  <2> HIDE DEF acc
  <2>4. acc \in Repairs(C, O) /\ Mends(p, acc)
    BY <2>2 DEF acc
  <2>5. RepairMessage(acc, m) \in Repairs(C, O)
    BY <2>1, <2>4, RepairMessageType
  <2>6. Mends(Append(p, m), RepairMessage(acc, m))
    BY <2>1, <2>4, MendsAppend
  <2> QED
    BY <2>1, <2>3, <2>5, <2>6 DEF acc
<1>3. Nat \subseteq T
  <2> HIDE DEF T
  <2> QED
    BY <1>1, <1>2, Induction
<1>4. Len(q) \in Nat /\ q \in Seq(R)
  OBVIOUS
<1> QED
  BY <1>3, <1>4

\* Whatever a view looks like, its repair is one a provider accepts, has the same
\* messages but results, and is the view itself if nothing is wrong with that.
THEOREM RepairExact ==
  ASSUME NEW C, NEW O, NEW q \in Seq(RecordsOf(C, O))
  PROVE  RepairIsExact(q)
<1> DEFINE R == RecordsOf(C, O \cup {"repair"})
           acc == Mended(q)
           f == FlushMissing(acc)
<1>1. acc \in Repairs(C, O) /\ Mends(q, acc)
  BY MendedIs
<1>2. Repaired(q) = f.out
  BY DEF Repaired, Mended
<1> HIDE DEF acc
<1>3. f.out \in Seq(R)
  BY <1>1, FlushType DEF Repairs
<1>4. /\ Legal(f.out) /\ Missing(f.out) = {} /\ Others(f.out) = Others(acc.out)
      /\ acc.order = <<>> => f.out = acc.out
  BY <1>1, FlushLegal DEF Mends
<1> HIDE DEF R, f
<1>5. Paired(f.out)
  BY <1>3, <1>4, PairedIs
<1>6. ASSUME Paired(q) PROVE f.out = q
  <2>1. Legal(q) /\ Missing(q) = {}
    BY <1>6, PairedIs
  <2>2. acc.out = q /\ ToSet(acc.order) = {}
    BY <1>1, <2>1 DEF Mends
  <2>3. acc.order = <<>>
    <3>1. acc.order \in Seq(C)
      BY <1>1 DEF Repairs
    <3> QED
      BY <2>2, <3>1, NoElements
  <2> QED
    BY <1>4, <2>2, <2>3
<1> QED
  BY <1>1, <1>2, <1>4, <1>5, <1>6 DEF RepairIsExact, Mends

\* The repair is exact on every view that grows message by message (RecordLog).
THEOREM RepairPairsAlways == LogSpec => []RepairPairs
<1>1. LogOK => RepairPairs
  BY RepairExact DEF RepairPairs, LogOK, LogHolds
<1> QED
  BY <1>1, LogTyped, PTL

=============================================================================
