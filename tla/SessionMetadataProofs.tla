----------------------- MODULE SessionMetadataProofs -----------------------
(***************************************************************************)
(* Proof that a request nobody interferes with does what it asks for, for  *)
(* any requests, workspaces and models.  The invariant says of each place  *)
(* of a request what is still to be done: the rest of the request, done to *)
(* the session as it is, yields what is expected.                          *)
(***************************************************************************)
EXTENDS SessionMetadataProperties, TLAPS

\* The requests, wherever they are.
BindPcs == {"find", "create", "bind", "writeWorkspace"}
StancePcs == {"readStance", "writeStance"}
ModelPcs == {"readModel", "writeModel"}
Binding == [pc : BindPcs, workspace : Workspaces \cup {None}, stance : Stances \cup {None}]
Modelling == [pc : ModelPcs, model : Preferences \cup {None}]
Posing == [pc : StancePcs, workspace : Workspaces \cup {None}, stance : Stances]
            \cup [pc : StancePcs, stance : Stances]
AnyRequest == {Idle} \cup Binding \cup Modelling \cup Posing

Sessions == Rows \cup {Absent}

Types ==
  /\ session \in Sessions /\ row \in [Requests -> Sessions]
  /\ request \in [Requests -> AnyRequest]
  /\ expected \in [Requests -> Sessions]
  /\ overlapped \in [Requests -> BOOLEAN]

\* The stance a submission still wants, s being the session.
StanceOf(r, s) == IF r.stance = None THEN s.stance ELSE r.stance

\* Bind and stance, done to the session s.
Bound(r, s) ==
  [s EXCEPT !.workspace = IF @ = None THEN r.workspace ELSE @, !.stance = StanceOf(r, s)]

Created(r) ==
  [workspace |-> r.workspace, model |-> None,
   stance |-> IF r.stance = None THEN "agent" ELSE r.stance]

\* What the request r has still to do to the session s, whose row it read as w,
\* in order to leave it as x.
OnTrack(r, s, w, x) ==
  /\ r.pc = "find" => x = IF s = Absent THEN Created(r) ELSE Bound(r, s)
  /\ r.pc = "create" => s = Absent /\ x = Created(r)
  /\ r.pc = "bind" => s # Absent /\ w = s /\ x = Bound(r, s)
  /\ r.pc = "writeWorkspace" => s # Absent /\ w = s /\ s.workspace = None /\ x = Bound(r, s)
  /\ r.pc = "readModel" => x = IF s = Absent THEN s ELSE [s EXCEPT !.model = r.model]
  /\ r.pc = "writeModel" => s # Absent /\ w = s /\ x = [s EXCEPT !.model = r.model]
  /\ r.pc = "readStance" => x = IF s = Absent THEN s ELSE [s EXCEPT !.stance = r.stance]
  /\ r.pc = "writeStance" => s # Absent /\ w = s /\ x = [s EXCEPT !.stance = r.stance]

IInv ==
  /\ Types
  /\ \A q \in Requests : ~overlapped[q] => OnTrack(request[q], session, row[q], expected[q])
  \* only a row that exists is written back
  /\ \A q \in Requests :
       request[q].pc \in {"bind", "writeWorkspace", "writeModel", "writeStance"} => row[q] # Absent

\* What a step of q does to q, and to the others.
Outcome(q) ==
  /\ Types' /\ expected' = expected
  /\ overlapped'[q] = overlapped[q]
  /\ \A p \in Requests : p # q =>
       /\ request'[p] = request[p] /\ row'[p] = row[p]
       /\ overlapped[p] => overlapped'[p]
       /\ session' = session \/ overlapped'[p]
  /\ request'[q].pc \in {"bind", "writeWorkspace", "writeModel", "writeStance"} => row'[q] # Absent
  /\ ~overlapped[q] =>
       \/ request'[q] = Idle /\ session' = expected[q]
       \/ request'[q] # Idle /\ OnTrack(request'[q], session', row'[q], expected[q])

-----------------------------------------------------------------------------
(* Records.                                                                *)

\* A row is not the absence of one.
LEMMA RowsExist == \A s \in Rows : s # Absent
<1> SUFFICES ASSUME Absent \in Rows PROVE FALSE
  OBVIOUS
<1>1. DOMAIN Absent = {"workspace"}
  BY DEF Absent
<1>2. "model" \in DOMAIN Absent
  BY DEF Rows
<1> QED
  BY <1>1, <1>2

\* At each place a request is one of the records of that place.
LEMMA Places ==
  ASSUME NEW r \in AnyRequest
  PROVE  /\ r.pc \in BindPcs => r \in Binding
         /\ r.pc \in ModelPcs => r \in Modelling
         /\ r.pc \in StancePcs => r \in Posing /\ r.stance \in Stances
         /\ r.pc = "idle" <=> r = Idle
BY DEF AnyRequest, Binding, Modelling, Posing, BindPcs, ModelPcs, StancePcs, Idle

\* A request moves between the places of its kind, and keeps what it asks for.
LEMMA Moves ==
  ASSUME NEW r \in AnyRequest, NEW p,
         \/ r.pc \in BindPcs /\ p \in BindPcs
         \/ r.pc \in BindPcs /\ r.stance # None /\ p \in StancePcs
         \/ r.pc \in ModelPcs /\ p \in ModelPcs
         \/ r.pc \in StancePcs /\ p \in StancePcs
  PROVE  /\ [r EXCEPT !.pc = p] \in AnyRequest
         /\ [r EXCEPT !.pc = p].pc = p
         /\ [r EXCEPT !.pc = p] # Idle
         /\ r.pc \in BindPcs => [r EXCEPT !.pc = p].workspace = r.workspace
         /\ r.pc \in BindPcs \cup StancePcs => [r EXCEPT !.pc = p].stance = r.stance
         /\ r.pc \in ModelPcs => [r EXCEPT !.pc = p].model = r.model
<1>1. /\ [r EXCEPT !.pc = p] \in AnyRequest
      /\ [r EXCEPT !.pc = p].pc = p
  BY DEF AnyRequest, Binding, Modelling, Posing, BindPcs, ModelPcs, StancePcs, Idle
<1>2. p # "idle"
  BY DEF BindPcs, ModelPcs, StancePcs
<1>3. [r EXCEPT !.pc = p] # Idle
  BY <1>1, <1>2 DEF Idle
<1>4. /\ r.pc \in BindPcs => [r EXCEPT !.pc = p].workspace = r.workspace
      /\ r.pc \in BindPcs \cup StancePcs => [r EXCEPT !.pc = p].stance = r.stance
      /\ r.pc \in ModelPcs => [r EXCEPT !.pc = p].model = r.model
  BY Places DEF Binding, Modelling, Posing
<1> QED
  BY <1>1, <1>3, <1>4

\* What is written.
LEMMA Written ==
  ASSUME NEW s \in Rows, NEW v
  PROVE  /\ v \in Workspaces \cup {None} => [s EXCEPT !.workspace = v] \in Rows
         /\ v \in Preferences \cup {None} => [s EXCEPT !.model = v] \in Rows
         /\ v \in Stances => [s EXCEPT !.stance = v] \in Rows
BY DEF Rows

\* Putting together what a step does to q and to the others.
LEMMA Stepped ==
  ASSUME IInv, NEW q \in Requests, NEW r2 \in AnyRequest, NEW w2 \in Sessions, NEW s2 \in Sessions,
         request' = [request EXCEPT ![q] = r2], row' = [row EXCEPT ![q] = w2], session' = s2,
         expected' = expected,
         \/ overlapped' = overlapped /\ s2 = session
         \/ overlapped' = [p \in Requests |-> overlapped[p] \/ (p # q /\ s2 # session)],
         r2.pc \in {"bind", "writeWorkspace", "writeModel", "writeStance"} => w2 # Absent,
         ~overlapped[q] => \/ r2 = Idle /\ s2 = expected[q]
                           \/ r2 # Idle /\ OnTrack(r2, s2, w2, expected[q])
  PROVE  Outcome(q)
<1>1. /\ request \in [Requests -> AnyRequest] /\ row \in [Requests -> Sessions]
      /\ expected \in [Requests -> Sessions] /\ overlapped \in [Requests -> BOOLEAN]
  BY DEF IInv, Types
<1>2. /\ request'[q] = r2 /\ row'[q] = w2
      /\ \A p \in Requests : p # q => request'[p] = request[p] /\ row'[p] = row[p]
      /\ request' \in [Requests -> AnyRequest] /\ row' \in [Requests -> Sessions]
  BY <1>1
<1>3. /\ overlapped' \in [Requests -> BOOLEAN] /\ overlapped'[q] = overlapped[q]
      /\ \A p \in Requests : p # q =>
           (overlapped[p] => overlapped'[p]) /\ (session' = session \/ overlapped'[p])
  <2>1. CASE overlapped' = overlapped /\ s2 = session
    BY <1>1, <2>1
  <2>2. CASE overlapped' = [p \in Requests |-> overlapped[p] \/ (p # q /\ s2 # session)]
    <3>1. overlapped' \in [Requests -> BOOLEAN]
      BY <2>2
    <3>2. overlapped'[q] = overlapped[q]
      BY <1>1, <2>2
    <3>3. ASSUME NEW p \in Requests, p # q
          PROVE  (overlapped[p] => overlapped'[p]) /\ (session' = session \/ overlapped'[p])
      BY <2>2, <3>3
    <3> QED
      BY <3>1, <3>2, <3>3
  <2> QED
    BY <2>1, <2>2
<1>4. Types'
  BY <1>1, <1>2, <1>3 DEF Types
<1> QED
  BY <1>2, <1>3, <1>4 DEF Outcome

-----------------------------------------------------------------------------
(* The steps.                                                              *)

\* After the binding the stance is set, or it is the wanted one already.
LEMMA AfterBindLeads ==
  ASSUME IInv, NEW q \in Requests, NEW s, request[q].pc \in BindPcs, AfterBind(q, s)
  PROVE  \E r2 \in AnyRequest :
           /\ request' = [request EXCEPT ![q] = r2]
           /\ \/ r2 = Idle /\ (request[q].stance = None \/ request[q].stance = s.stance)
              \/ /\ r2 # Idle /\ r2.pc = "readStance" /\ r2.stance = request[q].stance
                 /\ request[q].stance # None
<1>1. request[q] \in AnyRequest
  BY DEF IInv, Types
<1>2. CASE request[q].stance # None /\ request[q].stance # s.stance
  <2> DEFINE r2 == [request[q] EXCEPT !.pc = "readStance"]
  <2>1. request' = [request EXCEPT ![q] = r2]
    BY <1>2 DEF AfterBind, Goto
  <2>2. "readStance" \in StancePcs
    BY DEF StancePcs
  <2>3. r2 \in AnyRequest /\ r2 # Idle /\ r2.pc = "readStance" /\ r2.stance = request[q].stance
    BY <1>1, <1>2, <2>2, Moves
  <2> QED
    BY <1>2, <2>1, <2>3
<1>3. CASE ~(request[q].stance # None /\ request[q].stance # s.stance)
  <2>1. request' = [request EXCEPT ![q] = Idle] /\ Idle \in AnyRequest
    BY <1>3 DEF AfterBind, Finish, AnyRequest
  <2> QED
    BY <1>3, <2>1
<1> QED
  BY <1>2, <1>3

LEMMA FindKeeps == ASSUME IInv, NEW q \in Requests, FindSession(q) PROVE Outcome(q)
<1> DEFINE r == request[q]
           s == session
           x == expected[q]
<1>1. /\ r \in AnyRequest /\ r \in Binding /\ r.pc = "find" /\ r.pc \in BindPcs
      /\ s \in Sessions /\ x \in Sessions
  BY Places DEF IInv, Types, FindSession, At, BindPcs
<1>2. /\ row' = [row EXCEPT ![q] = s] /\ session' = s /\ s = session /\ x = expected[q]
      /\ expected' = expected /\ overlapped' = overlapped
  BY DEF FindSession, ReadRow
<1>3. ~overlapped[q] => x = IF s = Absent THEN Created(r) ELSE Bound(r, s)
  BY <1>1 DEF IInv, OnTrack
<1>4. CASE s = Absent /\ Goto(q, "create")
  <2> DEFINE r2 == [r EXCEPT !.pc = "create"]
  <2>1. request' = [request EXCEPT ![q] = r2] /\ "create" \in BindPcs
    BY <1>4 DEF Goto, BindPcs
  <2>2. /\ r2 \in AnyRequest /\ r2 # Idle /\ r2.pc = "create"
        /\ r2.workspace = r.workspace /\ r2.stance = r.stance
    BY <1>1, <2>1, Moves
  <2>3. ~overlapped[q] => OnTrack(r2, s, s, x)
    BY <1>3, <1>4, <2>2 DEF OnTrack, Created
  <2> HIDE DEF r, s, x, r2
  <2> QED
    BY <1>1, <1>2, <2>1, <2>2, <2>3, Stepped
<1>5. CASE s # Absent /\ r.workspace # None /\ Goto(q, "bind")
  <2> DEFINE r2 == [r EXCEPT !.pc = "bind"]
  <2>1. request' = [request EXCEPT ![q] = r2] /\ "bind" \in BindPcs
    BY <1>5 DEF Goto, BindPcs
  <2>2. /\ r2 \in AnyRequest /\ r2 # Idle /\ r2.pc = "bind"
        /\ r2.workspace = r.workspace /\ r2.stance = r.stance
    BY <1>1, <2>1, Moves
  <2>3. ~overlapped[q] => OnTrack(r2, s, s, x)
    BY <1>3, <1>5, <2>2 DEF OnTrack, Bound, StanceOf
  <2> HIDE DEF r, s, x, r2
  <2> QED
    BY <1>1, <1>2, <1>5, <2>1, <2>2, <2>3, Stepped
<1>6. CASE s # Absent /\ r.workspace = None /\ AfterBind(q, s)
  <2>1. PICK r2 \in AnyRequest :
           /\ request' = [request EXCEPT ![q] = r2]
           /\ \/ r2 = Idle /\ (r.stance = None \/ r.stance = s.stance)
              \/ /\ r2 # Idle /\ r2.pc = "readStance" /\ r2.stance = r.stance
                 /\ r.stance # None
    BY <1>1, <1>6, AfterBindLeads
  <2>2. s \in Rows
    BY <1>1, <1>6 DEF Sessions
  <2>3. ~overlapped[q] => x = [s EXCEPT !.stance = IF r.stance = None THEN s.stance ELSE r.stance]
    BY <1>3, <1>6, <2>2 DEF Bound, StanceOf, Rows
  <2>4. CASE r2 = Idle
    <3>1. r.stance = None \/ r.stance = s.stance
      BY <2>1, <2>4
    <3>2. ~overlapped[q] => x = s
      BY <2>2, <2>3, <3>1 DEF Rows
    <3>3. r2.pc = "idle"
      BY <2>4 DEF Idle
    <3> HIDE DEF r, s, x
    <3> QED
      BY <1>1, <1>2, <2>1, <2>4, <3>2, <3>3, Stepped
  <2>5. CASE r2 # Idle
    <3>1. ~overlapped[q] => OnTrack(r2, s, s, x)
      BY <1>6, <2>1, <2>3, <2>5 DEF OnTrack
    <3> HIDE DEF r, s, x
    <3> QED
      BY <1>1, <1>2, <2>1, <2>5, <3>1, Stepped
  <2> QED
    BY <2>4, <2>5
<1> QED
  BY <1>4, <1>5, <1>6 DEF FindSession

LEMMA CreateKeeps == ASSUME IInv, NEW q \in Requests, CreateSession(q) PROVE Outcome(q)
<1> DEFINE r == request[q]
           s == session
           w == row[q]
           x == expected[q]
<1>1. /\ r \in AnyRequest /\ r \in Binding /\ r.pc = "create" /\ r.pc \in BindPcs
      /\ s \in Sessions /\ x \in Sessions /\ w \in Sessions
  BY Places DEF IInv, Types, CreateSession, At, BindPcs
<1>2. /\ row' = [row EXCEPT ![q] = w] /\ s = session /\ x = expected[q]
      /\ expected' = expected
  BY DEF CreateSession, Stored, IInv, Types
<1>3. ~overlapped[q] => s = Absent /\ x = Created(r)
  BY <1>1 DEF IInv, OnTrack
<1>4. CASE s = Absent /\ Stored(Created(r)) /\ Interfere(q, Created(r)) /\ Finish(q)
  <2> DEFINE s2 == Created(r)
  <2>1. /\ session' = s2 /\ request' = [request EXCEPT ![q] = Idle]
        /\ overlapped' = [p \in Requests |-> overlapped[p] \/ (p # q /\ s2 # session)]
    BY <1>4 DEF Stored, Interfere, Finish
  <2>2. s2 \in Sessions
    <3>1. (IF r.stance = None THEN "agent" ELSE r.stance) \in Stances
      BY <1>1 DEF Binding, Stances
    <3>2. r.workspace \in Workspaces \cup {None}
      BY <1>1 DEF Binding
    <3> QED
      BY <3>1, <3>2 DEF Created, Sessions, Rows
  <2>3. Idle \in AnyRequest /\ Idle.pc = "idle"
    BY DEF AnyRequest, Idle
  <2>4. ~overlapped[q] => s2 = x
    BY <1>3
  <2> HIDE DEF r, s, w, x, s2
  <2> QED
    BY <1>1, <1>2, <2>1, <2>2, <2>3, <2>4, Stepped
<1>5. CASE s # Absent /\ Goto(q, "find") /\ UNCHANGED <<session, row, expected, overlapped>>
  <2> DEFINE r2 == [r EXCEPT !.pc = "find"]
  <2>1. request' = [request EXCEPT ![q] = r2] /\ "find" \in BindPcs /\ session' = s
    BY <1>5 DEF Goto, BindPcs
  <2>2. r2 \in AnyRequest /\ r2.pc = "find"
    BY <1>1, <2>1, Moves
  <2>3. overlapped[q] /\ overlapped' = overlapped
    BY <1>3, <1>5
  <2> HIDE DEF r, s, w, x, r2
  <2> QED
    BY <1>1, <1>2, <2>1, <2>2, <2>3, Stepped
<1> QED
  BY <1>4, <1>5 DEF CreateSession, Created

LEMMA ReadToBindKeeps == ASSUME IInv, NEW q \in Requests, ReadToBind(q) PROVE Outcome(q)
<1> DEFINE r == request[q]
           s == session
           w == row[q]
           x == expected[q]
<1>1. /\ r \in AnyRequest /\ r \in Binding /\ r.pc = "bind" /\ r.pc \in BindPcs
      /\ s \in Sessions /\ x \in Sessions /\ w \in Sessions
  BY Places DEF IInv, Types, ReadToBind, At, BindPcs
<1>2. /\ s = session /\ x = expected[q] /\ w = row[q] /\ w # Absent
      /\ session' = s /\ expected' = expected /\ overlapped' = overlapped
  BY <1>1 DEF ReadToBind, IInv
<1>3. ~overlapped[q] => s # Absent /\ w = s /\ x = Bound(r, s)
  BY <1>1 DEF IInv, OnTrack
<1>4. CASE s.workspace # None /\ AfterBind(q, w) /\ UNCHANGED row
  <2>1. PICK r2 \in AnyRequest :
           /\ request' = [request EXCEPT ![q] = r2]
           /\ \/ r2 = Idle /\ (r.stance = None \/ r.stance = w.stance)
              \/ /\ r2 # Idle /\ r2.pc = "readStance" /\ r2.stance = r.stance
                 /\ r.stance # None
    BY <1>1, <1>4, AfterBindLeads
  <2>2. row' = [row EXCEPT ![q] = w]
    BY <1>4 DEF IInv, Types
  <2>3. ~overlapped[q] =>
          s \in Rows /\ x = [s EXCEPT !.stance = IF r.stance = None THEN s.stance ELSE r.stance]
    <3>1. s \in Rows \/ s = Absent
      BY <1>1 DEF Sessions
    <3> QED
      BY <1>3, <1>4, <3>1 DEF Bound, StanceOf, Rows
  <2>4. CASE r2 = Idle
    <3>1. r.stance = None \/ r.stance = w.stance
      BY <2>1, <2>4
    <3>2. ~overlapped[q] => x = s
      BY <1>3, <2>3, <3>1 DEF Rows
    <3>3. r2.pc = "idle"
      BY <2>4 DEF Idle
    <3> HIDE DEF r, s, w, x
    <3> QED
      BY <1>1, <1>2, <2>1, <2>2, <2>4, <3>2, <3>3, Stepped
  <2>5. CASE r2 # Idle
    <3>1. ~overlapped[q] => OnTrack(r2, s, w, x)
      BY <1>3, <2>1, <2>3, <2>5 DEF OnTrack
    <3> HIDE DEF r, s, w, x
    <3> QED
      BY <1>1, <1>2, <2>1, <2>2, <2>5, <3>1, Stepped
  <2> QED
    BY <2>4, <2>5
<1>5. CASE s.workspace = None /\ Goto(q, "writeWorkspace") /\ ReadRow(q)
  <2> DEFINE r2 == [r EXCEPT !.pc = "writeWorkspace"]
  <2>1. request' = [request EXCEPT ![q] = r2] /\ "writeWorkspace" \in BindPcs
    BY <1>5 DEF Goto, BindPcs
  <2>2. /\ r2 \in AnyRequest /\ r2 # Idle /\ r2.pc = "writeWorkspace"
        /\ r2.workspace = r.workspace /\ r2.stance = r.stance
    BY <1>1, <2>1, Moves
  <2>3. row' = [row EXCEPT ![q] = s] /\ s # Absent
    BY <1>5 DEF ReadRow, Absent, None
  <2>4. ~overlapped[q] => OnTrack(r2, s, s, x)
    BY <1>3, <1>5, <2>2, <2>3 DEF OnTrack, Bound, StanceOf
  <2> HIDE DEF r, s, w, x, r2
  <2> QED
    BY <1>1, <1>2, <2>1, <2>2, <2>3, <2>4, Stepped
<1> QED
  BY <1>4, <1>5 DEF ReadToBind

LEMMA WriteWorkspaceKeeps == ASSUME IInv, NEW q \in Requests, WriteWorkspace(q) PROVE Outcome(q)
<1> DEFINE r == request[q]
           s == session
           w == row[q]
           x == expected[q]
           s2 == [w EXCEPT !.workspace = r.workspace]
<1>1. /\ r \in AnyRequest /\ r \in Binding /\ r.pc = "writeWorkspace" /\ r.pc \in BindPcs
      /\ s \in Sessions /\ x \in Sessions /\ w \in Sessions
  BY Places DEF IInv, Types, WriteWorkspace, At, BindPcs
<1>2. /\ s = session /\ x = expected[q] /\ w = row[q] /\ w # Absent /\ w \in Rows
      /\ session' = s2 /\ expected' = expected /\ row' = [row EXCEPT ![q] = w]
      /\ overlapped' = [p \in Requests |-> overlapped[p] \/ (p # q /\ s2 # session)]
  BY <1>1 DEF WriteWorkspace, WriteField, Encode, Stored, Interfere, IInv, Types, Sessions
<1>3. ~overlapped[q] => w = s /\ s.workspace = None /\ x = Bound(r, s)
  BY <1>1 DEF IInv, OnTrack
<1>4. s2 \in Rows /\ s2 # Absent /\ s2 \in Sessions
  <2>1. r.workspace \in Workspaces \cup {None}
    BY <1>1 DEF Binding
  <2> QED
    BY <1>2, <2>1, Written, RowsExist DEF Sessions
<1>5. PICK r2 \in AnyRequest :
        /\ request' = [request EXCEPT ![q] = r2]
        /\ \/ r2 = Idle /\ (r.stance = None \/ r.stance = w.stance)
           \/ /\ r2 # Idle /\ r2.pc = "readStance" /\ r2.stance = r.stance
              /\ r.stance # None
  BY <1>1, AfterBindLeads DEF WriteWorkspace
<1>6. ~overlapped[q] =>
        x = [s2 EXCEPT !.stance = IF r.stance = None THEN w.stance ELSE r.stance]
  BY <1>2, <1>3 DEF Bound, StanceOf, Rows
<1>7. CASE r2 = Idle
  <2>1. r.stance = None \/ r.stance = w.stance
    BY <1>5, <1>7
  <2>2. s2.stance = w.stance
    BY <1>2 DEF Rows
  <2>3. ~overlapped[q] => x = s2
    BY <1>4, <1>6, <2>1, <2>2 DEF Rows
  <2>4. r2.pc = "idle"
    BY <1>7 DEF Idle
  <2> HIDE DEF r, s, w, x, s2
  <2> QED
    BY <1>1, <1>2, <1>4, <1>5, <1>7, <2>3, <2>4, Stepped
<1>8. CASE r2 # Idle
  <2>1. ~overlapped[q] => OnTrack(r2, s2, w, x)
    BY <1>4, <1>5, <1>6, <1>8 DEF OnTrack
  <2> HIDE DEF r, s, w, x, s2
  <2> QED
    BY <1>1, <1>2, <1>4, <1>5, <1>8, <2>1, Stepped
<1> QED
  BY <1>7, <1>8

LEMMA ReadToSetKeeps == ASSUME IInv, NEW q \in Requests, ReadToSet(q) PROVE Outcome(q)
<1> DEFINE r == request[q]
           s == session
           x == expected[q]
<1>1. r \in AnyRequest /\ r.pc \in {"readModel", "readStance"} /\ s \in Sessions /\ x \in Sessions
  BY DEF IInv, Types, ReadToSet, At
<1>2. /\ row' = [row EXCEPT ![q] = s] /\ session' = s /\ s = session /\ x = expected[q]
      /\ expected' = expected /\ overlapped' = overlapped
  BY DEF ReadToSet, ReadRow
<1>3. CASE s = Absent /\ Finish(q)
  <2>1. request' = [request EXCEPT ![q] = Idle] /\ Idle \in AnyRequest /\ Idle.pc = "idle"
    BY <1>3 DEF Finish, AnyRequest, Idle
  <2>2. ~overlapped[q] => s = x
    BY <1>1, <1>3 DEF OnTrack, IInv
  <2> HIDE DEF r, s, x
  <2> QED
    BY <1>1, <1>2, <2>1, <2>2, Stepped
<1>4. CASE s # Absent /\ r.pc = "readModel" /\ Goto(q, "writeModel")
  <2> DEFINE r2 == [r EXCEPT !.pc = "writeModel"]
  <2>1. request' = [request EXCEPT ![q] = r2] /\ r.pc \in ModelPcs /\ "writeModel" \in ModelPcs
    BY <1>4 DEF Goto, ModelPcs
  <2>2. r2 \in AnyRequest /\ r2 # Idle /\ r2.pc = "writeModel" /\ r2.model = r.model
    BY <1>1, <2>1, Moves
  <2>3. ~overlapped[q] => OnTrack(r2, s, s, x)
    BY <1>1, <1>4, <2>2 DEF OnTrack, IInv
  <2> HIDE DEF r, s, x, r2
  <2> QED
    BY <1>1, <1>2, <1>4, <2>1, <2>2, <2>3, Stepped
<1>5. CASE s # Absent /\ r.pc = "readStance" /\ Goto(q, "writeStance")
  <2> DEFINE r2 == [r EXCEPT !.pc = "writeStance"]
  <2>1. request' = [request EXCEPT ![q] = r2] /\ r.pc \in StancePcs /\ "writeStance" \in StancePcs
    BY <1>5 DEF Goto, StancePcs
  <2>2. r2 \in AnyRequest /\ r2 # Idle /\ r2.pc = "writeStance" /\ r2.stance = r.stance
    BY <1>1, <2>1, Moves
  <2>3. ~overlapped[q] => OnTrack(r2, s, s, x)
    BY <1>1, <1>5, <2>2 DEF OnTrack, IInv
  <2> HIDE DEF r, s, x, r2
  <2> QED
    BY <1>1, <1>2, <1>5, <2>1, <2>2, <2>3, Stepped
<1> QED
  BY <1>1, <1>3, <1>4, <1>5 DEF ReadToSet, At

LEMMA WriteModelKeeps == ASSUME IInv, NEW q \in Requests, WriteModel(q) PROVE Outcome(q)
<1> DEFINE r == request[q]
           s == session
           w == row[q]
           x == expected[q]
           s2 == [w EXCEPT !.model = r.model]
<1>1. /\ r \in AnyRequest /\ r.pc = "writeModel" /\ r.model \in Preferences \cup {None}
      /\ s \in Sessions /\ x \in Sessions /\ w \in Sessions
  BY Places DEF IInv, Types, WriteModel, At, ModelPcs, Modelling
<1>2. /\ s = session /\ x = expected[q] /\ w = row[q] /\ w # Absent /\ w \in Rows
      /\ session' = s2 /\ expected' = expected /\ row' = [row EXCEPT ![q] = w]
      /\ overlapped' = [p \in Requests |-> overlapped[p] \/ (p # q /\ s2 # session)]
      /\ request' = [request EXCEPT ![q] = Idle]
  BY <1>1 DEF WriteModel, WriteField, Encode, Stored, Interfere, Finish, IInv, Types, Sessions
<1>3. ~overlapped[q] => x = s2
  BY <1>1 DEF IInv, OnTrack
<1>4. s2 \in Sessions
  BY <1>1, <1>2, Written DEF Sessions
<1>5. Idle \in AnyRequest /\ Idle.pc = "idle"
  BY DEF AnyRequest, Idle
<1> HIDE DEF r, s, w, x, s2
<1> QED
  BY <1>1, <1>2, <1>3, <1>4, <1>5, Stepped

LEMMA WriteStanceKeeps == ASSUME IInv, NEW q \in Requests, WriteStance(q) PROVE Outcome(q)
<1> DEFINE r == request[q]
           s == session
           w == row[q]
           x == expected[q]
           s2 == [w EXCEPT !.stance = r.stance]
<1>1. /\ r \in AnyRequest /\ r.pc = "writeStance" /\ r.stance \in Stances
      /\ s \in Sessions /\ x \in Sessions /\ w \in Sessions
  BY Places DEF IInv, Types, WriteStance, At, StancePcs, Posing
<1>2. /\ s = session /\ x = expected[q] /\ w = row[q] /\ w # Absent /\ w \in Rows
      /\ session' = s2 /\ expected' = expected /\ row' = [row EXCEPT ![q] = w]
      /\ overlapped' = [p \in Requests |-> overlapped[p] \/ (p # q /\ s2 # session)]
      /\ request' = [request EXCEPT ![q] = Idle]
  BY <1>1 DEF WriteStance, WriteField, Encode, Stored, Interfere, Finish, IInv, Types, Sessions
<1>3. ~overlapped[q] => x = s2
  BY <1>1 DEF IInv, OnTrack
<1>4. s2 \in Sessions
  BY <1>1, <1>2, Written DEF Sessions
<1>5. Idle \in AnyRequest /\ Idle.pc = "idle"
  BY DEF AnyRequest, Idle
<1> HIDE DEF r, s, w, x, s2
<1> QED
  BY <1>1, <1>2, <1>3, <1>4, <1>5, Stepped

\* Every step of a request has such an outcome.
LEMMA StepOutcome == ASSUME IInv, NEW q \in Requests, Step(q) PROVE Outcome(q)
BY FindKeeps, CreateKeeps, ReadToBindKeeps, WriteWorkspaceKeeps, ReadToSetKeeps,
   WriteModelKeeps, WriteStanceKeeps DEF Step

-----------------------------------------------------------------------------
(* The invariant.                                                          *)

\* Whatever the step, its outcome keeps the invariant.
LEMMA StepKeeps == ASSUME IInv, NEW q \in Requests, Outcome(q) PROVE IInv'
<1>1. Types'
  BY DEF Outcome
<1>2. ASSUME NEW p \in Requests, ~overlapped'[p]
      PROVE  OnTrack(request'[p], session', row'[p], expected'[p])
  <2>1. CASE p = q
    <3>1. CASE request'[q] = Idle
      BY <2>1, <3>1 DEF OnTrack, Idle
    <3>2. CASE request'[q] # Idle
      BY <1>2, <2>1, <3>2 DEF Outcome
    <3> QED
      BY <3>1, <3>2
  <2>2. CASE p # q
    BY <1>2, <2>2 DEF Outcome, IInv
  <2> QED
    BY <2>1, <2>2
<1>3. \A p \in Requests :
        request'[p].pc \in {"bind", "writeWorkspace", "writeModel", "writeStance"} => row'[p] # Absent
  BY DEF Outcome, IInv
<1> QED
  BY <1>1, <1>2, <1>3 DEF IInv

LEMMA BeginKeeps == ASSUME IInv, NEW q \in Requests, Begin(q) PROVE IInv'
<1>1. PICK r \in Submissions \cup ModelRequests \cup StanceRequests :
        /\ request' = [request EXCEPT ![q] = r]
        /\ expected' = [expected EXCEPT ![q] = Wanted(r, session)]
  BY DEF Begin
<1>2. overlapped' = [overlapped EXCEPT ![q] = FALSE] /\ session' = session /\ row' = row
  BY DEF Begin
<1>3. r \in AnyRequest
  BY DEF Submissions, ModelRequests, StanceRequests, AnyRequest, Binding, Modelling, Posing,
         BindPcs, ModelPcs, StancePcs
<1>4. r.pc \in {"find", "readModel", "readStance"}
  BY DEF Submissions, ModelRequests, StanceRequests
<1>5. session \in Sessions /\ (session # Absent => session \in Rows)
  BY DEF IInv, Types, Sessions
<1>6. Wanted(r, session) \in Sessions /\ OnTrack(r, session, row[q], Wanted(r, session))
  <2>1. CASE r.pc = "find"
    <3>1. /\ r \in Binding
          /\ Wanted(r, session) = IF session = Absent THEN Created(r) ELSE Bound(r, session)
      BY <1>3, <2>1, Places DEF Wanted, Created, Bound, StanceOf, BindPcs
    <3>2. CASE session = Absent
      BY <2>1, <3>1, <3>2 DEF OnTrack, Created, Binding, Sessions, Rows, Stances
    <3>3. CASE session # Absent
      BY <1>5, <2>1, <3>1, <3>3 DEF OnTrack, Bound, StanceOf, Binding, Sessions, Rows
    <3> QED
      BY <3>2, <3>3
  <2>2. CASE r.pc = "readModel"
    <3>1. /\ r \in Modelling
          /\ Wanted(r, session) = IF session = Absent THEN session ELSE [session EXCEPT !.model = r.model]
      BY <1>3, <2>2, Places DEF Wanted, ModelPcs
    <3> QED
      BY <1>5, <2>2, <3>1, Written DEF OnTrack, Modelling, Sessions
  <2>3. CASE r.pc = "readStance"
    <3>1. /\ r.stance \in Stances
          /\ Wanted(r, session) = IF session = Absent THEN session ELSE [session EXCEPT !.stance = r.stance]
      BY <1>3, <2>3, Places DEF Wanted, StancePcs
    <3> QED
      BY <1>5, <2>3, <3>1, Written DEF OnTrack, Sessions
  <2> QED
    BY <1>4, <2>1, <2>2, <2>3
<1>7. Types'
  BY <1>1, <1>2, <1>3, <1>6 DEF IInv, Types
<1>8. ASSUME NEW p \in Requests, ~overlapped'[p]
      PROVE  OnTrack(request'[p], session', row'[p], expected'[p])
  <2>1. CASE p = q
    BY <1>1, <1>2, <1>6, <2>1 DEF IInv, Types
  <2>2. CASE p # q
    BY <1>1, <1>2, <1>8, <2>2 DEF IInv, Types
  <2> QED
    BY <2>1, <2>2
<1>9. \A p \in Requests :
        request'[p].pc \in {"bind", "writeWorkspace", "writeModel", "writeStance"} => row'[p] # Absent
  BY <1>1, <1>2, <1>4 DEF IInv, Types
<1> QED
  BY <1>7, <1>8, <1>9 DEF IInv

LEMMA AbandonKeeps == ASSUME IInv, NEW q \in Requests, Abandon(q) PROVE IInv'
<1>1. /\ request' = [request EXCEPT ![q] = Idle]
      /\ UNCHANGED <<session, row, expected, overlapped>>
  BY DEF Abandon, Finish
<1>2. Idle \in AnyRequest /\ Idle.pc = "idle"
  BY DEF AnyRequest, Idle
<1>3. Types'
  BY <1>1, <1>2 DEF IInv, Types
<1>4. ASSUME NEW p \in Requests, ~overlapped'[p]
      PROVE  OnTrack(request'[p], session', row'[p], expected'[p])
  <2>1. CASE p = q
    <3>1. request'[p].pc = "idle"
      BY <1>1, <1>2, <2>1 DEF IInv, Types
    <3> QED
      BY <3>1 DEF OnTrack
  <2>2. CASE p # q
    BY <1>1, <1>4, <2>2 DEF IInv, Types
  <2> QED
    BY <2>1, <2>2
<1>5. \A p \in Requests :
        request'[p].pc \in {"bind", "writeWorkspace", "writeModel", "writeStance"} => row'[p] # Absent
  BY <1>1, <1>2 DEF IInv, Types
<1> QED
  BY <1>3, <1>4, <1>5 DEF IInv

\* The rest of every request, done to the session as it is, yields what is
\* expected, unless somebody interfered.
THEOREM Invariant == Spec => []IInv
<1>1. Init => IInv
  BY DEF Init, IInv, Types, Sessions, AnyRequest, Idle, OnTrack
<1>2. IInv /\ [Next]_vars => IInv'
  <2> SUFFICES ASSUME IInv, [Next]_vars PROVE IInv'
    OBVIOUS
  <2>1. ASSUME NEW q \in Requests, Begin(q) \/ Step(q) \/ Abandon(q) PROVE IInv'
    BY <2>1, BeginKeeps, StepOutcome, StepKeeps, AbandonKeeps
  <2>2. UNCHANGED vars => IInv'
    BY DEF vars, IInv, Types
  <2> QED
    BY <2>1, <2>2 DEF Next
<1> QED
  BY <1>1, <1>2, PTL DEF Spec

\* sessionMetadataEncode and ensureSession: a request nobody interferes with does
\* what it asks for and carries over the other fields.
THEOREM RequestsDoWhatIsAsked == Spec => DoesWhatIsAsked
<1>1. IInv /\ [Next]_vars =>
        [\A q \in Requests :
           (Step(q) /\ request'[q] = Idle /\ ~overlapped[q]) => session' = expected[q]]_vars
  <2> SUFFICES ASSUME IInv, NEW q \in Requests, Step(q), request'[q] = Idle, ~overlapped[q]
               PROVE  session' = expected[q]
    OBVIOUS
  <2> QED
    BY StepOutcome DEF Outcome
<1> QED
  BY <1>1, Invariant, PTL DEF Spec, DoesWhatIsAsked

=============================================================================
