-------------------------- MODULE SessionMetadata --------------------------
(***************************************************************************)
(* The metadata column of one session: workspace, preferred model and      *)
(* permission stance.  Submissions create the session, bind its workspace  *)
(* and set its stance (tasksubmission.ensureSession); clients set its      *)
(* model and its stance.  Every change rewrites the whole column from a    *)
(* row read in an earlier statement, outside any transaction.              *)
(***************************************************************************)
EXTENDS Naturals

CONSTANTS
  Requests,      \* submissions and client requests about the session
  Workspaces, Preferences

VARIABLES
  session,       \* the metadata of the row, or Absent
  request,       \* where each request is and what it asks for
  row,           \* the row it read last
  expected,      \* ghost: what the session is if only this request changed it
  overlapped     \* ghost: somebody else changed it meanwhile

vars == <<session, request, row, expected, overlapped>>

-----------------------------------------------------------------------------

None == "none"
Absent == [workspace |-> "absent"]
Stances == {"agent", "auto"}
Rows == [workspace : Workspaces \cup {None}, model : Preferences \cup {None}, stance : Stances]

\* A submission may name a workspace and a stance; a client names one field.
Submissions == [pc : {"find"}, workspace : Workspaces \cup {None}, stance : Stances \cup {None}]
ModelRequests == [pc : {"readModel"}, model : Preferences \cup {None}]
StanceRequests == [pc : {"readStance"}, stance : Stances]
Idle == [pc |-> "idle"]

At(q, pc) == request[q].pc = pc
Goto(q, pc) == request' = [request EXCEPT ![q].pc = pc]
Finish(q) == request' = [request EXCEPT ![q] = Idle]
ReadRow(q) == row' = [row EXCEPT ![q] = session]

Init ==
  /\ session = Absent
  /\ request = [q \in Requests |-> Idle]
  /\ row = [q \in Requests |-> Absent]
  /\ expected = [q \in Requests |-> Absent]
  /\ overlapped = [q \in Requests |-> FALSE]

\* What the request asks for, done at once: the first workspace stays.
Wanted(r, s) ==
  CASE r.pc = "readModel" -> IF s = Absent THEN s ELSE [s EXCEPT !.model = r.model]
    [] r.pc = "readStance" -> IF s = Absent THEN s ELSE [s EXCEPT !.stance = r.stance]
    [] r.pc = "find" ->
         IF s = Absent
         THEN [workspace |-> r.workspace, model |-> None,
               stance |-> IF r.stance = None THEN "agent" ELSE r.stance]
         ELSE [s EXCEPT !.workspace = IF @ = None THEN r.workspace ELSE @,
                        !.stance = IF r.stance = None THEN @ ELSE r.stance]

Begin(q) ==
  /\ At(q, "idle")
  /\ \E r \in Submissions \cup ModelRequests \cup StanceRequests :
       /\ request' = [request EXCEPT ![q] = r]
       /\ expected' = [expected EXCEPT ![q] = Wanted(r, session)]
  /\ overlapped' = [overlapped EXCEPT ![q] = FALSE]
  /\ UNCHANGED <<session, row>>

\* A caller that goes away cancels the context of the statements to come.
Abandon(q) ==
  /\ ~At(q, "idle")
  /\ Finish(q)
  /\ UNCHANGED <<session, row, expected, overlapped>>

-----------------------------------------------------------------------------
(* Statements of a submission.                                             *)

\* The stance is compared with the row that was read first.
AfterBind(q, s) ==
  IF request[q].stance # None /\ request[q].stance # s.stance
  THEN Goto(q, "readStance") ELSE Finish(q)

FindSession(q) ==
  /\ At(q, "find")
  /\ ReadRow(q)
  /\ \/ session = Absent /\ Goto(q, "create")
     \/ session # Absent /\ request[q].workspace # None /\ Goto(q, "bind")
     \/ session # Absent /\ request[q].workspace = None /\ AfterBind(q, session)
  /\ UNCHANGED <<session, expected, overlapped>>

Stored(s) ==
  /\ session' = s
  /\ UNCHANGED <<row, expected>>

Interfere(q, s) ==
  overlapped' = [p \in Requests |-> overlapped[p] \/ (p # q /\ s # session)]

\* An empty stance creates the session as agent; one who comes second reads again.
CreateSession(q) ==
  /\ At(q, "create")
  /\ \/ /\ session = Absent
        /\ LET s == [workspace |-> request[q].workspace, model |-> None,
                     stance |-> IF request[q].stance = None THEN "agent" ELSE request[q].stance]
           IN Stored(s) /\ Interfere(q, s)
        /\ Finish(q)
     \/ /\ session # Absent
        /\ Goto(q, "find")
        /\ UNCHANGED <<session, row, expected, overlapped>>

\* EnsureSessionWorkspace reads the row itself and leaves a bound one alone.
ReadToBind(q) ==
  /\ At(q, "bind")
  /\ \/ session.workspace # None /\ AfterBind(q, row[q]) /\ UNCHANGED row
     \/ session.workspace = None /\ Goto(q, "writeWorkspace") /\ ReadRow(q)
  /\ UNCHANGED <<session, expected, overlapped>>

-----------------------------------------------------------------------------
(* Statements that change a field.                                         *)

\* Mutant: the preferred model is not carried over.
EncodeForgetful(s, f, v) ==
  IF f = "stance" THEN [s EXCEPT !.stance = v, !.model = None] ELSE [s EXCEPT ![f] = v]

\* sessionMetadataEncode: the fields of the row that was read, one replaced.
Encode(s, f, v) == [s EXCEPT ![f] = v]

WriteField(q, f, v) ==
  LET s == Encode(row[q], f, v) IN Stored(s) /\ Interfere(q, s)

WriteWorkspace(q) ==
  /\ At(q, "writeWorkspace")
  /\ WriteField(q, "workspace", request[q].workspace)
  /\ AfterBind(q, row[q])

\* SetSessionPreferredModel and SetSessionPermissionStance fail without a row.
ReadToSet(q) ==
  /\ At(q, "readModel") \/ At(q, "readStance")
  /\ ReadRow(q)
  /\ \/ session = Absent /\ Finish(q)
     \/ session # Absent /\ Goto(q, IF At(q, "readModel") THEN "writeModel" ELSE "writeStance")
  /\ UNCHANGED <<session, expected, overlapped>>

WriteModel(q) ==
  /\ At(q, "writeModel")
  /\ WriteField(q, "model", request[q].model)
  /\ Finish(q)

WriteStance(q) ==
  /\ At(q, "writeStance")
  /\ WriteField(q, "stance", request[q].stance)
  /\ Finish(q)

Step(q) ==
  \/ FindSession(q) \/ CreateSession(q) \/ ReadToBind(q) \/ WriteWorkspace(q)
  \/ ReadToSet(q) \/ WriteModel(q) \/ WriteStance(q)

Next == \E q \in Requests : Begin(q) \/ Step(q) \/ Abandon(q)

Spec == Init /\ [][Next]_vars

=============================================================================
