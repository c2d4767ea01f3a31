--------------------------- MODULE ToolCallProofs ---------------------------
(***************************************************************************)
(* Proofs about ToolCall, for any number of attempts, call ids, runs and   *)
(* people.  The inductive invariant says how far the permission (AskInv)   *)
(* and the question (QuestionInv) of an attempt have got, that the row of  *)
(* a call belongs to one attempt and tells how it ends (RowInv), and what  *)
(* a call was charged to (ChargeInv).                                      *)
(***************************************************************************)
EXTENDS ToolCallProperties, FiniteSetTheorems, TLAPS

\* An attempt that inserted the row of its call, and has not lost its process.
Started == RunningPcs \cup {"returned", "unfiled"}

\* How far attempt a's permission has got: it is asked for once, a decision never
\* changes, and whoever has it in hand has the recorded one.
AskOf(a) ==
  /\ pc[a] \in {"idle", "register", "insert"} => perm[a] = "none"
  /\ got[a] = "nothing" /\ pc[a] = "authorize" => perm[a] = "none"
  /\ pc[a] \in {"idle"} \cup AskingPcs => got[a] = "nothing"
  /\ got[a] \in Decisions => perm[a] = got[a]
  /\ waiter[a] \in Decisions => perm[a] = waiter[a]
  /\ pc[a] \in {"insert", "look", "open", "wait"} => waiter[a] # "none"
  /\ pc[a] \in {"look", "open", "wait"} /\ perm[a] \in Decisions =>
       waiter[a] = perm[a] \/ \E k \in Deciders : decider[k] = <<"notify", a, perm[a]>>

AskInv ==
  /\ \A a \in Attempts : AskOf(a)
  /\ \A k \in Deciders : Place(k) = "notify" => perm[Asked(k)] = Choice(k)

\* The same of its question.
Unasked == {"idle", "authorize", "running", "qinsert"} \cup AskingPcs

QuestionOf(a) ==
  /\ pc[a] \in Unasked => question[a] = "none"
  /\ pc[a] \in Unasked \cup {"qregister", "qwait"} => heard[a] = "nothing"
  /\ qwaiter[a] \in Choices => question[a] = qwaiter[a]

QuestionInv ==
  /\ \A a \in Interactive : QuestionOf(a)
  /\ \A k \in Answerers :
       answerer[k][1] = "notify" => question[answerer[k][2]] = answerer[k][3]

\* The row of a call belongs to the one attempt that inserted it.
RowOf(a) ==
  /\ pc[a] \in Started => callState[CallOf[a]] # "none"
  /\ pc[a] \in {"finish", "returned", "unfiled"} => outcome[a] \in Outcomes
  /\ swept[a] => pc[a] \in {"denied", "returned", "unfiled"}
  /\ pc[a] = "returned" => callState[CallOf[a]] = outcome[a]
  /\ pc[a] \in RunningPcs \cup {"unfiled"} => callState[CallOf[a]] \in {"running", "cancelled"}
  /\ (pc[a] = "unfiled" /\ swept[a]) => callState[CallOf[a]] = "cancelled"

RowInv ==
  /\ \A a \in Attempts : RowOf(a)
  /\ \A a, b \in Attempts :
       pc[a] \in Started /\ pc[b] \in Started /\ CallOf[a] = CallOf[b] => a = b

\* Only a call with a row is charged, and to a grant it was allowed to use.
ChargeInv ==
  /\ \A c \in CallIds : charged[c] # NoGrant => callState[c] # "none"
  /\ RanAsAllowed

IInv == TypeOK /\ AskInv /\ QuestionInv /\ RowInv /\ ChargeInv


-----------------------------------------------------------------------------
(* What keeps a part of the invariant: an attempt that did not move keeps  *)
(* its own, so a step is only looked at where it changes something.        *)

\* The asking part, of a step that leaves an attempt alone or keeps its AskOf.
LEMMA AskFrame ==
  ASSUME TypeOK, AskInv, UNCHANGED decider,
         \A b \in Attempts :
           \/ pc'[b] = pc[b] /\ got'[b] = got[b] /\ perm'[b] = perm[b] /\ waiter'[b] = waiter[b]
           \/ AskOf(b)' /\ (perm'[b] = perm[b] \/ perm[b] \notin Decisions)
  PROVE  AskInv'
<1>1. ASSUME NEW b \in Attempts PROVE AskOf(b)'
  <2>1. CASE pc'[b] = pc[b] /\ got'[b] = got[b] /\ perm'[b] = perm[b] /\ waiter'[b] = waiter[b]
    BY <2>1 DEF AskInv, AskOf
  <2> QED
    BY <2>1
<1>2. ASSUME NEW k \in Deciders, Place(k)' = "notify" PROVE (perm[Asked(k)] = Choice(k))'
  <2>1. Asked(k) \in Attempts /\ Choice(k) \in Decisions /\ perm[Asked(k)] = Choice(k)
    BY <1>2 DEF TypeOK, AskInv, Place, Asked, Choice, Idle
  <2> QED
    BY <2>1 DEF Asked, Choice
<1> QED
  BY <1>1, <1>2 DEF AskInv

\* A request that is not about to notify moves on, or starts.
LEMMA DeciderFrame ==
  ASSUME TypeOK, AskInv, NEW k \in Deciders, Place(k) # "notify",
         NEW x \in {Idle} \cup ((DeciderPcs \ {"notify"}) \X Attempts \X Decisions),
         decider' = [decider EXCEPT ![k] = x],
         UNCHANGED <<pc, perm, waiter, got>>
  PROVE  /\ AskInv'
         /\ decider' \in [Deciders -> {Idle} \cup (DeciderPcs \X Attempts \X Decisions)]
<1>1. x[1] # "notify"
  BY DEF Idle, DeciderPcs
<1>2. \A h \in Deciders : decider'[h] = IF h = k THEN x ELSE decider[h]
  BY DEF TypeOK
<1>3. ASSUME NEW b \in Attempts PROVE AskOf(b)'
  <2>1. AskOf(b)
    BY DEF AskInv
  <2>2. ASSUME NEW h \in Deciders, decider[h] = <<"notify", b, perm[b]>>
        PROVE  decider'[h] = <<"notify", b, perm[b]>>
    BY <1>2, <2>2 DEF Place
  <2> QED
    BY <2>1, <2>2 DEF AskOf
<1>4. ASSUME NEW h \in Deciders, Place(h)' = "notify" PROVE (perm[Asked(h)] = Choice(h))'
  BY <1>1, <1>2, <1>4 DEF AskInv, Place, Asked, Choice
<1>5. x \in {Idle} \cup (DeciderPcs \X Attempts \X Decisions)
  OBVIOUS
<1> QED
  BY <1>3, <1>4, <1>5 DEF AskInv, TypeOK

\* The same of the questions.
LEMMA QuestionFrame ==
  ASSUME TypeOK, QuestionInv, UNCHANGED answerer,
         \A b \in Interactive :
           \/ pc'[b] = pc[b] /\ heard'[b] = heard[b] /\ question'[b] = question[b] /\ qwaiter'[b] = qwaiter[b]
           \/ QuestionOf(b)' /\ (question'[b] = question[b] \/ question[b] \notin Choices)
  PROVE  QuestionInv'
<1>1. ASSUME NEW b \in Interactive PROVE QuestionOf(b)'
  <2>1. CASE pc'[b] = pc[b] /\ heard'[b] = heard[b] /\ question'[b] = question[b] /\ qwaiter'[b] = qwaiter[b]
    BY <2>1 DEF QuestionInv, QuestionOf
  <2> QED
    BY <2>1
<1>2. ASSUME NEW k \in Answerers, answerer'[k][1] = "notify"
      PROVE  question'[answerer'[k][2]] = answerer'[k][3]
  <2>1. /\ answerer[k][2] \in Interactive /\ answerer[k][3] \in Choices
        /\ question[answerer[k][2]] = answerer[k][3]
    BY <1>2 DEF TypeOK, QuestionInv, NoAnswer
  <2> QED
    BY <2>1
<1> QED
  BY <1>1, <1>2 DEF QuestionInv

\* The same of the tool_calls rows.
LEMMA RowFrame ==
  ASSUME TypeOK, RowInv, UNCHANGED callState,
         \A b \in Attempts :
           \/ pc'[b] = pc[b] /\ outcome'[b] = outcome[b] /\ swept'[b] = swept[b]
           \/ RowOf(b)' /\ (pc'[b] \in Started => pc[b] \in Started)
  PROVE  RowInv'
<1>1. ASSUME NEW b \in Attempts PROVE RowOf(b)' /\ (pc'[b] \in Started => pc[b] \in Started)
  <2>1. CASE pc'[b] = pc[b] /\ outcome'[b] = outcome[b] /\ swept'[b] = swept[b]
    BY <2>1 DEF RowInv, RowOf
  <2> QED
    BY <2>1
<1> QED
  BY <1>1 DEF RowInv

\* The same of the tools that run.
LEMMA ChargeFrame ==
  ASSUME TypeOK, ChargeInv, UNCHANGED rowVars,
         \A b \in Attempts :
           /\ (pc'[b] \in RunningPcs => pc[b] \in RunningPcs /\ tool'[b] = tool[b])
           /\ (perm'[b] = perm[b] \/ perm[b] \notin Decisions)
  PROVE  ChargeInv'
<1>1. ASSUME NEW c \in CallIds, charged[c] \in PermGrants
      PROVE  perm'[charged[c][1]] = charged[c][2]
  BY <1>1 DEF ChargeInv, RanAsAllowed, PermGrants, Decisions
<1> QED
  BY <1>1, ToolCallAssumption DEF ChargeInv, RanAsAllowed, rowVars

-----------------------------------------------------------------------------

\* What RecordStart does to an attempt that is being authorized: it becomes the
\* one that runs the call, or it is denied.
LEMMA RecordStartInv ==
  ASSUME IInv, NEW a \in Attempts, NEW g \in Grants \cup {NoGrant},
         pc[a] = "authorize", RecordStart(a, g),
         tool[a] \in NeedsApproval => g # NoGrant,
         g \in PermGrants => g[1] = a /\ perm[a] = g[2],
         UNCHANGED <<permVars, grant, decider, userQuestionVars, tool, got, heard,
                     outcome, contextVars>>
  PROVE  IInv'
<1> DEFINE c == CallOf[a]
<1>0. c \in CallIds
  BY ToolCallAssumption
<1>1. CASE /\ callState[c] = "none"
           /\ callState' = [callState EXCEPT ![c] = "running"]
           /\ charged' = [charged EXCEPT ![c] = g]
           /\ used' = IF g = NoGrant THEN used ELSE [used EXCEPT ![g] = @ + 1]
           /\ Goto(a, "running")
  <2>0. pc' = [pc EXCEPT ![a] = "running"] /\ pc'[a] = "running"
    BY <1>1 DEF Goto, IInv, TypeOK
  <2>1. TypeOK'
    <3>1. used' \in [Grants -> Nat]
      BY <1>1 DEF IInv, TypeOK
    <3>2. charged' \in [CallIds -> Grants \cup {NoGrant}]
      BY <1>1 DEF IInv, TypeOK
    <3>3. callState' \in [CallIds -> Outcomes \cup {"none", "running"}]
      BY <1>1 DEF IInv, TypeOK
    <3>4. pc' \in [Attempts -> AttemptPcs]
      BY <2>0 DEF IInv, TypeOK, AttemptPcs, RunningPcs
    <3> QED
      BY <3>1, <3>2, <3>3, <3>4 DEF IInv, TypeOK, permVars, userQuestionVars,
          questionVars, contextVars
  <2>2. AskInv'
    <3>1. AskOf(a)'
      BY <2>0 DEF IInv, AskInv, AskOf, AskingPcs, permVars
    <3> QED
      BY <2>0, <3>1, AskFrame DEF IInv, TypeOK, permVars
  <2>3. QuestionInv'
    <3>1. a \in Interactive => QuestionOf(a)'
      BY <2>0 DEF IInv, QuestionInv, QuestionOf, Unasked, AskingPcs, userQuestionVars,
          questionVars
    <3> QED
      BY <2>0, <3>1, QuestionFrame, ToolCallAssumption
      DEF IInv, TypeOK, userQuestionVars, questionVars
  <2>4. RowInv'
    <3>1. ASSUME NEW b \in Attempts, b # a, pc'[b] \in Started PROVE CallOf[b] # c
      BY <1>1, <2>0, <3>1 DEF IInv, TypeOK, RowInv, RowOf
    <3>2. RowOf(a)'
      <4>1. ~swept[a] /\ swept' = swept
        BY DEF IInv, RowInv, RowOf, contextVars
      <4>2. callState'[CallOf[a]] = "running"
        BY <1>0, <1>1 DEF IInv, TypeOK
      <4> QED
        BY <2>0, <4>1, <4>2 DEF RowOf
    <3>3. ASSUME NEW b \in Attempts, b # a PROVE RowOf(b)'
      <4>1. RowOf(b) /\ pc'[b] = pc[b] /\ UNCHANGED <<outcome, swept>> /\ CallOf[b] \in CallIds
        BY <2>0, <3>3, ToolCallAssumption DEF IInv, TypeOK, RowInv, contextVars
      <4>2. pc[b] \in Started => callState'[CallOf[b]] = callState[CallOf[b]]
        BY <1>1, <3>1, <3>3, <4>1 DEF IInv, TypeOK
      <4> QED
        BY <4>1, <4>2 DEF RowOf, Started
    <3> QED
      BY <2>0, <3>1, <3>2, <3>3 DEF IInv, TypeOK, RowInv
  <2>5. ChargeInv'
    <3>1. ASSUME NEW b \in Attempts, pc'[b] \in RunningPcs, tool[b] \in NeedsApproval
          PROVE  charged'[CallOf[b]] # NoGrant
      <4>1. CASE b = a
        BY <1>0, <1>1, <3>1, <4>1 DEF IInv, TypeOK
      <4>2. CASE b # a
        <5>1. pc[b] \in RunningPcs /\ CallOf[b] \in CallIds /\ CallOf[b] # c
          <6>1. pc[b] \in RunningPcs /\ CallOf[b] \in CallIds
            BY <2>0, <3>1, <4>2, ToolCallAssumption DEF IInv, TypeOK
          <6>2. callState[CallOf[b]] # "none"
            BY <6>1 DEF IInv, RowInv, RowOf, Started
          <6> QED
            BY <1>1, <6>1, <6>2
        <5> QED
          BY <1>1, <3>1, <5>1 DEF IInv, TypeOK, ChargeInv, RanAsAllowed
      <4> QED
        BY <4>1, <4>2
    <3>2. ASSUME NEW d \in CallIds, charged'[d] \in PermGrants
          PROVE  perm[charged'[d][1]] = charged'[d][2] /\ CallOf[charged'[d][1]] = d
      <4>1. CASE d = c
        BY <1>0, <1>1, <3>2, <4>1 DEF IInv, TypeOK
      <4>2. CASE d # c
        BY <1>1, <3>2, <4>2 DEF IInv, TypeOK, ChargeInv, RanAsAllowed
      <4> QED
        BY <4>1, <4>2
    <3>3. \A d \in CallIds : charged'[d] # NoGrant => callState'[d] # "none"
      BY <1>0, <1>1 DEF IInv, TypeOK, ChargeInv
    <3> QED
      BY <3>1, <3>2, <3>3 DEF ChargeInv, RanAsAllowed, permVars
  <2> QED
    BY <2>1, <2>2, <2>3, <2>4, <2>5 DEF IInv
<1>2. CASE callState[c] # "none" /\ Goto(a, "denied") /\ UNCHANGED <<used, rowVars>>
  <2>0. pc' = [pc EXCEPT ![a] = "denied"] /\ pc'[a] = "denied"
    BY <1>2 DEF Goto, IInv, TypeOK
  <2>1. TypeOK'
    <3>1. pc' \in [Attempts -> AttemptPcs]
      BY <2>0 DEF IInv, TypeOK, AttemptPcs, EndPcs
    <3> QED
      BY <1>2, <3>1 DEF IInv, TypeOK, permVars, userQuestionVars, questionVars,
          contextVars, rowVars
  <2>2. AskInv'
    <3>1. AskOf(a)'
      BY <2>0 DEF IInv, AskInv, AskOf, AskingPcs, permVars
    <3> QED
      BY <2>0, <3>1, AskFrame DEF IInv, TypeOK, permVars
  <2>3. QuestionInv'
    <3>1. a \in Interactive => QuestionOf(a)'
      BY <2>0 DEF IInv, QuestionInv, QuestionOf, Unasked, AskingPcs, userQuestionVars,
          questionVars
    <3> QED
      BY <2>0, <3>1, QuestionFrame, ToolCallAssumption
      DEF IInv, TypeOK, userQuestionVars, questionVars
  <2>4. RowInv'
    <3>1. RowOf(a)' /\ pc'[a] \notin Started
      BY <1>2, <2>0 DEF IInv, RowInv, RowOf, Started, RunningPcs, QuestionPcs,
          contextVars
    <3> QED
      BY <1>2, <2>0, <3>1, RowFrame DEF IInv, TypeOK, rowVars, contextVars
  <2>5. ChargeInv'
    BY <1>2, <2>0, ChargeFrame DEF IInv, TypeOK, permVars, RunningPcs, QuestionPcs
  <2> QED
    BY <2>1, <2>2, <2>3, <2>4, <2>5 DEF IInv
<1> QED
  BY <1>1, <1>2 DEF RecordStart

\* Nobody has asked, no row exists and nothing is charged.
LEMMA InitIInv == Init => IInv
<1> SUFFICES ASSUME Init PROVE IInv
  OBVIOUS
<1> USE DEF Init, PermissionInit, QuestionInit
<1>1. TypeOK
  <2>1. /\ grant \in [Grants -> {"none", "live", "revoked"}] /\ used \in [Grants -> Nat]
        /\ charged \in [CallIds -> Grants \cup {NoGrant}]
    OBVIOUS
  <2>2. /\ decider \in [Deciders -> {Idle} \cup (DeciderPcs \X Attempts \X Decisions)]
        /\ answerer \in [Answerers -> {NoAnswer} \cup (AnswererPcs \X Interactive \X Choices)]
    OBVIOUS
  <2> QED
    BY <2>1, <2>2 DEF TypeOK, AttemptPcs, Tools
<1>2. AskInv
  BY DEF AskInv, AskOf, Decisions, Allowances, Place, Idle, AskingPcs
<1>3. QuestionInv
  BY QuestionAssumption DEF QuestionInv, QuestionOf, NoAnswer
<1>4. RowInv
  BY DEF RowInv, RowOf, Started, RunningPcs, QuestionPcs
<1>5. ChargeInv
  BY DEF ChargeInv, RanAsAllowed, RunningPcs, QuestionPcs, PermGrants, NoGrant,
      Allowances
<1> QED
  BY <1>1, <1>2, <1>3, <1>4, <1>5 DEF IInv

-----------------------------------------------------------------------------
(* One lemma per action: what it changes in each part of the invariant.    *)

LEMMA StartFreeStep ==
  ASSUME NEW a \in Attempts, IInv, StartFree(a)
  PROVE  IInv'
<1>1. NoGrant \notin PermGrants
  BY DEF NoGrant, PermGrants, Allowances
<1> QED
  BY <1>1, RecordStartInv DEF StartFree

\* A candidate is a pre-authorized grant or the one of the decision the attempt
\* was told.
LEMMA StartGrantedStep ==
  ASSUME NEW a \in Attempts, IInv, StartGranted(a)
  PROVE  IInv'
<1>1. PICK g \in Candidates(a) : Chosen(a, g) /\ RecordStart(a, g)
  BY DEF StartGranted
<1>2. CASE g = <<a, got[a]>> /\ got[a] \in Allowances
  <2>1. g \in Grants /\ g # NoGrant /\ g[1] = a /\ perm[a] = g[2]
    BY <1>2 DEF IInv, AskInv, AskOf, Grants, PermGrants, NoGrant, Allowances, Decisions
  <2> QED
    BY <1>1, <2>1, RecordStartInv DEF StartGranted
<1>3. CASE \E t \in Preauthorized : g = <<t, "preauth">>
  <2>1. g \in Grants /\ g # NoGrant /\ g \notin PermGrants
    BY <1>3 DEF Grants, PermGrants, NoGrant, Allowances, Preauthorized
  <2> QED
    BY <1>1, <2>1, RecordStartInv DEF StartGranted
<1>4. \/ g = <<a, got[a]>> /\ got[a] \in Allowances
      \/ \E t \in Preauthorized : g = <<t, "preauth">>
  BY <1>1 DEF Candidates
<1> QED
  BY <1>2, <1>3, <1>4

LEMMA BeginStep ==
  ASSUME NEW a \in Attempts, IInv, Begin(a)
  PROVE  IInv'
<1>1. TypeOK'
  <2>1. tool' \in [Attempts -> Tools]
    <3>1. PICK t \in MayCall[a] : tool' = [tool EXCEPT ![a] = t]
      BY DEF Begin
    <3>2. t \in Tools
      BY <3>1, ToolCallAssumption
    <3> QED
      BY <3>1, <3>2 DEF IInv, TypeOK
  <2>2. pc' \in [Attempts -> AttemptPcs]
    BY DEF IInv, TypeOK, Begin, Goto, AttemptPcs, EndPcs
  <2> QED
    BY <2>1, <2>2 DEF IInv, TypeOK, Begin, permissionVars, permVars, grantVars,
        userQuestionVars, questionVars, rowVars, contextVars, Goto
<1>2. AskInv'
  <2>1. AskOf(a)' /\ (perm'[a] = perm[a] \/ perm[a] \notin Decisions)
    BY DEF IInv, TypeOK, AskInv, AskOf, Decisions, Allowances, AskingPcs, RunningPcs,
        QuestionPcs, EndPcs, AttemptPcs, Begin, permissionVars, permVars, grantVars,
        userQuestionVars, questionVars, rowVars, contextVars, Goto
  <2> QED
    BY <2>1, AskFrame DEF IInv, TypeOK, Begin, permissionVars, permVars, grantVars,
        userQuestionVars, questionVars, rowVars, contextVars, Goto
<1>3. QuestionInv'
  <2>1. a \in Interactive => QuestionOf(a)' /\ (question'[a] = question[a] \/ question[a] \notin Choices)
    BY QuestionAssumption, ToolCallAssumption DEF IInv, TypeOK, QuestionInv,
        QuestionOf, Unasked, AskingPcs, RunningPcs, QuestionPcs, EndPcs, AttemptPcs,
        Begin, permissionVars, permVars, grantVars, userQuestionVars, questionVars,
        rowVars, contextVars, Goto
  <2> QED
    BY <2>1, QuestionFrame, ToolCallAssumption DEF IInv, TypeOK, Begin,
        permissionVars, permVars, grantVars, userQuestionVars, questionVars, rowVars,
        contextVars, Goto
<1>4. RowInv'
  <2>1. RowOf(a)' /\ (pc'[a] \in Started => pc[a] \in Started)
    BY ToolCallAssumption DEF IInv, TypeOK, RowInv, RowOf, Started, Unasked, Outcomes,
        AskingPcs, RunningPcs, QuestionPcs, EndPcs, AttemptPcs, Begin, permissionVars,
        permVars, grantVars, userQuestionVars, questionVars, rowVars, contextVars,
        Goto
  <2> QED
    BY <2>1, RowFrame DEF IInv, TypeOK, Begin, permissionVars, permVars, grantVars,
        userQuestionVars, questionVars, rowVars, contextVars, Goto
<1>5. ChargeInv'
  BY ChargeFrame, ToolCallAssumption DEF IInv, TypeOK, AskInv, AskOf, Decisions,
      Allowances, AskingPcs, RunningPcs, QuestionPcs, EndPcs, AttemptPcs, Begin,
      permissionVars, permVars, grantVars, userQuestionVars, questionVars, rowVars,
      contextVars, Goto
<1> QED
  BY <1>1, <1>2, <1>3, <1>4, <1>5 DEF IInv


LEMMA AskOrDenyStep ==
  ASSUME NEW a \in Attempts, IInv, AskOrDeny(a)
  PROVE  IInv'
<1>1. TypeOK'
  BY DEF IInv, TypeOK, Allowances, AskingPcs, RunningPcs, QuestionPcs, EndPcs,
      AttemptPcs, AskOrDeny, permissionVars, permVars, grantVars, userQuestionVars,
      questionVars, rowVars, contextVars, Goto
<1>2. AskInv'
  <2>1. /\ pc[a] = "authorize" /\ AskOf(a) /\ UNCHANGED <<perm, waiter, got, decider>>
        /\ \/ pc'[a] = "register" /\ got[a] = "nothing"
           \/ pc'[a] = "denied"
    BY DEF IInv, TypeOK, AskInv, CanWait, AskOrDeny, permissionVars, permVars,
        grantVars, userQuestionVars, questionVars, rowVars, contextVars, Goto
  <2>2. AskOf(a)'
    BY <2>1 DEF AskOf, AskingPcs
  <2> QED
    BY <2>1, <2>2, AskFrame DEF IInv, TypeOK, AskOrDeny, permissionVars, permVars,
        grantVars, userQuestionVars, questionVars, rowVars, contextVars, Goto
<1>3. QuestionInv'
  <2>1. a \in Interactive => QuestionOf(a)' /\ (question'[a] = question[a] \/ question[a] \notin Choices)
    BY QuestionAssumption, ToolCallAssumption DEF IInv, TypeOK, QuestionInv,
        QuestionOf, Unasked, AskingPcs, RunningPcs, QuestionPcs, EndPcs, AttemptPcs,
        AskOrDeny, permissionVars, permVars, grantVars, userQuestionVars,
        questionVars, rowVars, contextVars, Goto
  <2> QED
    BY <2>1, QuestionFrame, ToolCallAssumption DEF IInv, TypeOK, AskOrDeny,
        permissionVars, permVars, grantVars, userQuestionVars, questionVars, rowVars,
        contextVars, Goto
<1>4. RowInv'
  <2>1. /\ pc[a] = "authorize" /\ pc'[a] \in {"register", "denied"} /\ outcome'[a] = outcome[a]
        /\ callState' = callState /\ swept' = swept /\ RowOf(a)
    BY DEF IInv, TypeOK, RowInv, Outcomes, AskOrDeny, permissionVars, permVars,
        grantVars, userQuestionVars, questionVars, rowVars, contextVars, Goto
  <2>2. RowOf(a)' /\ (pc'[a] \in Started => pc[a] \in Started)
    BY <2>1 DEF RowOf, Started, RunningPcs, QuestionPcs
  <2> QED
    BY <2>2, RowFrame DEF IInv, TypeOK, AskOrDeny, permissionVars, permVars,
        grantVars, userQuestionVars, questionVars, rowVars, contextVars, Goto
<1>5. ChargeInv'
  BY ChargeFrame, ToolCallAssumption DEF IInv, TypeOK, AskInv, AskOf, Decisions,
      Allowances, AskingPcs, RunningPcs, QuestionPcs, EndPcs, AttemptPcs, AskOrDeny,
      permissionVars, permVars, grantVars, userQuestionVars, questionVars, rowVars,
      contextVars, Goto
<1> QED
  BY <1>1, <1>2, <1>3, <1>4, <1>5 DEF IInv


LEMMA RegisterWaiterStep ==
  ASSUME NEW a \in Attempts, IInv, RegisterWaiter(a)
  PROVE  IInv'
<1>1. TypeOK'
  BY DEF IInv, TypeOK, AskingPcs, RunningPcs, QuestionPcs, EndPcs, AttemptPcs,
      RegisterWaiter, Register, grantVars, userQuestionVars, questionVars, rowVars,
      contextVars, Goto
<1>2. AskInv'
  <2>1. AskOf(a)' /\ (perm'[a] = perm[a] \/ perm[a] \notin Decisions)
    BY DEF IInv, TypeOK, AskInv, AskOf, Decisions, Allowances, AskingPcs, RunningPcs,
        QuestionPcs, EndPcs, AttemptPcs, RegisterWaiter, Register, grantVars,
        userQuestionVars, questionVars, rowVars, contextVars, Goto
  <2> QED
    BY <2>1, AskFrame DEF IInv, TypeOK, RegisterWaiter, Register, grantVars,
        userQuestionVars, questionVars, rowVars, contextVars, Goto
<1>3. QuestionInv'
  <2>1. a \in Interactive => QuestionOf(a)' /\ (question'[a] = question[a] \/ question[a] \notin Choices)
    BY QuestionAssumption, ToolCallAssumption DEF IInv, TypeOK, QuestionInv,
        QuestionOf, Unasked, AskingPcs, RunningPcs, QuestionPcs, EndPcs, AttemptPcs,
        RegisterWaiter, Register, grantVars, userQuestionVars, questionVars, rowVars,
        contextVars, Goto
  <2> QED
    BY <2>1, QuestionFrame, ToolCallAssumption DEF IInv, TypeOK, RegisterWaiter,
        Register, grantVars, userQuestionVars, questionVars, rowVars, contextVars,
        Goto
<1>4. RowInv'
  <2>1. RowOf(a)' /\ (pc'[a] \in Started => pc[a] \in Started)
    BY ToolCallAssumption DEF IInv, TypeOK, RowInv, RowOf, Started, Unasked, Outcomes,
        AskingPcs, RunningPcs, QuestionPcs, EndPcs, AttemptPcs, RegisterWaiter,
        Register, grantVars, userQuestionVars, questionVars, rowVars, contextVars,
        Goto
  <2> QED
    BY <2>1, RowFrame DEF IInv, TypeOK, RegisterWaiter, Register, grantVars,
        userQuestionVars, questionVars, rowVars, contextVars, Goto
<1>5. ChargeInv'
  BY ChargeFrame, ToolCallAssumption DEF IInv, TypeOK, AskInv, AskOf, Decisions,
      Allowances, AskingPcs, RunningPcs, QuestionPcs, EndPcs, AttemptPcs,
      RegisterWaiter, Register, grantVars, userQuestionVars, questionVars, rowVars,
      contextVars, Goto
<1> QED
  BY <1>1, <1>2, <1>3, <1>4, <1>5 DEF IInv


LEMMA CreatePendingStep ==
  ASSUME NEW a \in Attempts, IInv, CreatePending(a)
  PROVE  IInv'
<1>1. TypeOK'
  BY DEF IInv, TypeOK, AskingPcs, RunningPcs, QuestionPcs, EndPcs, AttemptPcs,
      CreatePending, InsertPending, grantVars, userQuestionVars, questionVars,
      rowVars, contextVars, Goto
<1>2. AskInv'
  <2>1. AskOf(a)' /\ (perm'[a] = perm[a] \/ perm[a] \notin Decisions)
    BY DEF IInv, TypeOK, AskInv, AskOf, Decisions, Allowances, AskingPcs, RunningPcs,
        QuestionPcs, EndPcs, AttemptPcs, CreatePending, InsertPending, grantVars,
        userQuestionVars, questionVars, rowVars, contextVars, Goto
  <2> QED
    BY <2>1, AskFrame DEF IInv, TypeOK, CreatePending, InsertPending, grantVars,
        userQuestionVars, questionVars, rowVars, contextVars, Goto
<1>3. QuestionInv'
  <2>1. a \in Interactive => QuestionOf(a)' /\ (question'[a] = question[a] \/ question[a] \notin Choices)
    BY QuestionAssumption, ToolCallAssumption DEF IInv, TypeOK, QuestionInv,
        QuestionOf, Unasked, AskingPcs, RunningPcs, QuestionPcs, EndPcs, AttemptPcs,
        CreatePending, InsertPending, grantVars, userQuestionVars, questionVars,
        rowVars, contextVars, Goto
  <2> QED
    BY <2>1, QuestionFrame, ToolCallAssumption DEF IInv, TypeOK, CreatePending,
        InsertPending, grantVars, userQuestionVars, questionVars, rowVars,
        contextVars, Goto
<1>4. RowInv'
  <2>1. RowOf(a)' /\ (pc'[a] \in Started => pc[a] \in Started)
    BY ToolCallAssumption DEF IInv, TypeOK, RowInv, RowOf, Started, Unasked, Outcomes,
        AskingPcs, RunningPcs, QuestionPcs, EndPcs, AttemptPcs, CreatePending,
        InsertPending, grantVars, userQuestionVars, questionVars, rowVars,
        contextVars, Goto
  <2> QED
    BY <2>1, RowFrame DEF IInv, TypeOK, CreatePending, InsertPending, grantVars,
        userQuestionVars, questionVars, rowVars, contextVars, Goto
<1>5. ChargeInv'
  BY ChargeFrame, ToolCallAssumption DEF IInv, TypeOK, AskInv, AskOf, Decisions,
      Allowances, AskingPcs, RunningPcs, QuestionPcs, EndPcs, AttemptPcs,
      CreatePending, InsertPending, grantVars, userQuestionVars, questionVars,
      rowVars, contextVars, Goto
<1> QED
  BY <1>1, <1>2, <1>3, <1>4, <1>5 DEF IInv


LEMMA LookAtRowStep ==
  ASSUME NEW a \in Attempts, IInv, LookAtRow(a)
  PROVE  IInv'
<1>1. TypeOK'
  <2>1. got' \in [Attempts -> {"nothing", "gaveUp"} \cup Decisions] /\ pc' \in [Attempts -> AttemptPcs]
    BY DEF IInv, TypeOK, AttemptPcs, AskingPcs, EndPcs, LookAtRow, AlreadyDecided,
        Obey, permissionVars, permVars, grantVars, userQuestionVars, questionVars,
        rowVars, contextVars, Goto
  <2> QED
    BY <2>1 DEF IInv, TypeOK, LookAtRow, AlreadyDecided, Obey, permissionVars,
        permVars, grantVars, userQuestionVars, questionVars, rowVars, contextVars,
        Goto
<1>2. AskInv'
  <2>1. /\ pc[a] = "look" /\ AskOf(a) /\ UNCHANGED <<perm, waiter, decider>>
        /\ \/ pc'[a] = "open" /\ got' = got
           \/ pc'[a] \in {"authorize", "denied"} /\ got'[a] = perm[a] /\ perm[a] \in Decisions
    BY DEF IInv, TypeOK, AskInv, LookAtRow, AlreadyDecided, Obey, permissionVars,
        permVars, grantVars, userQuestionVars, questionVars, rowVars, contextVars,
        Goto
  <2>2. AskOf(a)'
    <3>1. CASE pc'[a] = "open" /\ got' = got
      BY <2>1, <3>1 DEF AskOf, AskingPcs
    <3>2. CASE pc'[a] \in {"authorize", "denied"} /\ got'[a] = perm[a] /\ perm[a] \in Decisions
      BY <2>1, <3>2 DEF AskOf, AskingPcs, Decisions, Allowances
    <3> QED
      BY <2>1, <3>1, <3>2
  <2> QED
    BY <2>1, <2>2, AskFrame DEF IInv, TypeOK, LookAtRow, AlreadyDecided, Obey,
        permissionVars, permVars, grantVars, userQuestionVars, questionVars, rowVars,
        contextVars, Goto
<1>3. QuestionInv'
  <2>1. a \in Interactive => QuestionOf(a)' /\ (question'[a] = question[a] \/ question[a] \notin Choices)
    BY QuestionAssumption, ToolCallAssumption DEF IInv, TypeOK, QuestionInv,
        QuestionOf, Unasked, AskingPcs, RunningPcs, QuestionPcs, EndPcs, AttemptPcs,
        LookAtRow, AlreadyDecided, Obey, permissionVars, permVars, grantVars,
        userQuestionVars, questionVars, rowVars, contextVars, Goto
  <2> QED
    BY <2>1, QuestionFrame, ToolCallAssumption DEF IInv, TypeOK, LookAtRow,
        AlreadyDecided, Obey, permissionVars, permVars, grantVars, userQuestionVars,
        questionVars, rowVars, contextVars, Goto
<1>4. RowInv'
  <2>1. RowOf(a)' /\ (pc'[a] \in Started => pc[a] \in Started)
    BY ToolCallAssumption DEF IInv, TypeOK, RowInv, RowOf, Started, Unasked, Outcomes,
        AskingPcs, RunningPcs, QuestionPcs, EndPcs, AttemptPcs, LookAtRow,
        AlreadyDecided, Obey, permissionVars, permVars, grantVars, userQuestionVars,
        questionVars, rowVars, contextVars, Goto
  <2> QED
    BY <2>1, RowFrame DEF IInv, TypeOK, LookAtRow, AlreadyDecided, Obey,
        permissionVars, permVars, grantVars, userQuestionVars, questionVars, rowVars,
        contextVars, Goto
<1>5. ChargeInv'
  BY ChargeFrame, ToolCallAssumption DEF IInv, TypeOK, AskInv, AskOf, Decisions,
      Allowances, AskingPcs, RunningPcs, QuestionPcs, EndPcs, AttemptPcs, LookAtRow,
      AlreadyDecided, Obey, permissionVars, permVars, grantVars, userQuestionVars,
      questionVars, rowVars, contextVars, Goto
<1> QED
  BY <1>1, <1>2, <1>3, <1>4, <1>5 DEF IInv


LEMMA OpenWaiterStep ==
  ASSUME NEW a \in Attempts, IInv, OpenWaiter(a)
  PROVE  IInv'
<1>1. TypeOK'
  BY DEF IInv, TypeOK, AskingPcs, RunningPcs, QuestionPcs, EndPcs, AttemptPcs,
      OpenWaiter, OpenChannel, grantVars, userQuestionVars, questionVars, rowVars,
      contextVars, Goto
<1>2. AskInv'
  <2>1. /\ pc[a] = "open" /\ AskOf(a) /\ UNCHANGED <<perm, waiter, got, decider>>
        /\ pc'[a] = "wait"
    BY DEF IInv, TypeOK, AskInv, AskOf, OpenWaiter, OpenChannel, grantVars,
        userQuestionVars, questionVars, rowVars, contextVars, Goto
  <2>2. AskOf(a)'
    BY <2>1 DEF AskOf, AskingPcs
  <2> QED
    BY <2>1, <2>2, AskFrame DEF IInv, TypeOK, OpenWaiter, OpenChannel, grantVars,
        userQuestionVars, questionVars, rowVars, contextVars, Goto
<1>3. QuestionInv'
  <2>1. a \in Interactive => QuestionOf(a)' /\ (question'[a] = question[a] \/ question[a] \notin Choices)
    BY QuestionAssumption, ToolCallAssumption DEF IInv, TypeOK, QuestionInv,
        QuestionOf, Unasked, AskingPcs, RunningPcs, QuestionPcs, EndPcs, AttemptPcs,
        OpenWaiter, OpenChannel, grantVars, userQuestionVars, questionVars, rowVars,
        contextVars, Goto
  <2> QED
    BY <2>1, QuestionFrame, ToolCallAssumption DEF IInv, TypeOK, OpenWaiter,
        OpenChannel, grantVars, userQuestionVars, questionVars, rowVars, contextVars,
        Goto
<1>4. RowInv'
  <2>1. /\ pc[a] = "open" /\ pc'[a] \in {"wait"} /\ outcome'[a] = outcome[a]
        /\ callState' = callState /\ swept' = swept /\ RowOf(a)
    BY DEF IInv, TypeOK, RowInv, Outcomes, OpenWaiter, OpenChannel, grantVars,
        userQuestionVars, questionVars, rowVars, contextVars, Goto
  <2>2. RowOf(a)' /\ (pc'[a] \in Started => pc[a] \in Started)
    BY <2>1 DEF RowOf, Started, RunningPcs, QuestionPcs
  <2> QED
    BY <2>2, RowFrame DEF IInv, TypeOK, OpenWaiter, OpenChannel, grantVars,
        userQuestionVars, questionVars, rowVars, contextVars, Goto
<1>5. ChargeInv'
  BY ChargeFrame, ToolCallAssumption DEF IInv, TypeOK, AskInv, AskOf, Decisions,
      Allowances, AskingPcs, RunningPcs, QuestionPcs, EndPcs, AttemptPcs, OpenWaiter,
      OpenChannel, grantVars, userQuestionVars, questionVars, rowVars, contextVars,
      Goto
<1> QED
  BY <1>1, <1>2, <1>3, <1>4, <1>5 DEF IInv


LEMMA ReceiveDecisionStep ==
  ASSUME NEW a \in Attempts, IInv, ReceiveDecision(a)
  PROVE  IInv'
<1>1. TypeOK'
  BY DEF IInv, TypeOK, Decisions, Allowances, AskingPcs, RunningPcs, QuestionPcs,
      EndPcs, AttemptPcs, ReceiveDecision, Obey, Cleanup, grantVars, userQuestionVars,
      questionVars, rowVars, contextVars, Goto
<1>2. AskInv'
  <2>1. AskOf(a)' /\ (perm'[a] = perm[a] \/ perm[a] \notin Decisions)
    BY DEF IInv, TypeOK, AskInv, AskOf, Decisions, Allowances, AskingPcs, RunningPcs,
        QuestionPcs, EndPcs, AttemptPcs, ReceiveDecision, Obey, Cleanup, grantVars,
        userQuestionVars, questionVars, rowVars, contextVars, Goto
  <2> QED
    BY <2>1, AskFrame DEF IInv, TypeOK, ReceiveDecision, Obey, Cleanup, grantVars,
        userQuestionVars, questionVars, rowVars, contextVars, Goto
<1>3. QuestionInv'
  <2>1. a \in Interactive => QuestionOf(a)' /\ (question'[a] = question[a] \/ question[a] \notin Choices)
    BY QuestionAssumption, ToolCallAssumption DEF IInv, TypeOK, QuestionInv,
        QuestionOf, Unasked, AskingPcs, RunningPcs, QuestionPcs, EndPcs, AttemptPcs,
        ReceiveDecision, Obey, Cleanup, grantVars, userQuestionVars, questionVars,
        rowVars, contextVars, Goto
  <2> QED
    BY <2>1, QuestionFrame, ToolCallAssumption DEF IInv, TypeOK, ReceiveDecision,
        Obey, Cleanup, grantVars, userQuestionVars, questionVars, rowVars,
        contextVars, Goto
<1>4. RowInv'
  <2>1. /\ pc[a] = "wait" /\ pc'[a] \in {"denied", "authorize"} /\ outcome'[a] = outcome[a]
        /\ callState' = callState /\ swept' = swept /\ RowOf(a)
    BY DEF IInv, TypeOK, RowInv, Outcomes, ReceiveDecision, Obey, Cleanup, grantVars,
        userQuestionVars, questionVars, rowVars, contextVars, Goto
  <2>2. RowOf(a)' /\ (pc'[a] \in Started => pc[a] \in Started)
    BY <2>1 DEF RowOf, Started, RunningPcs, QuestionPcs
  <2> QED
    BY <2>2, RowFrame DEF IInv, TypeOK, ReceiveDecision, Obey, Cleanup, grantVars,
        userQuestionVars, questionVars, rowVars, contextVars, Goto
<1>5. ChargeInv'
  BY ChargeFrame, ToolCallAssumption DEF IInv, TypeOK, AskInv, AskOf, Decisions,
      Allowances, AskingPcs, RunningPcs, QuestionPcs, EndPcs, AttemptPcs,
      ReceiveDecision, Obey, Cleanup, grantVars, userQuestionVars, questionVars,
      rowVars, contextVars, Goto
<1> QED
  BY <1>1, <1>2, <1>3, <1>4, <1>5 DEF IInv


LEMMA GiveUpWaitingStep ==
  ASSUME NEW a \in Attempts, IInv, GiveUpWaiting(a)
  PROVE  IInv'
<1>1. TypeOK'
  BY DEF IInv, TypeOK, AskingPcs, RunningPcs, QuestionPcs, EndPcs, AttemptPcs,
      GiveUpWaiting, Cleanup, grantVars, userQuestionVars, questionVars, rowVars,
      contextVars, Goto
<1>2. AskInv'
  <2>1. AskOf(a)' /\ (perm'[a] = perm[a] \/ perm[a] \notin Decisions)
    BY DEF IInv, TypeOK, AskInv, AskOf, Decisions, Allowances, AskingPcs, RunningPcs,
        QuestionPcs, EndPcs, AttemptPcs, GiveUpWaiting, Cleanup, grantVars,
        userQuestionVars, questionVars, rowVars, contextVars, Goto
  <2> QED
    BY <2>1, AskFrame DEF IInv, TypeOK, GiveUpWaiting, Cleanup, grantVars,
        userQuestionVars, questionVars, rowVars, contextVars, Goto
<1>3. QuestionInv'
  <2>1. a \in Interactive => QuestionOf(a)' /\ (question'[a] = question[a] \/ question[a] \notin Choices)
    BY QuestionAssumption, ToolCallAssumption DEF IInv, TypeOK, QuestionInv,
        QuestionOf, Unasked, AskingPcs, RunningPcs, QuestionPcs, EndPcs, AttemptPcs,
        GiveUpWaiting, Cleanup, grantVars, userQuestionVars, questionVars, rowVars,
        contextVars, Goto
  <2> QED
    BY <2>1, QuestionFrame, ToolCallAssumption DEF IInv, TypeOK, GiveUpWaiting,
        Cleanup, grantVars, userQuestionVars, questionVars, rowVars, contextVars, Goto
<1>4. RowInv'
  <2>1. RowOf(a)' /\ (pc'[a] \in Started => pc[a] \in Started)
    BY ToolCallAssumption DEF IInv, TypeOK, RowInv, RowOf, Started, Unasked, Outcomes,
        AskingPcs, RunningPcs, QuestionPcs, EndPcs, AttemptPcs, GiveUpWaiting,
        Cleanup, grantVars, userQuestionVars, questionVars, rowVars, contextVars, Goto
  <2> QED
    BY <2>1, RowFrame DEF IInv, TypeOK, GiveUpWaiting, Cleanup, grantVars,
        userQuestionVars, questionVars, rowVars, contextVars, Goto
<1>5. ChargeInv'
  BY ChargeFrame, ToolCallAssumption DEF IInv, TypeOK, AskInv, AskOf, Decisions,
      Allowances, AskingPcs, RunningPcs, QuestionPcs, EndPcs, AttemptPcs,
      GiveUpWaiting, Cleanup, grantVars, userQuestionVars, questionVars, rowVars,
      contextVars, Goto
<1> QED
  BY <1>1, <1>2, <1>3, <1>4, <1>5 DEF IInv


LEMMA RunToolStep ==
  ASSUME NEW a \in Attempts, IInv, RunTool(a)
  PROVE  IInv'
<1>1. TypeOK'
  BY DEF IInv, TypeOK, Outcomes, AskingPcs, RunningPcs, QuestionPcs, EndPcs,
      AttemptPcs, RunTool, BodyEnds, permissionVars, permVars, grantVars,
      userQuestionVars, questionVars, rowVars, contextVars, Goto
<1>2. AskInv'
  <2>1. AskOf(a)' /\ (perm'[a] = perm[a] \/ perm[a] \notin Decisions)
    BY DEF IInv, TypeOK, AskInv, AskOf, Decisions, Allowances, AskingPcs, RunningPcs,
        QuestionPcs, EndPcs, AttemptPcs, RunTool, BodyEnds, permissionVars, permVars,
        grantVars, userQuestionVars, questionVars, rowVars, contextVars, Goto
  <2> QED
    BY <2>1, AskFrame DEF IInv, TypeOK, RunTool, BodyEnds, permissionVars, permVars,
        grantVars, userQuestionVars, questionVars, rowVars, contextVars, Goto
<1>3. QuestionInv'
  <2>1. a \in Interactive => QuestionOf(a)' /\ (question'[a] = question[a] \/ question[a] \notin Choices)
    BY QuestionAssumption, ToolCallAssumption DEF IInv, TypeOK, QuestionInv,
        QuestionOf, Unasked, AskingPcs, RunningPcs, QuestionPcs, EndPcs, AttemptPcs,
        RunTool, BodyEnds, permissionVars, permVars, grantVars, userQuestionVars,
        questionVars, rowVars, contextVars, Goto
  <2> QED
    BY <2>1, QuestionFrame, ToolCallAssumption DEF IInv, TypeOK, RunTool, BodyEnds,
        permissionVars, permVars, grantVars, userQuestionVars, questionVars, rowVars,
        contextVars, Goto
<1>4. RowInv'
  <2>1. RowOf(a)' /\ (pc'[a] \in Started => pc[a] \in Started)
    BY ToolCallAssumption DEF IInv, TypeOK, RowInv, RowOf, Started, Unasked, Outcomes,
        AskingPcs, RunningPcs, QuestionPcs, EndPcs, AttemptPcs, RunTool, BodyEnds,
        permissionVars, permVars, grantVars, userQuestionVars, questionVars, rowVars,
        contextVars, Goto
  <2> QED
    BY <2>1, RowFrame DEF IInv, TypeOK, RunTool, BodyEnds, permissionVars, permVars,
        grantVars, userQuestionVars, questionVars, rowVars, contextVars, Goto
<1>5. ChargeInv'
  BY ChargeFrame, ToolCallAssumption DEF IInv, TypeOK, AskInv, AskOf, Decisions,
      Allowances, AskingPcs, RunningPcs, QuestionPcs, EndPcs, AttemptPcs, RunTool,
      BodyEnds, permissionVars, permVars, grantVars, userQuestionVars, questionVars,
      rowVars, contextVars, Goto
<1> QED
  BY <1>1, <1>2, <1>3, <1>4, <1>5 DEF IInv


LEMMA AskUserStep ==
  ASSUME NEW a \in Attempts, IInv, AskUser(a)
  PROVE  IInv'
<1>1. TypeOK'
  <2>1. outcome' \in [Attempts -> Outcomes \cup {"none"}]
    BY DEF IInv, TypeOK, AskUser, BodyEnds, Outcomes
  <2>2. pc' \in [Attempts -> AttemptPcs]
    BY DEF IInv, TypeOK, AskUser, BodyEnds, Goto, AskingPcs, RunningPcs, QuestionPcs,
        EndPcs, AttemptPcs
  <2> QED
    BY <2>1, <2>2 DEF IInv, TypeOK, AskUser, BodyEnds, permissionVars, permVars,
        grantVars, userQuestionVars, questionVars, rowVars, contextVars, Goto
<1>2. AskInv'
  <2>1. AskOf(a)' /\ (perm'[a] = perm[a] \/ perm[a] \notin Decisions)
    BY DEF IInv, TypeOK, AskInv, AskOf, Decisions, Allowances, AskingPcs, RunningPcs,
        QuestionPcs, EndPcs, AttemptPcs, AskUser, BodyEnds, permissionVars, permVars,
        grantVars, userQuestionVars, questionVars, rowVars, contextVars, Goto
  <2> QED
    BY <2>1, AskFrame DEF IInv, TypeOK, AskUser, BodyEnds, permissionVars, permVars,
        grantVars, userQuestionVars, questionVars, rowVars, contextVars, Goto
<1>3. QuestionInv'
  <2>1. a \in Interactive => QuestionOf(a)' /\ (question'[a] = question[a] \/ question[a] \notin Choices)
    BY QuestionAssumption, ToolCallAssumption DEF IInv, TypeOK, QuestionInv,
        QuestionOf, Unasked, AskingPcs, RunningPcs, QuestionPcs, EndPcs, AttemptPcs,
        AskUser, BodyEnds, permissionVars, permVars, grantVars, userQuestionVars,
        questionVars, rowVars, contextVars, Goto
  <2> QED
    BY <2>1, QuestionFrame, ToolCallAssumption DEF IInv, TypeOK, AskUser, BodyEnds,
        permissionVars, permVars, grantVars, userQuestionVars, questionVars, rowVars,
        contextVars, Goto
<1>4. RowInv'
  <2>1. RowOf(a)' /\ (pc'[a] \in Started => pc[a] \in Started)
    BY ToolCallAssumption DEF IInv, TypeOK, RowInv, RowOf, Started, Unasked, Outcomes,
        AskingPcs, RunningPcs, QuestionPcs, EndPcs, AttemptPcs, AskUser, BodyEnds,
        permissionVars, permVars, grantVars, userQuestionVars, questionVars, rowVars,
        contextVars, Goto
  <2> QED
    BY <2>1, RowFrame DEF IInv, TypeOK, AskUser, BodyEnds, permissionVars, permVars,
        grantVars, userQuestionVars, questionVars, rowVars, contextVars, Goto
<1>5. ChargeInv'
  BY ChargeFrame, ToolCallAssumption DEF IInv, TypeOK, AskInv, AskOf, Decisions,
      Allowances, AskingPcs, RunningPcs, QuestionPcs, EndPcs, AttemptPcs, AskUser,
      BodyEnds, permissionVars, permVars, grantVars, userQuestionVars, questionVars,
      rowVars, contextVars, Goto
<1> QED
  BY <1>1, <1>2, <1>3, <1>4, <1>5 DEF IInv


LEMMA CreateQuestionStep ==
  ASSUME NEW a \in Attempts, IInv, CreateQuestion(a)
  PROVE  IInv'
<1>1. TypeOK'
  BY DEF IInv, TypeOK, Grants, PermGrants, Decisions, Allowances, DeciderPcs,
      AnswererPcs, Idle, NoAnswer, Outcomes, AskingPcs, RunningPcs, QuestionPcs,
      EndPcs, AttemptPcs, CreateQuestion, InsertQuestion, BodyEnds, permissionVars,
      permVars, grantVars, rowVars, contextVars, Goto
<1>2. AskInv'
  <2>1. AskOf(a)' /\ (perm'[a] = perm[a] \/ perm[a] \notin Decisions)
    BY DEF IInv, TypeOK, AskInv, AskOf, Decisions, Allowances, AskingPcs, RunningPcs,
        QuestionPcs, EndPcs, AttemptPcs, CreateQuestion, InsertQuestion, BodyEnds,
        permissionVars, permVars, grantVars, rowVars, contextVars, Goto
  <2> QED
    BY <2>1, AskFrame DEF IInv, TypeOK, CreateQuestion, InsertQuestion, BodyEnds,
        permissionVars, permVars, grantVars, rowVars, contextVars, Goto
<1>3. QuestionInv'
  <2>1. a \in Interactive => QuestionOf(a)' /\ (question'[a] = question[a] \/ question[a] \notin Choices)
    BY QuestionAssumption, ToolCallAssumption DEF IInv, TypeOK, QuestionInv,
        QuestionOf, Unasked, AskingPcs, RunningPcs, QuestionPcs, EndPcs, AttemptPcs,
        CreateQuestion, InsertQuestion, BodyEnds, permissionVars, permVars, grantVars,
        rowVars, contextVars, Goto
  <2> QED
    BY <2>1, QuestionFrame, ToolCallAssumption DEF IInv, TypeOK, CreateQuestion,
        InsertQuestion, BodyEnds, permissionVars, permVars, grantVars, rowVars,
        contextVars, Goto
<1>4. RowInv'
  <2>1. RowOf(a)' /\ (pc'[a] \in Started => pc[a] \in Started)
    BY ToolCallAssumption DEF IInv, TypeOK, RowInv, RowOf, Started, Unasked, Outcomes,
        AskingPcs, RunningPcs, QuestionPcs, EndPcs, AttemptPcs, CreateQuestion,
        InsertQuestion, BodyEnds, permissionVars, permVars, grantVars, rowVars,
        contextVars, Goto
  <2> QED
    BY <2>1, RowFrame DEF IInv, TypeOK, CreateQuestion, InsertQuestion, BodyEnds,
        permissionVars, permVars, grantVars, rowVars, contextVars, Goto
<1>5. ChargeInv'
  BY ChargeFrame, ToolCallAssumption DEF IInv, TypeOK, AskInv, AskOf, Decisions,
      Allowances, AskingPcs, RunningPcs, QuestionPcs, EndPcs, AttemptPcs,
      CreateQuestion, InsertQuestion, BodyEnds, permissionVars, permVars, grantVars,
      rowVars, contextVars, Goto
<1> QED
  BY <1>1, <1>2, <1>3, <1>4, <1>5 DEF IInv


LEMMA RegisterAskerStep ==
  ASSUME NEW a \in Attempts, IInv, RegisterAsker(a)
  PROVE  IInv'
<1>1. TypeOK'
  BY DEF IInv, TypeOK, AskingPcs, RunningPcs, QuestionPcs, EndPcs, AttemptPcs,
      RegisterAsker, RegisterQuestion, permissionVars, permVars, grantVars, rowVars,
      contextVars, Goto
<1>2. AskInv'
  <2>1. AskOf(a)' /\ (perm'[a] = perm[a] \/ perm[a] \notin Decisions)
    BY DEF IInv, TypeOK, AskInv, AskOf, Decisions, Allowances, AskingPcs, RunningPcs,
        QuestionPcs, EndPcs, AttemptPcs, RegisterAsker, RegisterQuestion,
        permissionVars, permVars, grantVars, rowVars, contextVars, Goto
  <2> QED
    BY <2>1, AskFrame DEF IInv, TypeOK, RegisterAsker, RegisterQuestion,
        permissionVars, permVars, grantVars, rowVars, contextVars, Goto
<1>3. QuestionInv'
  <2>1. a \in Interactive => QuestionOf(a)' /\ (question'[a] = question[a] \/ question[a] \notin Choices)
    BY QuestionAssumption, ToolCallAssumption DEF IInv, TypeOK, QuestionInv,
        QuestionOf, Unasked, AskingPcs, RunningPcs, QuestionPcs, EndPcs, AttemptPcs,
        RegisterAsker, RegisterQuestion, permissionVars, permVars, grantVars, rowVars,
        contextVars, Goto
  <2> QED
    BY <2>1, QuestionFrame, ToolCallAssumption DEF IInv, TypeOK, RegisterAsker,
        RegisterQuestion, permissionVars, permVars, grantVars, rowVars, contextVars,
        Goto
<1>4. RowInv'
  <2>1. /\ pc[a] = "qregister" /\ pc'[a] \in {"qwait"} /\ outcome'[a] = outcome[a]
        /\ callState' = callState /\ swept' = swept /\ RowOf(a)
    BY DEF IInv, TypeOK, RowInv, Outcomes, RegisterAsker, RegisterQuestion,
        permissionVars, permVars, grantVars, rowVars, contextVars, Goto
  <2>2. RowOf(a)' /\ (pc'[a] \in Started => pc[a] \in Started)
    BY <2>1 DEF RowOf, Started, RunningPcs, QuestionPcs
  <2> QED
    BY <2>2, RowFrame DEF IInv, TypeOK, RegisterAsker, RegisterQuestion,
        permissionVars, permVars, grantVars, rowVars, contextVars, Goto
<1>5. ChargeInv'
  BY ChargeFrame, ToolCallAssumption DEF IInv, TypeOK, AskInv, AskOf, Decisions,
      Allowances, AskingPcs, RunningPcs, QuestionPcs, EndPcs, AttemptPcs,
      RegisterAsker, RegisterQuestion, permissionVars, permVars, grantVars, rowVars,
      contextVars, Goto
<1> QED
  BY <1>1, <1>2, <1>3, <1>4, <1>5 DEF IInv


LEMMA ReceiveAnswerStep ==
  ASSUME NEW a \in Attempts, IInv, ReceiveAnswer(a)
  PROVE  IInv'
<1>1. TypeOK'
  BY DEF IInv, TypeOK, Grants, PermGrants, Decisions, Allowances, DeciderPcs,
      AnswererPcs, Idle, NoAnswer, Outcomes, AskingPcs, RunningPcs, QuestionPcs,
      EndPcs, AttemptPcs, ReceiveAnswer, CleanupQuestion, BodyEnds, permissionVars,
      permVars, grantVars, rowVars, contextVars, Goto
<1>2. AskInv'
  <2>1. AskOf(a)' /\ (perm'[a] = perm[a] \/ perm[a] \notin Decisions)
    BY DEF IInv, TypeOK, AskInv, AskOf, Decisions, Allowances, AskingPcs, RunningPcs,
        QuestionPcs, EndPcs, AttemptPcs, ReceiveAnswer, CleanupQuestion, BodyEnds,
        permissionVars, permVars, grantVars, rowVars, contextVars, Goto
  <2> QED
    BY <2>1, AskFrame DEF IInv, TypeOK, ReceiveAnswer, CleanupQuestion, BodyEnds,
        permissionVars, permVars, grantVars, rowVars, contextVars, Goto
<1>3. QuestionInv'
  <2>1. a \in Interactive => QuestionOf(a)' /\ (question'[a] = question[a] \/ question[a] \notin Choices)
    BY QuestionAssumption, ToolCallAssumption DEF IInv, TypeOK, QuestionInv,
        QuestionOf, Unasked, AskingPcs, RunningPcs, QuestionPcs, EndPcs, AttemptPcs,
        ReceiveAnswer, CleanupQuestion, BodyEnds, permissionVars, permVars, grantVars,
        rowVars, contextVars, Goto
  <2> QED
    BY <2>1, QuestionFrame, ToolCallAssumption DEF IInv, TypeOK, ReceiveAnswer,
        CleanupQuestion, BodyEnds, permissionVars, permVars, grantVars, rowVars,
        contextVars, Goto
<1>4. RowInv'
  <2>1. /\ pc[a] = "qwait" /\ pc'[a] \in {"finish"} /\ outcome'[a] \in Outcomes
        /\ callState' = callState /\ swept' = swept /\ RowOf(a)
    BY DEF IInv, TypeOK, RowInv, Outcomes, ReceiveAnswer, CleanupQuestion, BodyEnds,
        permissionVars, permVars, grantVars, rowVars, contextVars, Goto
  <2>2. RowOf(a)' /\ (pc'[a] \in Started => pc[a] \in Started)
    BY <2>1 DEF RowOf, Started, RunningPcs, QuestionPcs
  <2> QED
    BY <2>2, RowFrame DEF IInv, TypeOK, ReceiveAnswer, CleanupQuestion, BodyEnds,
        permissionVars, permVars, grantVars, rowVars, contextVars, Goto
<1>5. ChargeInv'
  BY ChargeFrame, ToolCallAssumption DEF IInv, TypeOK, AskInv, AskOf, Decisions,
      Allowances, AskingPcs, RunningPcs, QuestionPcs, EndPcs, AttemptPcs,
      ReceiveAnswer, CleanupQuestion, BodyEnds, permissionVars, permVars, grantVars,
      rowVars, contextVars, Goto
<1> QED
  BY <1>1, <1>2, <1>3, <1>4, <1>5 DEF IInv


LEMMA StopAskingStep ==
  ASSUME NEW a \in Attempts, IInv, StopAsking(a)
  PROVE  IInv'
<1>1. TypeOK'
  BY DEF IInv, TypeOK, AskingPcs, RunningPcs, QuestionPcs, EndPcs, AttemptPcs,
      StopAsking, CleanupQuestion, permissionVars, permVars, grantVars, rowVars,
      contextVars, Goto
<1>2. AskInv'
  <2>1. AskOf(a)' /\ (perm'[a] = perm[a] \/ perm[a] \notin Decisions)
    BY DEF IInv, TypeOK, AskInv, AskOf, Decisions, Allowances, AskingPcs, RunningPcs,
        QuestionPcs, EndPcs, AttemptPcs, StopAsking, CleanupQuestion, permissionVars,
        permVars, grantVars, rowVars, contextVars, Goto
  <2> QED
    BY <2>1, AskFrame DEF IInv, TypeOK, StopAsking, CleanupQuestion, permissionVars,
        permVars, grantVars, rowVars, contextVars, Goto
<1>3. QuestionInv'
  <2>1. a \in Interactive => QuestionOf(a)' /\ (question'[a] = question[a] \/ question[a] \notin Choices)
    BY QuestionAssumption, ToolCallAssumption DEF IInv, TypeOK, QuestionInv,
        QuestionOf, Unasked, AskingPcs, RunningPcs, QuestionPcs, EndPcs, AttemptPcs,
        StopAsking, CleanupQuestion, permissionVars, permVars, grantVars, rowVars,
        contextVars, Goto
  <2> QED
    BY <2>1, QuestionFrame, ToolCallAssumption DEF IInv, TypeOK, StopAsking,
        CleanupQuestion, permissionVars, permVars, grantVars, rowVars, contextVars,
        Goto
<1>4. RowInv'
  <2>1. /\ pc[a] = "qwait" /\ pc'[a] \in {"qclose"} /\ outcome'[a] = outcome[a]
        /\ callState' = callState /\ swept' = swept /\ RowOf(a)
    BY DEF IInv, TypeOK, RowInv, Outcomes, StopAsking, CleanupQuestion,
        permissionVars, permVars, grantVars, rowVars, contextVars, Goto
  <2>2. RowOf(a)' /\ (pc'[a] \in Started => pc[a] \in Started)
    BY <2>1 DEF RowOf, Started, RunningPcs, QuestionPcs
  <2> QED
    BY <2>2, RowFrame DEF IInv, TypeOK, StopAsking, CleanupQuestion, permissionVars,
        permVars, grantVars, rowVars, contextVars, Goto
<1>5. ChargeInv'
  BY ChargeFrame, ToolCallAssumption DEF IInv, TypeOK, AskInv, AskOf, Decisions,
      Allowances, AskingPcs, RunningPcs, QuestionPcs, EndPcs, AttemptPcs, StopAsking,
      CleanupQuestion, permissionVars, permVars, grantVars, rowVars, contextVars, Goto
<1> QED
  BY <1>1, <1>2, <1>3, <1>4, <1>5 DEF IInv


LEMMA CloseQuestionStep ==
  ASSUME NEW a \in Attempts, IInv, CloseQuestion(a)
  PROVE  IInv'
<1>1. TypeOK'
  BY DEF IInv, TypeOK, Grants, PermGrants, Decisions, Allowances, DeciderPcs,
      AnswererPcs, Idle, NoAnswer, Outcomes, AskingPcs, RunningPcs, QuestionPcs,
      EndPcs, AttemptPcs, CloseQuestion, MarkUnavailable, BodyEnds, permissionVars,
      permVars, grantVars, rowVars, contextVars, Goto
<1>2. AskInv'
  <2>1. AskOf(a)' /\ (perm'[a] = perm[a] \/ perm[a] \notin Decisions)
    BY DEF IInv, TypeOK, AskInv, AskOf, Decisions, Allowances, AskingPcs, RunningPcs,
        QuestionPcs, EndPcs, AttemptPcs, CloseQuestion, MarkUnavailable, BodyEnds,
        permissionVars, permVars, grantVars, rowVars, contextVars, Goto
  <2> QED
    BY <2>1, AskFrame DEF IInv, TypeOK, CloseQuestion, MarkUnavailable, BodyEnds,
        permissionVars, permVars, grantVars, rowVars, contextVars, Goto
<1>3. QuestionInv'
  <2>1. a \in Interactive => QuestionOf(a)' /\ (question'[a] = question[a] \/ question[a] \notin Choices)
    BY QuestionAssumption, ToolCallAssumption DEF IInv, TypeOK, QuestionInv,
        QuestionOf, Unasked, AskingPcs, RunningPcs, QuestionPcs, EndPcs, AttemptPcs,
        CloseQuestion, MarkUnavailable, BodyEnds, permissionVars, permVars, grantVars,
        rowVars, contextVars, Goto
  <2> QED
    BY <2>1, QuestionFrame, ToolCallAssumption DEF IInv, TypeOK, CloseQuestion,
        MarkUnavailable, BodyEnds, permissionVars, permVars, grantVars, rowVars,
        contextVars, Goto
<1>4. RowInv'
  <2>1. /\ pc[a] = "qclose" /\ pc'[a] \in {"finish"} /\ outcome'[a] \in Outcomes
        /\ callState' = callState /\ swept' = swept /\ RowOf(a)
    BY DEF IInv, TypeOK, RowInv, Outcomes, CloseQuestion, MarkUnavailable, BodyEnds,
        permissionVars, permVars, grantVars, rowVars, contextVars, Goto
  <2>2. RowOf(a)' /\ (pc'[a] \in Started => pc[a] \in Started)
    BY <2>1 DEF RowOf, Started, RunningPcs, QuestionPcs
  <2> QED
    BY <2>2, RowFrame DEF IInv, TypeOK, CloseQuestion, MarkUnavailable, BodyEnds,
        permissionVars, permVars, grantVars, rowVars, contextVars, Goto
<1>5. ChargeInv'
  BY ChargeFrame, ToolCallAssumption DEF IInv, TypeOK, AskInv, AskOf, Decisions,
      Allowances, AskingPcs, RunningPcs, QuestionPcs, EndPcs, AttemptPcs,
      CloseQuestion, MarkUnavailable, BodyEnds, permissionVars, permVars, grantVars,
      rowVars, contextVars, Goto
<1> QED
  BY <1>1, <1>2, <1>3, <1>4, <1>5 DEF IInv


LEMMA FinishStep ==
  ASSUME NEW a \in Attempts, IInv, Finish(a)
  PROVE  IInv'
<1>1. TypeOK'
  BY DEF IInv, TypeOK, AskingPcs, RunningPcs, QuestionPcs, EndPcs, AttemptPcs, Finish,
      SettleRow, permissionVars, permVars, grantVars, userQuestionVars, questionVars,
      contextVars, Goto
<1>2. AskInv'
  <2>1. AskOf(a)' /\ (perm'[a] = perm[a] \/ perm[a] \notin Decisions)
    BY DEF IInv, TypeOK, AskInv, AskOf, Decisions, Allowances, AskingPcs, RunningPcs,
        QuestionPcs, EndPcs, AttemptPcs, Finish, SettleRow, permissionVars, permVars,
        grantVars, userQuestionVars, questionVars, contextVars, Goto
  <2> QED
    BY <2>1, AskFrame DEF IInv, TypeOK, Finish, SettleRow, permissionVars, permVars,
        grantVars, userQuestionVars, questionVars, contextVars, Goto
<1>3. QuestionInv'
  <2>1. a \in Interactive => QuestionOf(a)' /\ (question'[a] = question[a] \/ question[a] \notin Choices)
    BY QuestionAssumption, ToolCallAssumption DEF IInv, TypeOK, QuestionInv,
        QuestionOf, Unasked, AskingPcs, RunningPcs, QuestionPcs, EndPcs, AttemptPcs,
        Finish, SettleRow, permissionVars, permVars, grantVars, userQuestionVars,
        questionVars, contextVars, Goto
  <2> QED
    BY <2>1, QuestionFrame, ToolCallAssumption DEF IInv, TypeOK, Finish, SettleRow,
        permissionVars, permVars, grantVars, userQuestionVars, questionVars,
        contextVars, Goto
<1>4. RowInv'
  <2>1. /\ pc[a] = "finish" /\ outcome' = outcome /\ swept' = swept /\ RowOf(a)
        /\ pc' = [pc EXCEPT ![a] = pc'[a]] /\ CallOf[a] \in CallIds /\ outcome[a] \in Outcomes
        /\ \/ pc'[a] = "returned" /\ callState' = [callState EXCEPT ![CallOf[a]] = outcome[a]]
           \/ pc'[a] = "unfiled" /\ callState' = callState
    BY ToolCallAssumption DEF IInv, TypeOK, RowInv, RowOf, Finish, SettleRow, Goto,
        contextVars
  <2>2. RowOf(a)'
    BY <2>1 DEF IInv, TypeOK, RowOf, Started, RunningPcs, QuestionPcs, Outcomes
  <2>3. ASSUME NEW b \in Attempts, b # a PROVE RowOf(b)'
    <3>1. RowOf(b) /\ pc'[b] = pc[b]
      BY <2>1, <2>3 DEF IInv, TypeOK, RowInv
    <3>2. pc[b] \in Started => callState'[CallOf[b]] = callState[CallOf[b]]
      <4>1. pc[a] \in Started
        BY <2>1 DEF Started, RunningPcs
      <4>2. pc[b] \in Started => CallOf[b] # CallOf[a]
        BY <2>3, <4>1 DEF IInv, RowInv
      <4>3. CallOf[b] \in CallIds /\ callState \in [CallIds -> Outcomes \cup {"none", "running"}]
        BY ToolCallAssumption DEF IInv, TypeOK
      <4> QED
        BY <2>1, <4>2, <4>3
    <3> QED
      BY <2>1, <3>1, <3>2 DEF RowOf, Started
  <2>4. \A b \in Attempts : pc'[b] \in Started => pc[b] \in Started
    BY <2>1 DEF IInv, TypeOK, Started, RunningPcs
  <2> QED
    BY <2>2, <2>3, <2>4 DEF IInv, RowInv
<1>5. ChargeInv'
  <2>1. \A b \in Attempts : pc'[b] \in RunningPcs => pc[b] \in RunningPcs
    BY DEF IInv, TypeOK, Finish, Goto, RunningPcs, QuestionPcs
  <2>2. \A d \in CallIds : callState[d] # "none" => callState'[d] # "none"
    BY DEF IInv, TypeOK, RowInv, RowOf, Finish, SettleRow, Outcomes
  <2> QED
    BY <2>1, <2>2, ToolCallAssumption DEF IInv, ChargeInv, RanAsAllowed, Finish,
        permissionVars, permVars
<1> QED
  BY <1>1, <1>2, <1>3, <1>4, <1>5 DEF IInv


LEMMA SweepStep ==
  ASSUME NEW a \in Attempts, IInv, Sweep(a)
  PROVE  IInv'
<1>1. TypeOK'
  BY DEF IInv, TypeOK, Grants, PermGrants, Decisions, Allowances, DeciderPcs,
      AnswererPcs, Idle, NoAnswer, Outcomes, Sweep, CancelIncomplete, permissionVars,
      permVars, grantVars, userQuestionVars, questionVars, attemptVars
<1>2. AskInv'
  <2>1. AskOf(a)' /\ (perm'[a] = perm[a] \/ perm[a] \notin Decisions)
    BY DEF IInv, TypeOK, AskInv, AskOf, Decisions, Allowances, AskingPcs, RunningPcs,
        QuestionPcs, EndPcs, AttemptPcs, Sweep, CancelIncomplete, permissionVars,
        permVars, grantVars, userQuestionVars, questionVars, attemptVars
  <2> QED
    BY <2>1, AskFrame DEF IInv, TypeOK, Sweep, CancelIncomplete, permissionVars,
        permVars, grantVars, userQuestionVars, questionVars, attemptVars
<1>3. QuestionInv'
  <2>1. a \in Interactive => QuestionOf(a)' /\ (question'[a] = question[a] \/ question[a] \notin Choices)
    BY QuestionAssumption, ToolCallAssumption DEF IInv, TypeOK, QuestionInv,
        QuestionOf, Unasked, AskingPcs, RunningPcs, QuestionPcs, EndPcs, AttemptPcs,
        Sweep, CancelIncomplete, permissionVars, permVars, grantVars,
        userQuestionVars, questionVars, attemptVars
  <2> QED
    BY <2>1, QuestionFrame, ToolCallAssumption DEF IInv, TypeOK, Sweep,
        CancelIncomplete, permissionVars, permVars, grantVars, userQuestionVars,
        questionVars, attemptVars
<1>4. RowInv'
  <2>1. /\ pc[a] \in {"denied", "returned", "unfiled"}
        /\ pc' = pc /\ outcome' = outcome /\ swept' = [swept EXCEPT ![a] = TRUE]
        /\ CancelIncomplete(RunOf[a])
    BY DEF Sweep, attemptVars
  <2>2. ASSUME NEW d \in CallIds
        PROVE  /\ callState'[d] \in {callState[d], "cancelled"}
               /\ callState'[d] # callState[d] => callState[d] = "running"
    BY <2>1 DEF CancelIncomplete
  <2>3. callState[CallOf[a]] = "running" => callState'[CallOf[a]] = "cancelled"
    BY <2>1, ToolCallAssumption DEF CancelIncomplete
  <2>4. ASSUME NEW b \in Attempts PROVE RowOf(b)'
    <3>1. pc[b] = "returned" => outcome[b] # "running"
      BY ToolCallAssumption DEF IInv, TypeOK, RowInv, RowOf, Outcomes
    <3>2. RowOf(b) /\ CallOf[b] \in CallIds /\ (swept'[b] => b = a \/ swept[b])
      BY <2>1, ToolCallAssumption DEF IInv, TypeOK, RowInv
    <3>3. CASE b = a
      BY <2>1, <2>2, <2>3, <3>1, <3>2, <3>3 DEF RowOf, Started, Outcomes
    <3>4. CASE b # a
      BY <2>1, <2>2, <3>1, <3>2, <3>4 DEF RowOf, Started, Outcomes
    <3> QED
      BY <3>3, <3>4
  <2> QED
    BY <2>1, <2>4 DEF IInv, RowInv
<1>5. ChargeInv'
  <2>1. \A d \in CallIds : callState[d] # "none" => callState'[d] # "none"
    BY DEF Sweep, CancelIncomplete
  <2> QED
    BY <2>1 DEF IInv, ChargeInv, RanAsAllowed, Sweep, attemptVars, permissionVars,
        permVars
<1> QED
  BY <1>1, <1>2, <1>3, <1>4, <1>5 DEF IInv


LEMMA InterruptStep ==
  ASSUME NEW a \in Attempts, IInv, Interrupt(a)
  PROVE  IInv'
<1>1. TypeOK'
  BY DEF IInv, TypeOK, Interrupt, permissionVars, permVars, grantVars,
      userQuestionVars, questionVars, attemptVars, rowVars
<1>2. AskInv'
  <2>1. AskOf(a)' /\ (perm'[a] = perm[a] \/ perm[a] \notin Decisions)
    BY DEF IInv, TypeOK, AskInv, AskOf, Decisions, Allowances, AskingPcs, RunningPcs,
        QuestionPcs, EndPcs, AttemptPcs, Interrupt, permissionVars, permVars,
        grantVars, userQuestionVars, questionVars, attemptVars, rowVars
  <2> QED
    BY <2>1, AskFrame DEF IInv, TypeOK, Interrupt, permissionVars, permVars,
        grantVars, userQuestionVars, questionVars, attemptVars, rowVars
<1>3. QuestionInv'
  <2>1. a \in Interactive => QuestionOf(a)' /\ (question'[a] = question[a] \/ question[a] \notin Choices)
    BY QuestionAssumption, ToolCallAssumption DEF IInv, TypeOK, QuestionInv,
        QuestionOf, Unasked, AskingPcs, RunningPcs, QuestionPcs, EndPcs, AttemptPcs,
        Interrupt, permissionVars, permVars, grantVars, userQuestionVars,
        questionVars, attemptVars, rowVars
  <2> QED
    BY <2>1, QuestionFrame, ToolCallAssumption DEF IInv, TypeOK, Interrupt,
        permissionVars, permVars, grantVars, userQuestionVars, questionVars,
        attemptVars, rowVars
<1>4. RowInv'
  <2>1. RowOf(a)' /\ (pc'[a] \in Started => pc[a] \in Started)
    BY ToolCallAssumption DEF IInv, TypeOK, RowInv, RowOf, Started, Unasked, Outcomes,
        AskingPcs, RunningPcs, QuestionPcs, EndPcs, AttemptPcs, Interrupt,
        permissionVars, permVars, grantVars, userQuestionVars, questionVars,
        attemptVars, rowVars
  <2> QED
    BY <2>1, RowFrame DEF IInv, TypeOK, Interrupt, permissionVars, permVars,
        grantVars, userQuestionVars, questionVars, attemptVars, rowVars
<1>5. ChargeInv'
  BY ChargeFrame, ToolCallAssumption DEF IInv, TypeOK, AskInv, AskOf, Decisions,
      Allowances, AskingPcs, RunningPcs, QuestionPcs, EndPcs, AttemptPcs, Interrupt,
      permissionVars, permVars, grantVars, userQuestionVars, questionVars,
      attemptVars, rowVars
<1> QED
  BY <1>1, <1>2, <1>3, <1>4, <1>5 DEF IInv


LEMMA ControlTaskStep ==
  ASSUME IInv, ControlTask
  PROVE  IInv'
<1>1. TypeOK'
  BY DEF IInv, TypeOK, ControlTask, permissionVars, permVars, grantVars,
      userQuestionVars, questionVars, attemptVars, rowVars
<1>2. AskInv'
  BY AskFrame DEF IInv, TypeOK, ControlTask, permissionVars, permVars, grantVars,
      userQuestionVars, questionVars, attemptVars, rowVars
<1>3. QuestionInv'
  BY QuestionFrame, ToolCallAssumption DEF IInv, TypeOK, ControlTask, permissionVars,
      permVars, grantVars, userQuestionVars, questionVars, attemptVars, rowVars
<1>4. RowInv'
  BY RowFrame DEF IInv, TypeOK, ControlTask, permissionVars, permVars, grantVars,
      userQuestionVars, questionVars, attemptVars, rowVars
<1>5. ChargeInv'
  BY ChargeFrame, ToolCallAssumption DEF IInv, TypeOK, Decisions, Allowances,
      ControlTask, permissionVars, permVars, grantVars, userQuestionVars,
      questionVars, attemptVars, rowVars
<1> QED
  BY <1>1, <1>2, <1>3, <1>4, <1>5 DEF IInv


LEMMA RevokeTaskGrantsStep ==
  ASSUME IInv, RevokeTaskGrants
  PROVE  IInv'
<1>1. TypeOK'
  BY DEF IInv, TypeOK, Grants, PermGrants, Allowances, RevokeTaskGrants, permVars,
      userQuestionVars, questionVars, attemptVars, rowVars, contextVars
<1>2. AskInv'
  BY AskFrame DEF IInv, TypeOK, RevokeTaskGrants, permVars, userQuestionVars,
      questionVars, attemptVars, rowVars, contextVars
<1>3. QuestionInv'
  BY QuestionFrame, ToolCallAssumption DEF IInv, TypeOK, RevokeTaskGrants, permVars,
      userQuestionVars, questionVars, attemptVars, rowVars, contextVars
<1>4. RowInv'
  BY RowFrame DEF IInv, TypeOK, RevokeTaskGrants, permVars, userQuestionVars,
      questionVars, attemptVars, rowVars, contextVars
<1>5. ChargeInv'
  BY ChargeFrame, ToolCallAssumption DEF IInv, TypeOK, Decisions, Allowances,
      RevokeTaskGrants, permVars, userQuestionVars, questionVars, attemptVars,
      rowVars, contextVars
<1> QED
  BY <1>1, <1>2, <1>3, <1>4, <1>5 DEF IInv


LEMMA CrashStep ==
  ASSUME IInv, Crash
  PROVE  IInv'
<1>1. TypeOK'
  BY DEF IInv, TypeOK, Grants, PermGrants, Decisions, Allowances, DeciderPcs,
      AnswererPcs, Idle, NoAnswer, Outcomes, AskingPcs, RunningPcs, QuestionPcs,
      EndPcs, AttemptPcs, Crash, grantVars, rowVars, contextVars
<1>2. AskInv'
  <2>1. ASSUME NEW b \in Attempts
        PROVE  \/ pc'[b] = "lost"
               \/ pc'[b] = pc[b] /\ pc[b] \in {"idle", "denied", "returned", "unfiled", "lost"}
    <3>1. pc' = [x \in Attempts |-> IF pc[x] \in {"idle"} \cup EndPcs THEN pc[x] ELSE "lost"]
      BY DEF Crash
    <3> QED
      BY <3>1 DEF EndPcs
  <2>2. ASSUME NEW b \in Attempts PROVE AskOf(b)'
    <3>1. AskOf(b) /\ waiter'[b] = "none" /\ UNCHANGED <<perm, got>>
      BY DEF IInv, AskInv, Crash
    <3> QED
      BY <2>1, <3>1 DEF AskOf, AskingPcs, Decisions, Allowances
  <2>3. \A k \in Deciders : Place(k)' # "notify"
    BY DEF Crash, Place, Idle
  <2> QED
    BY <2>2, <2>3 DEF AskInv
<1>3. QuestionInv'
  <2>1. ASSUME NEW b \in Attempts
        PROVE  \/ pc'[b] = "lost"
               \/ pc'[b] = pc[b] /\ pc[b] \in {"idle", "denied", "returned", "unfiled", "lost"}
    <3>1. pc' = [x \in Attempts |-> IF pc[x] \in {"idle"} \cup EndPcs THEN pc[x] ELSE "lost"]
      BY DEF Crash
    <3> QED
      BY <3>1 DEF EndPcs
  <2>2. ASSUME NEW b \in Interactive PROVE QuestionOf(b)'
    <3>1. QuestionOf(b) /\ qwaiter'[b] \notin Choices /\ UNCHANGED <<question, heard>> /\ b \in Attempts
      BY QuestionAssumption, ToolCallAssumption DEF IInv, QuestionInv, Crash
    <3> QED
      BY <2>1, <3>1 DEF QuestionOf, Unasked, AskingPcs
  <2>3. \A k \in Answerers : answerer'[k][1] # "notify"
    BY DEF Crash, NoAnswer
  <2> QED
    BY <2>2, <2>3 DEF QuestionInv
<1>4. RowInv'
  <2>1. ASSUME NEW b \in Attempts
        PROVE  \/ pc'[b] = "lost"
               \/ pc'[b] = pc[b] /\ pc[b] \in {"idle", "denied", "returned", "unfiled", "lost"}
    <3>1. pc' = [x \in Attempts |-> IF pc[x] \in {"idle"} \cup EndPcs THEN pc[x] ELSE "lost"]
      BY DEF Crash
    <3> QED
      BY <3>1 DEF EndPcs
  <2>2. ASSUME NEW b \in Attempts
        PROVE  RowOf(b)' /\ (pc'[b] \in Started => pc[b] \in Started)
    <3>1. RowOf(b) /\ UNCHANGED <<outcome, swept, callState>>
      BY DEF IInv, RowInv, Crash, rowVars, contextVars
    <3>2. swept[b] => pc'[b] = pc[b]
      BY <3>1 DEF RowOf, Crash, EndPcs
    <3> QED
      BY <2>1, <3>1, <3>2 DEF RowOf, Started, RunningPcs, QuestionPcs
  <2> QED
    BY <2>2, RowFrame DEF IInv, Crash, rowVars
<1>5. ChargeInv'
  <2>1. ASSUME NEW b \in Attempts
        PROVE  \/ pc'[b] = "lost"
               \/ pc'[b] = pc[b] /\ pc[b] \in {"idle", "denied", "returned", "unfiled", "lost"}
    <3>1. pc' = [x \in Attempts |-> IF pc[x] \in {"idle"} \cup EndPcs THEN pc[x] ELSE "lost"]
      BY DEF Crash
    <3> QED
      BY <3>1 DEF EndPcs
  <2>2. \A b \in Attempts : pc'[b] \in RunningPcs => pc[b] \in RunningPcs
    BY <2>1 DEF RunningPcs, QuestionPcs
  <2> QED
    BY <2>2, ChargeFrame DEF IInv, Crash, rowVars
<1> QED
  BY <1>1, <1>2, <1>3, <1>4, <1>5 DEF IInv


LEMMA DecideStep ==
  ASSUME NEW k \in Deciders, IInv, Decide(k),
         UNCHANGED <<userQuestionVars, attemptVars, rowVars, contextVars>>
  PROVE  IInv'
<1>1. TypeOK'
  <2>1. PICK b \in Attempts, d \in Offered :
          decider' = [decider EXCEPT ![k] = <<IF d = "deny" THEN "mark" ELSE "issue", b, d>>]
    BY DEF Decide
  <2>2. /\ decider' = [decider EXCEPT ![k] = decider'[k]] /\ Place(k) # "notify"
        /\ decider'[k] \in {Idle} \cup ((DeciderPcs \ {"notify"}) \X Attempts \X Decisions)
        /\ UNCHANGED <<pc, perm, waiter, got>>
    BY <2>1, PermissionAssumption DEF IInv, TypeOK, DeciderPcs, Decide, Place,
        permVars, grantVars, userQuestionVars, questionVars, attemptVars, rowVars,
        contextVars
  <2> QED
    BY <2>2, DeciderFrame DEF IInv, TypeOK, Decide, Place, permVars, grantVars,
        userQuestionVars, questionVars, attemptVars, rowVars, contextVars
<1>2. AskInv'
  <2>1. PICK b \in Attempts, d \in Offered :
          decider' = [decider EXCEPT ![k] = <<IF d = "deny" THEN "mark" ELSE "issue", b, d>>]
    BY DEF Decide
  <2>2. /\ decider' = [decider EXCEPT ![k] = decider'[k]] /\ Place(k) # "notify"
        /\ decider'[k] \in {Idle} \cup ((DeciderPcs \ {"notify"}) \X Attempts \X Decisions)
        /\ UNCHANGED <<pc, perm, waiter, got>>
    BY <2>1, PermissionAssumption DEF IInv, TypeOK, DeciderPcs, Decide, Place,
        permVars, grantVars, userQuestionVars, questionVars, attemptVars, rowVars,
        contextVars
  <2> QED
    BY <2>2, DeciderFrame DEF IInv
<1>3. QuestionInv'
  BY QuestionFrame, ToolCallAssumption DEF IInv, TypeOK, Decide, Place, permVars,
      grantVars, userQuestionVars, questionVars, attemptVars, rowVars, contextVars
<1>4. RowInv'
  BY RowFrame DEF IInv, TypeOK, Decide, Place, permVars, grantVars, userQuestionVars,
      questionVars, attemptVars, rowVars, contextVars
<1>5. ChargeInv'
  BY ChargeFrame, ToolCallAssumption DEF IInv, TypeOK, Decisions, Allowances, Decide,
      Place, permVars, grantVars, userQuestionVars, questionVars, attemptVars,
      rowVars, contextVars
<1> QED
  BY <1>1, <1>2, <1>3, <1>4, <1>5 DEF IInv


LEMMA IssueGrantStep ==
  ASSUME NEW k \in Deciders, IInv, IssueGrant(k),
         UNCHANGED <<userQuestionVars, attemptVars, rowVars, contextVars>>
  PROVE  IInv'
<1>1. TypeOK'
  <2>1. decider[k] \in DeciderPcs \X Attempts \X Decisions /\ decider[k][1] = "issue"
    BY DEF IInv, TypeOK, IssueGrant, Place, Idle
  <2>2. /\ decider' = [decider EXCEPT ![k] = decider'[k]] /\ Place(k) # "notify"
        /\ decider'[k] \in {Idle} \cup ((DeciderPcs \ {"notify"}) \X Attempts \X Decisions)
        /\ UNCHANGED <<pc, perm, waiter, got>>
    BY <2>1, PermissionAssumption DEF IInv, TypeOK, DeciderPcs, IssueGrant, MoveTo,
        Place, Asked, Choice, Idle, permVars, userQuestionVars, questionVars,
        attemptVars, rowVars, contextVars
  <2>3. grant' \in [Grants -> {"none", "live", "revoked"}]
    BY DEF IInv, TypeOK, IssueGrant
  <2> QED
    BY <2>2, <2>3, DeciderFrame DEF IInv, TypeOK, IssueGrant, MoveTo, Place, Asked,
        Choice, Idle, permVars, userQuestionVars, questionVars, attemptVars, rowVars,
        contextVars
<1>2. AskInv'
  <2>1. decider[k] \in DeciderPcs \X Attempts \X Decisions /\ decider[k][1] = "issue"
    BY DEF IInv, TypeOK, IssueGrant, Place, Idle
  <2>2. /\ decider' = [decider EXCEPT ![k] = decider'[k]] /\ Place(k) # "notify"
        /\ decider'[k] \in {Idle} \cup ((DeciderPcs \ {"notify"}) \X Attempts \X Decisions)
        /\ UNCHANGED <<pc, perm, waiter, got>>
    BY <2>1, PermissionAssumption DEF IInv, TypeOK, DeciderPcs, IssueGrant, MoveTo,
        Place, Asked, Choice, Idle, permVars, userQuestionVars, questionVars,
        attemptVars, rowVars, contextVars
  <2> QED
    BY <2>2, DeciderFrame DEF IInv
<1>3. QuestionInv'
  BY QuestionFrame, ToolCallAssumption DEF IInv, TypeOK, IssueGrant, MoveTo, Place,
      Asked, Choice, Idle, permVars, userQuestionVars, questionVars, attemptVars,
      rowVars, contextVars
<1>4. RowInv'
  BY RowFrame DEF IInv, TypeOK, IssueGrant, MoveTo, Place, Asked, Choice, Idle,
      permVars, userQuestionVars, questionVars, attemptVars, rowVars, contextVars
<1>5. ChargeInv'
  BY ChargeFrame, ToolCallAssumption DEF IInv, TypeOK, Decisions, Allowances,
      IssueGrant, MoveTo, Place, Asked, Choice, Idle, permVars, userQuestionVars,
      questionVars, attemptVars, rowVars, contextVars
<1> QED
  BY <1>1, <1>2, <1>3, <1>4, <1>5 DEF IInv


LEMMA AppendTrustStep ==
  ASSUME NEW k \in Deciders, IInv, AppendTrust(k),
         UNCHANGED <<userQuestionVars, attemptVars, rowVars, contextVars>>
  PROVE  IInv'
<1>1. TypeOK'
  <2>1. decider[k] \in DeciderPcs \X Attempts \X Decisions /\ decider[k][1] = "trust"
    BY DEF IInv, TypeOK, AppendTrust, Place, Idle
  <2>2. /\ decider' = [decider EXCEPT ![k] = decider'[k]] /\ Place(k) # "notify"
        /\ decider'[k] \in {Idle} \cup ((DeciderPcs \ {"notify"}) \X Attempts \X Decisions)
        /\ UNCHANGED <<pc, perm, waiter, got>>
    BY <2>1, PermissionAssumption DEF IInv, TypeOK, DeciderPcs, AppendTrust, MoveTo,
        Place, Asked, Choice, Idle, permVars, grantVars, userQuestionVars,
        questionVars, attemptVars, rowVars, contextVars
  <2> QED
    BY <2>2, DeciderFrame DEF IInv, TypeOK, AppendTrust, MoveTo, Place, Asked, Choice,
        Idle, permVars, grantVars, userQuestionVars, questionVars, attemptVars,
        rowVars, contextVars
<1>2. AskInv'
  <2>1. decider[k] \in DeciderPcs \X Attempts \X Decisions /\ decider[k][1] = "trust"
    BY DEF IInv, TypeOK, AppendTrust, Place, Idle
  <2>2. /\ decider' = [decider EXCEPT ![k] = decider'[k]] /\ Place(k) # "notify"
        /\ decider'[k] \in {Idle} \cup ((DeciderPcs \ {"notify"}) \X Attempts \X Decisions)
        /\ UNCHANGED <<pc, perm, waiter, got>>
    BY <2>1, PermissionAssumption DEF IInv, TypeOK, DeciderPcs, AppendTrust, MoveTo,
        Place, Asked, Choice, Idle, permVars, grantVars, userQuestionVars,
        questionVars, attemptVars, rowVars, contextVars
  <2> QED
    BY <2>2, DeciderFrame DEF IInv
<1>3. QuestionInv'
  BY QuestionFrame, ToolCallAssumption DEF IInv, TypeOK, AppendTrust, MoveTo, Place,
      Asked, Choice, Idle, permVars, grantVars, userQuestionVars, questionVars,
      attemptVars, rowVars, contextVars
<1>4. RowInv'
  BY RowFrame DEF IInv, TypeOK, AppendTrust, MoveTo, Place, Asked, Choice, Idle,
      permVars, grantVars, userQuestionVars, questionVars, attemptVars, rowVars,
      contextVars
<1>5. ChargeInv'
  BY ChargeFrame, ToolCallAssumption DEF IInv, TypeOK, Decisions, Allowances,
      AppendTrust, MoveTo, Place, Asked, Choice, Idle, permVars, grantVars,
      userQuestionVars, questionVars, attemptVars, rowVars, contextVars
<1> QED
  BY <1>1, <1>2, <1>3, <1>4, <1>5 DEF IInv


LEMMA MarkDecidedStep ==
  ASSUME NEW k \in Deciders, IInv, MarkDecided(k),
         UNCHANGED <<userQuestionVars, attemptVars, rowVars, contextVars>>
  PROVE  IInv'
<1>1. TypeOK'
  <2>1. PICK b0 \in Attempts, d \in Decisions : decider[k] = <<"mark", b0, d>>
    BY DEF IInv, TypeOK, MarkDecided, Place, Idle, DeciderPcs
  <2>2. /\ UNCHANGED <<pc, got, waiter>>
        /\ \/ perm[b0] = "pending" /\ perm' = [perm EXCEPT ![b0] = d]
              /\ decider' = [decider EXCEPT ![k] = <<"notify", b0, d>>]
           \/ UNCHANGED perm /\ decider' = [decider EXCEPT ![k] = Idle]
    BY <2>1 DEF MarkDecided, MoveTo, Asked, Choice, attemptVars
  <2>3. decider' \in [Deciders -> {Idle} \cup (DeciderPcs \X Attempts \X Decisions)]
    BY <2>2 DEF IInv, TypeOK, DeciderPcs
  <2>4. perm' \in [Attempts -> {"none", "pending"} \cup Decisions]
    BY <2>2 DEF IInv, TypeOK
  <2> QED
    BY <2>2, <2>3, <2>4 DEF IInv, TypeOK, MarkDecided, grantVars, userQuestionVars,
        questionVars, attemptVars, rowVars, contextVars
<1>2. AskInv'
  <2>1. PICK b0 \in Attempts, d \in Decisions : decider[k] = <<"mark", b0, d>>
    BY DEF IInv, TypeOK, MarkDecided, Place, Idle, DeciderPcs
  <2>2. /\ UNCHANGED <<pc, got, waiter>>
        /\ \/ perm[b0] = "pending" /\ perm' = [perm EXCEPT ![b0] = d]
              /\ decider' = [decider EXCEPT ![k] = <<"notify", b0, d>>]
           \/ UNCHANGED perm /\ decider' = [decider EXCEPT ![k] = Idle]
    BY <2>1 DEF MarkDecided, MoveTo, Asked, Choice, attemptVars
  <2>3. CASE UNCHANGED perm /\ decider' = [decider EXCEPT ![k] = Idle]
    <3>1. Place(k) # "notify"
      BY <2>1 DEF Place
    <3> QED
      BY <2>2, <2>3, <3>1, DeciderFrame DEF IInv
  <2>4. CASE /\ perm[b0] = "pending" /\ perm' = [perm EXCEPT ![b0] = d]
             /\ decider' = [decider EXCEPT ![k] = <<"notify", b0, d>>]
    <3>1. /\ \A h \in Deciders : decider'[h] = IF h = k THEN <<"notify", b0, d>> ELSE decider[h]
          /\ \A b \in Attempts : perm'[b] = IF b = b0 THEN d ELSE perm[b]
      BY <2>4 DEF IInv, TypeOK
    <3>2. "pending" \notin Decisions
      BY DEF Decisions, Allowances
    <3>3. ASSUME NEW b \in Attempts PROVE AskOf(b)'
      <4>1. AskOf(b)
        BY DEF IInv, AskInv
      <4>2. CASE b = b0
        <5>1. decider'[k] = <<"notify", b, perm'[b]>>
          BY <3>1, <4>2
        <5> QED
          BY <2>2, <2>4, <3>1, <3>2, <4>1, <4>2, <5>1 DEF AskOf
      <4>3. CASE b # b0
        <5>1. perm'[b] = perm[b]
          BY <3>1, <4>3
        <5>2. ASSUME NEW h \in Deciders, decider[h] = <<"notify", b, perm[b]>>
              PROVE  decider'[h] = <<"notify", b, perm[b]>>
          BY <2>1, <3>1, <5>2
        <5> QED
          BY <2>2, <4>1, <5>1, <5>2 DEF AskOf
      <4> QED
        BY <4>2, <4>3
    <3>4. ASSUME NEW h \in Deciders, decider'[h][1] = "notify"
          PROVE  perm'[decider'[h][2]] = decider'[h][3]
      <4>1. CASE h = k
        BY <3>1, <4>1
      <4>2. CASE h # k
        <5>1. /\ decider'[h] = decider[h] /\ decider[h] \in DeciderPcs \X Attempts \X Decisions
              /\ perm[decider[h][2]] = decider[h][3]
          BY <3>1, <3>4, <4>2 DEF IInv, TypeOK, AskInv, Place, Asked, Choice, Idle
        <5> QED
          BY <2>4, <3>1, <3>2, <5>1
      <4> QED
        BY <4>1, <4>2
    <3> QED
      BY <3>3, <3>4 DEF AskInv, Place, Asked, Choice
  <2> QED
    BY <2>2, <2>3, <2>4
<1>3. QuestionInv'
  BY QuestionFrame, ToolCallAssumption DEF IInv, TypeOK, MarkDecided, MoveTo, Place,
      Asked, Choice, Idle, grantVars, userQuestionVars, questionVars, attemptVars,
      rowVars, contextVars
<1>4. RowInv'
  BY RowFrame DEF IInv, TypeOK, MarkDecided, MoveTo, Place, Asked, Choice, Idle,
      grantVars, userQuestionVars, questionVars, attemptVars, rowVars, contextVars
<1>5. ChargeInv'
  BY ChargeFrame, ToolCallAssumption DEF IInv, TypeOK, Decisions, Allowances,
      MarkDecided, MoveTo, Place, Asked, Choice, Idle, grantVars, userQuestionVars,
      questionVars, attemptVars, rowVars, contextVars
<1> QED
  BY <1>1, <1>2, <1>3, <1>4, <1>5 DEF IInv


LEMMA NotifyStep ==
  ASSUME NEW k \in Deciders, IInv, Notify(k),
         UNCHANGED <<userQuestionVars, attemptVars, rowVars, contextVars>>
  PROVE  IInv'
<1>1. TypeOK'
  BY DEF IInv, TypeOK, Grants, PermGrants, Decisions, Allowances, DeciderPcs,
      AnswererPcs, Idle, NoAnswer, Outcomes, Notify, MoveTo, Place, Asked, Choice,
      grantVars, userQuestionVars, questionVars, attemptVars, rowVars, contextVars
<1>2. AskInv'
  <2>1. PICK b0 \in Attempts, d \in Decisions : decider[k] = <<"notify", b0, d>>
    BY DEF IInv, TypeOK, Notify, Place, Idle, DeciderPcs
  <2>2. /\ UNCHANGED <<pc, got, perm>> /\ decider' = [decider EXCEPT ![k] = Idle]
        /\ waiter' = [waiter EXCEPT ![b0] = IF @ = "empty" THEN d ELSE @]
        /\ perm[b0] = d
    BY <2>1 DEF IInv, AskInv, Notify, MoveTo, Place, Asked, Choice, attemptVars
  <2>3. /\ \A h \in Deciders : decider'[h] = IF h = k THEN Idle ELSE decider[h]
        /\ \A b \in Attempts : b # b0 => waiter'[b] = waiter[b]
        /\ waiter'[b0] = IF waiter[b0] = "empty" THEN d ELSE waiter[b0]
        /\ waiter[b0] \in {"none", "empty"} \cup Decisions
    BY <2>2 DEF IInv, TypeOK
  <2>4. ASSUME NEW b \in Attempts PROVE AskOf(b)'
    <3>1. AskOf(b)
      BY DEF IInv, AskInv
    <3>2. CASE b = b0
      BY <2>2, <2>3, <3>1, <3>2 DEF AskOf, Decisions, Allowances
    <3>3. CASE b # b0
      <4>1. ASSUME NEW h \in Deciders, decider[h] = <<"notify", b, perm[b]>>
            PROVE  decider'[h] = <<"notify", b, perm[b]>>
        BY <2>1, <2>3, <3>3, <4>1
      <4> QED
        BY <2>2, <2>3, <3>1, <3>3, <4>1 DEF AskOf
    <3> QED
      BY <3>2, <3>3
  <2>5. \A h \in Deciders : decider'[h][1] = "notify" => decider'[h] = decider[h]
    BY <2>3 DEF Idle
  <2> QED
    BY <2>2, <2>4, <2>5 DEF IInv, AskInv, Place, Asked, Choice
<1>3. QuestionInv'
  BY QuestionFrame, ToolCallAssumption DEF IInv, TypeOK, Notify, MoveTo, Place, Asked,
      Choice, Idle, grantVars, userQuestionVars, questionVars, attemptVars, rowVars,
      contextVars
<1>4. RowInv'
  BY RowFrame DEF IInv, TypeOK, Notify, MoveTo, Place, Asked, Choice, Idle, grantVars,
      userQuestionVars, questionVars, attemptVars, rowVars, contextVars
<1>5. ChargeInv'
  BY ChargeFrame, ToolCallAssumption DEF IInv, TypeOK, Decisions, Allowances, Notify,
      MoveTo, Place, Asked, Choice, Idle, grantVars, userQuestionVars, questionVars,
      attemptVars, rowVars, contextVars
<1> QED
  BY <1>1, <1>2, <1>3, <1>4, <1>5 DEF IInv


LEMMA AnswerStep ==
  ASSUME NEW k \in Answerers, IInv, Answer(k),
         UNCHANGED <<permissionVars, attemptVars, rowVars, contextVars>>
  PROVE  IInv'
<1>1. TypeOK'
  BY DEF IInv, TypeOK, Grants, PermGrants, Decisions, Allowances, DeciderPcs,
      AnswererPcs, Idle, NoAnswer, Outcomes, Answer, permissionVars, permVars,
      grantVars, questionVars, attemptVars, rowVars, contextVars
<1>2. AskInv'
  BY AskFrame DEF IInv, TypeOK, Answer, NoAnswer, permissionVars, permVars, grantVars,
      questionVars, attemptVars, rowVars, contextVars
<1>3. QuestionInv'
  <2>1. UNCHANGED <<question, qwaiter, pc, heard>>
    BY DEF Answer, questionVars, attemptVars
  <2>2. \A a \in Interactive : QuestionOf(a)'
    BY <2>1 DEF IInv, QuestionInv, QuestionOf
  <2>3. \A h \in Answerers : answerer'[h][1] = "notify" => answerer'[h] = answerer[h]
    BY DEF IInv, TypeOK, Answer
  <2> QED
    BY <2>1, <2>2, <2>3 DEF IInv, QuestionInv
<1>4. RowInv'
  BY RowFrame DEF IInv, TypeOK, Answer, NoAnswer, permissionVars, permVars, grantVars,
      questionVars, attemptVars, rowVars, contextVars
<1>5. ChargeInv'
  BY ChargeFrame, ToolCallAssumption DEF IInv, TypeOK, Decisions, Allowances, Answer,
      NoAnswer, permissionVars, permVars, grantVars, questionVars, attemptVars,
      rowVars, contextVars
<1> QED
  BY <1>1, <1>2, <1>3, <1>4, <1>5 DEF IInv


LEMMA MarkAnsweredStep ==
  ASSUME NEW k \in Answerers, IInv, MarkAnswered(k),
         UNCHANGED <<permissionVars, attemptVars, rowVars, contextVars>>
  PROVE  IInv'
<1>1. TypeOK'
  BY DEF IInv, TypeOK, Grants, PermGrants, Decisions, Allowances, DeciderPcs,
      AnswererPcs, Idle, NoAnswer, Outcomes, MarkAnswered, permissionVars, permVars,
      grantVars, attemptVars, rowVars, contextVars
<1>2. AskInv'
  BY AskFrame DEF IInv, TypeOK, MarkAnswered, NoAnswer, permissionVars, permVars,
      grantVars, attemptVars, rowVars, contextVars
<1>3. QuestionInv'
  <2>1. PICK b0 \in Interactive, x \in Choices : answerer[k] = <<"mark", b0, x>>
    BY DEF IInv, TypeOK, MarkAnswered, NoAnswer, AnswererPcs
  <2>2. /\ UNCHANGED <<pc, heard, qwaiter>>
        /\ \/ question[b0] = "pending" /\ question' = [question EXCEPT ![b0] = x]
              /\ answerer' = [answerer EXCEPT ![k] = <<"notify", b0, x>>]
           \/ UNCHANGED question /\ answerer' = [answerer EXCEPT ![k] = NoAnswer]
    BY <2>1 DEF MarkAnswered, attemptVars
  <2>3. "pending" \notin Choices
    BY QuestionAssumption
  <2>4. ASSUME NEW b \in Interactive PROVE QuestionOf(b)'
    <3>1. QuestionOf(b)
      BY DEF IInv, QuestionInv
    <3>2. question'[b] = question[b] \/ question[b] = "pending"
      BY <2>2 DEF IInv, TypeOK
    <3> QED
      BY <2>2, <2>3, <3>1, <3>2 DEF QuestionOf
  <2>5. ASSUME NEW h \in Answerers, answerer'[h][1] = "notify"
        PROVE  question'[answerer'[h][2]] = answerer'[h][3]
    <3>1. CASE h = k
      BY <2>2, <2>5, <3>1 DEF IInv, TypeOK, NoAnswer
    <3>2. CASE h # k
      <4>1. /\ answerer'[h] = answerer[h]
            /\ answerer[h][2] \in Interactive /\ answerer[h][3] \in Choices
            /\ question[answerer[h][2]] = answerer[h][3]
        BY <2>2, <2>5, <3>2 DEF IInv, TypeOK, QuestionInv, NoAnswer
      <4> QED
        BY <2>2, <2>3, <4>1 DEF IInv, TypeOK
    <3> QED
      BY <3>1, <3>2
  <2> QED
    BY <2>4, <2>5 DEF QuestionInv
<1>4. RowInv'
  BY RowFrame DEF IInv, TypeOK, MarkAnswered, NoAnswer, permissionVars, permVars,
      grantVars, attemptVars, rowVars, contextVars
<1>5. ChargeInv'
  BY ChargeFrame, ToolCallAssumption DEF IInv, TypeOK, Decisions, Allowances,
      MarkAnswered, NoAnswer, permissionVars, permVars, grantVars, attemptVars,
      rowVars, contextVars
<1> QED
  BY <1>1, <1>2, <1>3, <1>4, <1>5 DEF IInv


LEMMA NotifyAnswerStep ==
  ASSUME NEW k \in Answerers, IInv, NotifyAnswer(k),
         UNCHANGED <<permissionVars, attemptVars, rowVars, contextVars>>
  PROVE  IInv'
<1>1. TypeOK'
  BY DEF IInv, TypeOK, Grants, PermGrants, Decisions, Allowances, DeciderPcs,
      AnswererPcs, Idle, NoAnswer, Outcomes, NotifyAnswer, permissionVars, permVars,
      grantVars, attemptVars, rowVars, contextVars
<1>2. AskInv'
  BY AskFrame DEF IInv, TypeOK, NotifyAnswer, NoAnswer, permissionVars, permVars,
      grantVars, attemptVars, rowVars, contextVars
<1>3. QuestionInv'
  <2>1. PICK b0 \in Interactive, x \in Choices : answerer[k] = <<"notify", b0, x>>
    BY DEF IInv, TypeOK, NotifyAnswer, NoAnswer, AnswererPcs
  <2>2. /\ UNCHANGED <<pc, heard, question>> /\ answerer' = [answerer EXCEPT ![k] = NoAnswer]
        /\ qwaiter' = [qwaiter EXCEPT ![b0] = IF @ = "empty" THEN x ELSE @]
        /\ question[b0] = x
    BY <2>1 DEF IInv, QuestionInv, NotifyAnswer, attemptVars
  <2>3. ASSUME NEW b \in Interactive PROVE QuestionOf(b)'
    <3>1. QuestionOf(b) /\ (qwaiter'[b] = qwaiter[b] \/ (b = b0 /\ qwaiter'[b] = x))
      BY <2>2 DEF IInv, TypeOK, QuestionInv
    <3> QED
      BY <2>2, <3>1 DEF QuestionOf
  <2>4. \A h \in Answerers : answerer'[h][1] = "notify" => answerer'[h] = answerer[h]
    BY <2>2 DEF IInv, TypeOK, NoAnswer
  <2> QED
    BY <2>2, <2>3, <2>4 DEF IInv, QuestionInv
<1>4. RowInv'
  BY RowFrame DEF IInv, TypeOK, NotifyAnswer, NoAnswer, permissionVars, permVars,
      grantVars, attemptVars, rowVars, contextVars
<1>5. ChargeInv'
  BY ChargeFrame, ToolCallAssumption DEF IInv, TypeOK, Decisions, Allowances,
      NotifyAnswer, NoAnswer, permissionVars, permVars, grantVars, attemptVars,
      rowVars, contextVars
<1> QED
  BY <1>1, <1>2, <1>3, <1>4, <1>5 DEF IInv


-----------------------------------------------------------------------------

\* Every step, and every stutter, keeps the invariant.
LEMMA NextIInv == IInv /\ [Next]_vars => IInv'
<1> SUFFICES ASSUME IInv, [Next]_vars PROVE IInv'
  OBVIOUS
<1>1. CASE \E a \in Attempts : \/ Begin(a) \/ Execute(a) \/ GiveUpWaiting(a) \/ StopAsking(a)
                               \/ Sweep(a) \/ Interrupt(a)
  BY <1>1, BeginStep, StartFreeStep, StartGrantedStep, AskOrDenyStep,
      RegisterWaiterStep,
     CreatePendingStep, LookAtRowStep, OpenWaiterStep, ReceiveDecisionStep, RunToolStep,
     AskUserStep, CreateQuestionStep, RegisterAskerStep, ReceiveAnswerStep, CloseQuestionStep,
     FinishStep, GiveUpWaitingStep, StopAskingStep, SweepStep, InterruptStep DEF Execute
<1>2. CASE PeopleAct
  BY <1>2, DecideStep, IssueGrantStep, AppendTrustStep, MarkDecidedStep, NotifyStep,
     AnswerStep, MarkAnsweredStep, NotifyAnswerStep DEF PeopleAct, DeciderRuns, AnswererRuns
<1>3. CASE ControlTask \/ RevokeTaskGrants \/ Crash
  BY <1>3, ControlTaskStep, RevokeTaskGrantsStep, CrashStep
<1>4. CASE UNCHANGED vars
  <2> USE <1>4 DEF vars, permissionVars, permVars, grantVars, userQuestionVars, questionVars,
          attemptVars, rowVars, contextVars
  <2>1. TypeOK'
    BY DEF IInv, TypeOK
  <2>2. AskInv'
    BY AskFrame DEF IInv
  <2>3. QuestionInv'
    BY QuestionFrame DEF IInv
  <2>4. RowInv'
    BY RowFrame DEF IInv
  <2>5. ChargeInv'
    BY ChargeFrame DEF IInv
  <2> QED
    BY <2>1, <2>2, <2>3, <2>4, <2>5 DEF IInv
<1> QED
  BY <1>1, <1>2, <1>3, <1>4 DEF Next

-----------------------------------------------------------------------------
(* Charges.                                                                *)

\* Only the start of a call charges a grant.
LEMMA ChargingSteps ==
  ASSUME [Next]_vars
  PROVE  \/ \E a \in Attempts, g \in Grants : Chosen(a, g) /\ pc[a] = "authorize" /\ RecordStart(a, g)
         \/ \E a \in Attempts : RecordStart(a, NoGrant)
         \/ UNCHANGED <<used, charged>>
<1>1. CASE \E a \in Attempts : \/ Begin(a) \/ Execute(a) \/ GiveUpWaiting(a) \/ StopAsking(a)
                               \/ Sweep(a) \/ Interrupt(a)
  <2>1. PICK a \in Attempts : \/ Begin(a) \/ Execute(a) \/ GiveUpWaiting(a) \/ StopAsking(a)
                              \/ Sweep(a) \/ Interrupt(a)
    BY <1>1
  <2>2. CASE StartFree(a)
    BY <2>2 DEF StartFree
  <2>3. CASE StartGranted(a)
    <3>1. Candidates(a) \subseteq Grants
      BY DEF Candidates, Grants, PermGrants
    <3> QED
      BY <2>3, <3>1 DEF StartGranted
  <2>4. CASE \/ AskOrDeny(a) \/ RegisterWaiter(a) \/ CreatePending(a) \/ LookAtRow(a)
             \/ OpenWaiter(a) \/ ReceiveDecision(a) \/ GiveUpWaiting(a)
    BY <2>4 DEF AskOrDeny, RegisterWaiter, CreatePending, LookAtRow, OpenWaiter,
        ReceiveDecision,
       GiveUpWaiting, permissionVars, grantVars, rowVars
  <2>5. CASE \/ RunTool(a) \/ AskUser(a) \/ CreateQuestion(a) \/ RegisterAsker(a)
             \/ ReceiveAnswer(a) \/ StopAsking(a) \/ CloseQuestion(a)
    BY <2>5 DEF RunTool, AskUser, CreateQuestion, RegisterAsker, ReceiveAnswer,
        StopAsking,
       CloseQuestion, permissionVars, grantVars, rowVars
  <2>6. CASE Begin(a) \/ Finish(a) \/ Sweep(a) \/ Interrupt(a)
    BY <2>6 DEF Begin, Finish, Sweep, Interrupt, permissionVars, grantVars, rowVars
  <2> QED
    BY <2>1, <2>2, <2>3, <2>4, <2>5, <2>6 DEF Execute
<1>2. CASE PeopleAct
  BY <1>2 DEF PeopleAct, Decide, DeciderRuns, IssueGrant, AppendTrust, MarkDecided,
      Notify,
     permissionVars, grantVars, rowVars
<1>3. CASE ControlTask \/ RevokeTaskGrants \/ Crash
  BY <1>3 DEF ControlTask, RevokeTaskGrants, Crash, permissionVars, grantVars, rowVars
<1>4. CASE UNCHANGED vars
  BY <1>4 DEF vars, permissionVars, grantVars, rowVars
<1> QED
  BY <1>1, <1>2, <1>3, <1>4 DEF Next

\* What a grant is charged is the number of the rows it started.
LEMMA ChargesCounted ==
  ASSUME IInv, ChargedByRows, [Next]_vars
  PROVE  ChargedByRows'
<1> DEFINE Rows(g) == {c \in CallIds : charged[c] = g}
<1>1. CASE UNCHANGED <<used, charged>>
  BY <1>1 DEF ChargedByRows
<1>2. ASSUME NEW a \in Attempts, NEW g \in Grants \cup {NoGrant},
             g \in Grants => used[g] < MaxCalls(g), RecordStart(a, g)
      PROVE  ChargedByRows'
  <2>1. CASE UNCHANGED <<used, rowVars>>
    BY <1>1, <2>1 DEF rowVars
  <2>2. CASE /\ callState[CallOf[a]] = "none"
             /\ charged' = [charged EXCEPT ![CallOf[a]] = g]
             /\ used' = IF g = NoGrant THEN used ELSE [used EXCEPT ![g] = @ + 1]
    <3>1. /\ CallOf[a] \in CallIds /\ charged[CallOf[a]] = NoGrant /\ IsFiniteSet(CallIds)
          /\ charged \in [CallIds -> Grants \cup {NoGrant}] /\ used \in [Grants -> Nat]
      BY <2>2, ToolCallAssumption DEF IInv, TypeOK, ChargeInv
    <3>2. NoGrant \notin Grants
      BY DEF NoGrant, Grants, PermGrants, Allowances
    <3>3. ASSUME NEW h \in Grants
          PROVE  (used[h] <= MaxCalls(h) /\ used[h] = Cardinality(Rows(h)))'
      <4>1. used[h] <= MaxCalls(h) /\ used[h] = Cardinality(Rows(h))
        BY DEF ChargedByRows
      <4>2. CASE h # g
        <5>1. Rows(h)' = Rows(h) /\ used'[h] = used[h]
          BY <2>2, <3>1, <3>2, <4>2
        <5> QED
          BY <4>1, <5>1
      <4>3. CASE h = g
        <5>1. Rows(h)' = Rows(h) \cup {CallOf[a]} /\ CallOf[a] \notin Rows(h)
          BY <2>2, <3>1, <3>2, <4>3
        <5>2. IsFiniteSet(Rows(h))
          BY <3>1, FS_Subset
        <5>3. Cardinality(Rows(h)') = Cardinality(Rows(h)) + 1
          BY <5>1, <5>2, FS_AddElement
        <5>4. used'[h] = used[h] + 1 /\ used[h] < MaxCalls(h) /\ MaxCalls(h) \in Nat
          BY <1>2, <2>2, <3>1, <3>2, <4>3, PermissionAssumption DEF MaxCalls
        <5> QED
          BY <3>1, <4>1, <5>3, <5>4 DEF MaxCalls
      <4> QED
        BY <4>2, <4>3
    <3> QED
      BY <3>3 DEF ChargedByRows, MaxCalls
  <2> QED
    BY <1>2, <2>1, <2>2 DEF RecordStart
<1>3. ASSUME NEW a \in Attempts, RecordStart(a, NoGrant) PROVE ChargedByRows'
  <2>1. NoGrant \notin Grants
    BY DEF NoGrant, Grants, PermGrants, Allowances
  <2> QED
    BY <1>2, <1>3, <2>1
<1>4. ASSUME NEW a \in Attempts, NEW g \in Grants, Chosen(a, g), RecordStart(a, g)
      PROVE  ChargedByRows'
  <2>1. used[g] < MaxCalls(g)
    BY <1>4 DEF Chosen, Usable
  <2> QED
    BY <1>2, <1>4, <2>1
<1> QED
  BY <1>1, <1>3, <1>4, ChargingSteps

-----------------------------------------------------------------------------
(* The contract of asking.                                                 *)

\* A step of the broker and of the people who decide is one of the contract.
LEMMA PermissionSteps ==
  ASSUME IInv, [Next]_vars
  PROVE  [Permission!AskNext]_(Permission!askVars)
<1> USE DEF Permission!AskNext, Permission!Ask, Permission!Record, Permission!Tell,
        Permission!GiveUp, Permission!askVars
<1>1. ASSUME NEW a \in Attempts, CreatePending(a)
      PROVE  Permission!Ask(a) \/ Permission!GiveUp(a)
  <2>1. AskOf(a) /\ pc[a] = "insert"
    BY <1>1 DEF IInv, AskInv, CreatePending
  <2> QED
    BY <1>1, <2>1 DEF AskOf, AskingPcs, CreatePending, InsertPending
<1>2. ASSUME NEW a \in Attempts, LookAtRow(a) \/ ReceiveDecision(a)
      PROVE  Permission!Tell(a) \/ UNCHANGED <<perm, got>>
  <2>1. AskOf(a) /\ got[a] = "nothing" /\ (waiter[a] \in Decisions => perm[a] = waiter[a])
    BY <1>2 DEF IInv, AskInv, AskOf, AskingPcs, LookAtRow, ReceiveDecision
  <2> QED
    BY <1>2, <2>1 DEF LookAtRow, ReceiveDecision, Obey, AlreadyDecided,
        permissionVars, permVars
<1>3. ASSUME NEW a \in Attempts, GiveUpWaiting(a) PROVE Permission!GiveUp(a)
  <2>1. got[a] = "nothing"
    BY <1>3 DEF IInv, AskInv, AskOf, AskingPcs, GiveUpWaiting
  <2> QED
    BY <1>3, <2>1 DEF GiveUpWaiting
<1>4. ASSUME NEW k \in Deciders, MarkDecided(k), UNCHANGED attemptVars
      PROVE  Permission!AskNext \/ UNCHANGED <<perm, got>>
  <2>1. Asked(k) \in Attempts /\ Choice(k) \in Decisions
    BY <1>4 DEF IInv, TypeOK, MarkDecided, Place, Asked, Choice, Idle
  <2> QED
    BY <1>4, <2>1 DEF MarkDecided, attemptVars
<1>5. ASSUME NEW a \in Attempts,
             \/ Begin(a) \/ StartFree(a) \/ StartGranted(a) \/ AskOrDeny(a) \/ RegisterWaiter(a)
             \/ OpenWaiter(a) \/ RunTool(a) \/ AskUser(a) \/ CreateQuestion(a) \/ RegisterAsker(a)
      PROVE  UNCHANGED <<perm, got>>
  BY <1>5 DEF Begin, StartFree, StartGranted, AskOrDeny, RegisterWaiter, OpenWaiter,
      RunTool,
     AskUser, CreateQuestion, RegisterAsker, permissionVars, permVars
<1>6. ASSUME NEW a \in Attempts,
             \/ ReceiveAnswer(a) \/ CloseQuestion(a) \/ Finish(a) \/ StopAsking(a) \/ Sweep(a)
             \/ Interrupt(a)
      PROVE  UNCHANGED <<perm, got>>
  BY <1>6 DEF ReceiveAnswer, CloseQuestion, Finish, StopAsking, Sweep, Interrupt,
     permissionVars, permVars, attemptVars
<1>7. CASE PeopleAct
  <2>1. ASSUME NEW k \in Deciders, Decide(k) \/ IssueGrant(k) \/ AppendTrust(k) \/ Notify(k)
        PROVE  UNCHANGED perm
    BY <2>1 DEF Decide, IssueGrant, AppendTrust, Notify, permVars
  <2> QED
    BY <1>4, <1>7, <2>1 DEF PeopleAct, DeciderRuns, attemptVars, permissionVars,
        permVars
<1>8. CASE ControlTask \/ RevokeTaskGrants \/ Crash \/ UNCHANGED vars
  BY <1>8 DEF ControlTask, RevokeTaskGrants, Crash, vars, permissionVars, permVars,
      attemptVars
<1> QED
  BY <1>1, <1>2, <1>3, <1>5, <1>6, <1>7, <1>8 DEF Next, Execute

\* So is a step of ask_user and of the people who answer.
LEMMA QuestionSteps ==
  ASSUME IInv, [Next]_vars
  PROVE  [Question!AskNext]_(Question!askVars)
<1> USE DEF Question!AskNext, Question!Ask, Question!Record, Question!Tell,
        Question!GiveUp, Question!askVars
<1>1. ASSUME NEW a \in Interactive, CreateQuestion(a)
      PROVE  Question!Ask(a) \/ Question!GiveUp(a)
  <2>1. question[a] = "none" /\ heard[a] = "nothing"
    BY <1>1 DEF IInv, QuestionInv, QuestionOf, Unasked, CreateQuestion
  <2> QED
    BY <1>1, <2>1 DEF CreateQuestion, InsertQuestion
<1>2. ASSUME NEW a \in Interactive, ReceiveAnswer(a) PROVE Question!Tell(a)
  <2>1. heard[a] = "nothing" /\ question[a] = qwaiter[a]
    BY <1>2 DEF IInv, QuestionInv, QuestionOf, ReceiveAnswer
  <2> QED
    BY <1>2, <2>1 DEF ReceiveAnswer
<1>3. ASSUME NEW a \in Interactive, StopAsking(a) PROVE Question!GiveUp(a)
  <2>1. heard[a] = "nothing"
    BY <1>3 DEF IInv, QuestionInv, QuestionOf, StopAsking
  <2> QED
    BY <1>3, <2>1 DEF StopAsking
<1>4. ASSUME NEW a \in Interactive, CloseQuestion(a)
      PROVE  Question!Record(a, "unavailable") \/ UNCHANGED <<question, heard>>
  BY <1>4 DEF IInv, TypeOK, CloseQuestion, MarkUnavailable
<1>5. ASSUME NEW a \in Attempts,
             CreateQuestion(a) \/ ReceiveAnswer(a) \/ StopAsking(a) \/ CloseQuestion(a)
      PROVE  a \in Interactive
  BY <1>5 DEF CreateQuestion, ReceiveAnswer, StopAsking, CloseQuestion
<1>6. ASSUME NEW k \in Answerers, MarkAnswered(k), UNCHANGED attemptVars
      PROVE  Question!AskNext \/ UNCHANGED <<question, heard>>
  <2>1. answerer[k][2] \in Interactive /\ answerer[k][3] \in Choices
    BY <1>6 DEF IInv, TypeOK, MarkAnswered, NoAnswer
  <2> QED
    BY <1>6, <2>1 DEF MarkAnswered, attemptVars
<1>7. ASSUME NEW a \in Attempts,
             \/ Begin(a) \/ StartFree(a) \/ StartGranted(a) \/ AskOrDeny(a) \/ RegisterWaiter(a)
             \/ CreatePending(a) \/ LookAtRow(a) \/ OpenWaiter(a) \/ ReceiveDecision(a)
      PROVE  UNCHANGED <<question, heard>>
  BY <1>7 DEF Begin, StartFree, StartGranted, AskOrDeny, RegisterWaiter,
      CreatePending, LookAtRow,
     OpenWaiter, ReceiveDecision, userQuestionVars, questionVars
<1>8. ASSUME NEW a \in Attempts,
             \/ GiveUpWaiting(a) \/ RunTool(a) \/ AskUser(a) \/ RegisterAsker(a) \/ Finish(a)
             \/ Sweep(a) \/ Interrupt(a)
      PROVE  UNCHANGED <<question, heard>>
  BY <1>8 DEF GiveUpWaiting, RunTool, AskUser, RegisterAsker, Finish, Sweep, Interrupt,
     userQuestionVars, questionVars, attemptVars
<1>9. CASE PeopleAct
  <2>1. ASSUME NEW k \in Answerers, Answer(k) \/ NotifyAnswer(k)
        PROVE  UNCHANGED question
    BY <2>1 DEF Answer, NotifyAnswer, questionVars
  <2> QED
    BY <1>6, <1>9, <2>1 DEF PeopleAct, AnswererRuns, attemptVars, userQuestionVars,
        questionVars
<1>10. CASE ControlTask \/ RevokeTaskGrants \/ Crash \/ UNCHANGED vars
  BY <1>10 DEF ControlTask, RevokeTaskGrants, Crash, vars, userQuestionVars,
      questionVars, attemptVars
<1> QED
  BY <1>1, <1>2, <1>3, <1>4, <1>5, <1>7, <1>8, <1>9, <1>10 DEF Next, Execute

-----------------------------------------------------------------------------

\* What every reachable state of attempts, rows, permissions and questions has in
\* common.
THEOREM Invariant == Spec => []IInv
<1> QED
  BY InitIInv, NextIInv, PTL DEF Spec

\* Every variable keeps its type.
THEOREM TypeCorrect == Spec => []TypeOK
<1>1. IInv => TypeOK
  BY DEF IInv
<1> QED
  BY <1>1, Invariant, PTL

\* A tool that needs approval runs only under a grant, a permission's grant only
\* for the call that asked and by the recorded decision.
THEOREM RunsOnlyAsAllowed == Spec => []RanAsAllowed
<1>1. IInv => RanAsAllowed
  BY DEF IInv, ChargeInv
<1> QED
  BY <1>1, Invariant, PTL

\* Whatever executors sweep, the row of a call that returned tells its outcome.
THEOREM RowsTellOutcomes == Spec => []RowTellsOutcome
<1>1. IInv => RowTellsOutcome
  BY DEF IInv, RowInv, RowOf, RowTellsOutcome
<1> QED
  BY <1>1, Invariant, PTL

\* A recorded decision lies in the channel of the broker that waits for it, or
\* will be put there.
THEOREM DecisionsArrive == Spec => []DecisionIsOnItsWay
<1>1. IInv => DecisionIsOnItsWay
  BY DEF IInv, AskInv, AskOf, DecisionIsOnItsWay
<1> QED
  BY <1>1, Invariant, PTL

\* Charge and row are one transaction: whatever fails, a grant is charged once
\* for each call it started, and never beyond its limit.
THEOREM ChargedOnce == Spec => []ChargedByRows
<1>1. Init => ChargedByRows
  <2> SUFFICES ASSUME Init, NEW g \in Grants
               PROVE  used[g] <= MaxCalls(g) /\ used[g] = Cardinality({c \in CallIds : charged[c] = g})
    BY DEF ChargedByRows
  <2>1. NoGrant \notin Grants
    BY DEF NoGrant, Grants, PermGrants, Allowances
  <2>2. {c \in CallIds : charged[c] = g} = {}
    BY <2>1 DEF Init
  <2>3. Cardinality({c \in CallIds : charged[c] = g}) = 0
    BY <2>2, FS_EmptySet
  <2>4. used[g] = 0 /\ MaxCalls(g) \in Nat
    BY PermissionAssumption DEF Init, PermissionInit, MaxCalls
  <2> QED
    BY <2>3, <2>4
<1>2. IInv /\ ChargedByRows /\ [Next]_vars => ChargedByRows'
  BY ChargesCounted
<1> QED
  BY <1>1, <1>2, Invariant, PTL DEF Spec

\* The permission of the broker and the question of ask_user both implement the
\* contract of asking: recorded once, and told as recorded.
THEOREM AskingIsKept == Spec => KeepsAskContract
<1>1. Init => Permission!AskInit /\ Question!AskInit
  BY DEF Init, PermissionInit, QuestionInit, Permission!AskInit, Question!AskInit
<1>2. IInv /\ [Next]_vars => [Permission!AskNext]_(Permission!askVars)
  BY PermissionSteps
<1>3. IInv /\ [Next]_vars => [Question!AskNext]_(Question!askVars)
  BY QuestionSteps
<1> QED
  BY <1>1, <1>2, <1>3, Invariant, PTL DEF Spec, KeepsAskContract, Permission!AskSpec,
      Question!AskSpec

=============================================================================
