---------------------------- MODULE UserQuestion ----------------------------
(***************************************************************************)
(* A question of the ask_user tool: its row in user_questions, the         *)
(* in-process Waiter, and the people who answer through the gateway.  A    *)
(* call of the tool asks once, so a question is named by the call.         *)
(***************************************************************************)
CONSTANTS
  Interactive, \* calls whose caller may ask a person
  Answerers,   \* requests to answer a question
  Choices      \* valid answers

ASSUME QuestionAssumption ==
  /\ Interactive # {} /\ Choices # {}
  /\ Choices \cap {"none", "empty", "pending", "unavailable", "nothing", "gaveUp"} = {}

VARIABLES
  question,      \* rows: "none", "pending", "unavailable" or the answer
  qwaiter,       \* Waiter.wait: "none", "empty" or the decision in the channel
  answerer       \* <<its place, the question it answers, its answer>>

questionVars == <<question, qwaiter>>
userQuestionVars == <<questionVars, answerer>>

NoAnswer == <<"idle", "none", "none">>
AnswererPcs == {"mark", "notify"}

QuestionInit ==
  /\ question = [a \in Interactive |-> "none"]
  /\ qwaiter = [a \in Interactive |-> "none"]
  /\ answerer = [k \in Answerers |-> NoAnswer]

-----------------------------------------------------------------------------
(* The tool's side: Service.CreatePending, Waiter.Wait, MarkUnavailable.   *)

\* Store.Insert, before anybody waits.
InsertQuestion(a) ==
  question' = [question EXCEPT ![a] = "pending"]

RegisterQuestion(a) ==
  qwaiter' = [qwaiter EXCEPT ![a] = IF @ = "none" THEN "empty" ELSE @]

CleanupQuestion(a) ==
  qwaiter' = [qwaiter EXCEPT ![a] = "none"]

\* Mutant: the state of the row is not looked at.
MarkUnavailableBlindly(a) ==
  question' = [question EXCEPT ![a] = "unavailable"]

\* MarkUnavailable closes a question that is still pending; the Notify that
\* follows finds no waiter, its asker has left.
MarkUnavailable(a) ==
  question' = [question EXCEPT ![a] = IF @ = "pending" THEN "unavailable" ELSE @]

-----------------------------------------------------------------------------
(* The gateway's side: Service.Answer.                                     *)

\* A valid answer is read against a pending row.
Answer(k) ==
  /\ answerer[k] = NoAnswer
  /\ \E a \in Interactive, x \in Choices :
       /\ question[a] = "pending"
       /\ answerer' = [answerer EXCEPT ![k] = <<"mark", a, x>>]
  /\ UNCHANGED questionVars

MarkAnswered(k) ==
  /\ answerer[k][1] = "mark"
  /\ LET a == answerer[k][2]  x == answerer[k][3] IN
     \/ /\ question[a] = "pending"
        /\ question' = [question EXCEPT ![a] = x]
        /\ answerer' = [answerer EXCEPT ![k] = <<"notify", a, x>>]
     \/ /\ question[a] # "pending"
        /\ answerer' = [answerer EXCEPT ![k] = NoAnswer]
        /\ UNCHANGED question
  /\ UNCHANGED qwaiter

NotifyAnswer(k) ==
  /\ answerer[k][1] = "notify"
  /\ LET a == answerer[k][2] IN
     qwaiter' = [qwaiter EXCEPT ![a] = IF @ = "empty" THEN answerer[k][3] ELSE @]
  /\ answerer' = [answerer EXCEPT ![k] = NoAnswer]
  /\ UNCHANGED question

AnswererRuns(k) == MarkAnswered(k) \/ NotifyAnswer(k)

=============================================================================
