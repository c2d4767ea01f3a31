--------------------- MODULE SessionMetadataProperties ---------------------
(***************************************************************************)
(* What the rewrites of a session's metadata keep when nobody interferes,  *)
(* and what the comments of the code promise beyond that.                  *)
(***************************************************************************)
EXTENDS SessionMetadata

\* A request nobody interferes with does exactly what it asks for, in one
\* statement or in six: it creates the session or binds its workspace if there
\* is none, sets its field and carries over the others.  Rows read by requests
\* that change nothing in between do no harm.
DoesWhatIsAsked ==
  [][\A q \in Requests :
       (Step(q) /\ request'[q] = Idle /\ ~overlapped[q]) => session' = expected[q]]_vars

-----------------------------------------------------------------------------

\* What the code's comments promise and interleaved rewrites do not keep: the
\* first workspace that is bound stays.
FirstBindWins ==
  [][(session # Absent /\ session.workspace # None) =>
       session'.workspace = session.workspace]_vars

=============================================================================
