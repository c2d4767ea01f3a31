--------------------------- MODULE MCModelStream ---------------------------
(* Instances of ModelStream for TLC. *)
EXTENDS ModelStreamProperties

CONSTANTS r1, r2, t1, t2, s1

AllRuns == [s \in Subs |-> Runs]

=============================================================================
