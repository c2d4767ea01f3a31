---------------------------- MODULE MCRunRecords ----------------------------
(* An instance of RecordLog for TLC: two calls, repeated in a batch or not. *)
EXTENDS RecordLog

CONSTANTS a, b, s1

TwoCalls ==
  {Prompt, User(s1), Final, Assistant(<<a>>), Assistant(<<a, b>>), Assistant(<<b, b>>)}
    \cup { Result(c, ok) : c \in LogCalls, ok \in BOOLEAN }

=============================================================================
