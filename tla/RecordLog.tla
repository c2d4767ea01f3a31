----------------------------- MODULE RecordLog -----------------------------
(***************************************************************************)
(* Restore and repair against what they are meant to do, on every sequence *)
(* of records that grows one record at a time, with every outcome of the   *)
(* tools.                                                                  *)
(***************************************************************************)
EXTENDS RunRecords

CONSTANTS
  LogCalls,    \* the tool calls of the run
  LogRecords,  \* the records tried
  MaxLen       \* bound: the longest sequence tried

ASSUME RecordLogAssumption ==
  \A rec \in LogRecords :
    /\ rec \in [type : {"input", "assistant", "result"}, calls : Seq(LogCalls), ok : BOOLEAN,
                from : {rec.from}]
    /\ rec.type = "input" => rec.calls = <<>>
    /\ rec.type = "result" => Len(rec.calls) = 1

VARIABLES
  records,  \* the log, or the view that is repaired
  ended     \* how the tool_calls rows ended

logVars == <<records, ended>>

LogInit == records = <<>> /\ ended \in [LogCalls -> {"succeeded", "failed"}]

Grow ==
  /\ Len(records) < MaxLen
  /\ \E rec \in LogRecords : records' = Append(records, rec)
  /\ UNCHANGED ended

LogSpec == LogInit /\ [][Grow]_logVars

-----------------------------------------------------------------------------

\* restore accepts exactly the logs in which results follow their assistant in
\* the order of its calls, the prompt comes first and each result tells what its
\* tool_calls row tells (ADR-030).
RestoreAgrees == RestoreIsExact(records, ended)

\* Whatever a view looks like, after the repair every call is followed by its
\* result and no result stands alone; and the repair invents and drops results
\* only: everything else stays in place, and a view in which nothing is missing
\* is not changed at all.
RepairPairs == RepairIsExact(records)

=============================================================================
