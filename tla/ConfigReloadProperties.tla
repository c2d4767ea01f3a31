----------------------- MODULE ConfigReloadProperties -----------------------
(* What reload and model switch keep together, checked on ConfigReload.    *)
EXTENDS ConfigReload

vars == configVars

Spec == ConfigInit /\ [][ConfigNext]_vars

-----------------------------------------------------------------------------

TypeOK ==
  /\ file \in Contents /\ edits \in 0..MaxEdits
  /\ boot \in {"loaded", "noted", "watching"}
  /\ event \in BOOLEAN /\ armed \in BOOLEAN /\ dirty \in BOOLEAN
  /\ reloader \in ReloaderPcs
  /\ mu \in {Free} \cup ((Selectors \cup {"reload"}) \X Stages \X Endpoints \X Versions)
  /\ main \in Endpoints /\ fingerprint \in Endpoints /\ failed \in BOOLEAN
  /\ suppressed \in BOOLEAN /\ missed \in BOOLEAN
  /\ agentProvider \in Endpoints /\ agentModel \in Models /\ chatModel \in Models
  /\ shown \in Models \X BOOLEAN
  /\ reply \in [Selectors -> Models \cup {"none"}]

\* Whenever nobody holds the runtime's mutex, agent, chat and runtime name the
\* same endpoint, and the recorded fingerprint is that endpoint's, however
\* reloads and switches alternate: applyMainLocked is five calls into three
\* objects, each with a lock of its own.  Only startup, which records the
\* file's fingerprint and not the endpoint's, may leave the two apart, until a
\* file is loaded again (which a set loadError forces).
EndpointsAgree ==
  Unlocked => /\ agentProvider = main
              /\ agentModel = main[1] /\ chatModel = main[1]
              /\ fingerprint = main \/ missed \/ failed

\* No notice of a change is lost on its way through the watcher: once nothing
\* is pending any more, the daemon runs on what the file says, or reports that
\* the file cannot be used.  A change made while a reload runs costs another
\* round, and one made within a switch is seen by the next.  The exceptions are
\* the changes the code ignores on purpose, or before it watches ("missed").
Pending == event \/ armed \/ reloader # "idle" \/ ~Unlocked

QuietMeansCurrent ==
  (boot = "watching" /\ ~Pending /\ ~missed) =>
    IF file = Broken THEN failed ELSE ~failed /\ main = file


-----------------------------------------------------------------------------

\* What a reader of PUT /v1/config/model expects and the code does not keep:
\* the handler stores the reply after the mutex, over a newer snapshot.
ShownIsMain ==
  (Unlocked /\ ~Pending /\ \A k \in Selectors : reply[k] = "none") => shown = <<main[1], failed>>

\* The runner's two setters are two critical sections: a turn that takes its
\* snapshot in between runs one provider with the other's model.
NeverTorn == agentModel = agentProvider[1]

=============================================================================
