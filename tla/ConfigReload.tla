---------------------------- MODULE ConfigReload ----------------------------
(***************************************************************************)
(* The model the daemon runs on: agent.json, the watcher that notices its  *)
(* changes (configreload), the runtime that reloads it or switches the     *)
(* model (providerruntime) and the copies that agent, chat and gateway     *)
(* keep.  The runtime's mutex serializes reload and switch; the file, the  *)
(* agent's own mutex and the gateway's are outside it.                     *)
(*                                                                         *)
(* A file selects a model and configures its provider in some version: the *)
(* pair is what Fingerprint tells apart and what a client is built from.   *)
(* A file that cannot be loaded or used is Broken.                         *)
(***************************************************************************)
EXTENDS Naturals

CONSTANTS
  Models, Versions,
  Selectors,   \* requests to PUT /v1/config/model
  MaxEdits     \* bound: how often somebody writes the file

ASSUME ConfigAssumption ==
  /\ "reload" \notin Selectors
  /\ MaxEdits \in Nat

VARIABLES
  file,                       \* what is on disk
  edits,
  boot,                       \* startup: "loaded", "noted", then "watching"
  event, armed,               \* Watcher: unread fsnotify event, debounce timer
  reloader, dirty,            \* Watcher.fire: its place, and another round is due
  mu,                         \* Runtime.mu: <<>> or <<holder, stage, endpoint, version
                              \* in the document WriteSelectedModel read>>
  main, fingerprint, failed,  \* Runtime: endpoint, fingerprint, loadError is set
  suppressed,                 \* now is before suppressUntil
  agentProvider, agentModel,  \* agent.Runner: two fields, two critical sections
  chatModel,
  shown,                      \* gateway: <<model, has an error>>
  reply,                      \* what a selector is about to store in the gateway
  missed                      \* a change of the file was ignored

watchVars == <<event, armed, reloader, dirty>>
runtimeVars == <<main, fingerprint, failed>>
copyVars == <<agentProvider, agentModel, chatModel>>
configVars == <<file, edits, boot, watchVars, mu, runtimeVars, suppressed,
                copyVars, shown, reply, missed>>

-----------------------------------------------------------------------------

Broken == <<"broken">>
Endpoints == Models \X Versions
Contents == Endpoints \cup {Broken}

Free == <<>>
Unlocked == mu = Free
Stages == {"write", "rename", "provider", "model", "record"}
ReloaderPcs == {"idle", "change", "holding", "after"}

\* A daemon that loaded a usable file; without one, chat is never bound.
ConfigInit ==
  /\ file \in Endpoints
  /\ edits = 0 /\ boot = "loaded"
  /\ event = FALSE /\ armed = FALSE /\ reloader = "idle" /\ dirty = FALSE
  /\ mu = Free
  /\ main = file /\ fingerprint = file /\ failed = FALSE
  /\ suppressed = FALSE
  /\ agentProvider = file /\ agentModel = file[1] /\ chatModel = file[1]
  /\ shown = <<file[1], FALSE>>
  /\ reply = [k \in Selectors |-> "none"]
  /\ missed = FALSE

-----------------------------------------------------------------------------
(* Startup and the file.                                                   *)

\* NoteFingerprint records the file's fingerprint, not that of the endpoint in use.
NoteFingerprint ==
  /\ boot = "loaded" /\ Unlocked
  /\ boot' = "noted"
  /\ fingerprint' = IF file = Broken THEN fingerprint ELSE <<main[1], file[2]>>
  /\ UNCHANGED <<file, edits, watchVars, mu, main, failed, suppressed,
                 copyVars, shown, reply, missed>>

StartWatching ==
  /\ boot = "noted"
  /\ boot' = "watching"
  /\ UNCHANGED <<file, edits, watchVars, mu, runtimeVars, suppressed,
                 copyVars, shown, reply, missed>>

\* Somebody writes the file; before the watcher starts nobody notices.
Edit ==
  /\ edits < MaxEdits
  /\ edits' = edits + 1
  /\ file' \in Contents
  /\ event' = (event \/ boot = "watching")
  /\ missed' = (missed \/ boot # "watching")
  /\ UNCHANGED <<boot, armed, reloader, dirty, mu, runtimeVars, suppressed,
                 copyVars, shown, reply>>

-----------------------------------------------------------------------------
(* The watcher.                                                            *)

\* schedule: the timer is stopped and started again.
NoticeEvent ==
  /\ event
  /\ event' = FALSE /\ armed' = TRUE
  /\ UNCHANGED <<file, edits, boot, reloader, dirty, mu, runtimeVars,
                 suppressed, copyVars, shown, reply, missed>>

\* Mutant: a change that is noticed while a reload runs is dropped.
FireLossy ==
  /\ armed
  /\ armed' = FALSE
  /\ reloader' = IF reloader = "idle" THEN "change" ELSE reloader
  /\ UNCHANGED <<file, edits, boot, event, dirty, mu, runtimeVars,
                 suppressed, copyVars, shown, reply, missed>>

\* fire: start the reload, or have the one that runs go round again.
Fire ==
  /\ armed
  /\ armed' = FALSE
  /\ \/ /\ reloader = "idle"
        /\ reloader' = "change" /\ dirty' = FALSE
     \/ /\ reloader # "idle"
        /\ dirty' = TRUE
        /\ UNCHANGED reloader
  /\ UNCHANGED <<file, edits, boot, event, mu, runtimeVars,
                 suppressed, copyVars, shown, reply, missed>>

AfterChange ==
  /\ reloader = "after"
  /\ reloader' = IF dirty THEN "change" ELSE "idle"
  /\ dirty' = FALSE
  /\ UNCHANGED <<file, edits, boot, event, armed, mu, runtimeVars,
                 suppressed, copyVars, shown, reply, missed>>

-----------------------------------------------------------------------------
(* ReloadFromDisk.                                                         *)

\* Within the suppression window after a switch nothing is looked at.
IgnoreReload ==
  /\ reloader = "change" /\ Unlocked /\ suppressed
  /\ reloader' = "after"
  /\ missed' = (missed \/ file # main)
  /\ UNCHANGED <<file, edits, boot, event, armed, dirty, mu, runtimeVars,
                 suppressed, copyVars, shown, reply>>

\* A file that cannot be loaded leaves the endpoint alone and sets loadError.
FailReload ==
  /\ reloader = "change" /\ Unlocked /\ ~suppressed
  /\ file = Broken
  /\ failed' = TRUE
  /\ shown' = <<main[1], TRUE>>
  /\ missed' = FALSE
  /\ reloader' = "after"
  /\ UNCHANGED <<file, edits, boot, event, armed, dirty, mu, main, fingerprint,
                 suppressed, copyVars, reply>>

\* A known fingerprint changes nothing; otherwise the new endpoint is applied.
LoadFile ==
  /\ reloader = "change" /\ Unlocked /\ ~suppressed
  /\ file # Broken
  /\ \/ /\ file = fingerprint /\ ~failed
        /\ reloader' = "after"
        /\ UNCHANGED mu
     \/ /\ file # fingerprint \/ failed
        /\ reloader' = "holding"
        /\ mu' = <<"reload", "provider", file, file[2]>>
  /\ UNCHANGED <<file, edits, boot, event, armed, dirty, runtimeVars,
                 suppressed, copyVars, shown, reply, missed>>

-----------------------------------------------------------------------------
(* SelectModel.                                                            *)

\* Refused while the last load failed; the model in use is just confirmed; any
\* other is resolved from the file as it is now.
ResolveModel(k) ==
  /\ reply[k] = "none" /\ Unlocked /\ ~failed
  /\ \E m \in Models :
       \/ /\ m = main[1] /\ file # Broken
          /\ reply' = [reply EXCEPT ![k] = m]
          /\ UNCHANGED <<mu, suppressed>>
       \/ /\ m # main[1] /\ file # Broken
          /\ mu' = <<k, "write", <<m, file[2]>>, file[2]>>
          /\ suppressed' = TRUE
          /\ UNCHANGED reply
  /\ UNCHANGED <<file, edits, boot, watchVars, runtimeVars, copyVars, shown, missed>>

\* WriteSelectedModel reads the document and renames a copy with the new selection
\* over it: what was written in between is lost.  Either may fail.
WriteSelectedModel(k) ==
  /\ mu # Free /\ mu[1] = k
  /\ \/ /\ mu[2] = "write" /\ file # Broken
        /\ mu' = [mu EXCEPT ![2] = "rename", ![4] = file[2]]
        /\ UNCHANGED <<file, event, suppressed>>
     \/ /\ mu[2] = "rename"
        /\ file' = <<mu[3][1], mu[4]>>
        /\ event' = (event \/ boot = "watching")
        /\ mu' = [mu EXCEPT ![2] = "provider"]
        /\ UNCHANGED suppressed
     \/ /\ mu[2] \in {"write", "rename"}
        /\ suppressed' = FALSE
        /\ mu' = Free
        /\ UNCHANGED <<file, event>>
  /\ UNCHANGED <<edits, boot, armed, reloader, dirty, runtimeVars, copyVars,
                 shown, reply, missed>>

\* The 1.5 seconds are over.
WindowEnds ==
  /\ suppressed
  /\ suppressed' = FALSE
  /\ UNCHANGED <<file, edits, boot, watchVars, mu, runtimeVars, copyVars,
                 shown, reply, missed>>

-----------------------------------------------------------------------------
(* applyMainLocked, by whoever holds the mutex, and what follows it.       *)

SetProvider ==
  /\ mu # Free /\ mu[2] = "provider"
  /\ agentProvider' = mu[3]
  /\ mu' = [mu EXCEPT ![2] = "model"]
  /\ UNCHANGED <<file, edits, boot, watchVars, runtimeVars, suppressed,
                 agentModel, chatModel, shown, reply, missed>>

SetModel ==
  /\ mu # Free /\ mu[2] = "model"
  /\ agentModel' = mu[3][1] /\ chatModel' = mu[3][1]
  /\ mu' = [mu EXCEPT ![2] = "record"]
  /\ UNCHANGED <<file, edits, boot, watchVars, runtimeVars, suppressed,
                 agentProvider, shown, reply, missed>>

\* Mutant: a switch keeps the old fingerprint.
RecordFingerprintOfReload ==
  fingerprint' = IF mu[1] = "reload" THEN mu[3] ELSE fingerprint

RecordFingerprint == fingerprint' = mu[3]

\* A reload pushes the gateway's view; a switch returns it, unless the file can
\* no longer be listed.
Record ==
  /\ mu # Free /\ mu[2] = "record"
  /\ main' = mu[3] /\ failed' = FALSE
  /\ RecordFingerprint
  /\ missed' = (missed /\ mu[1] # "reload" /\ file # mu[3])
  /\ mu' = Free
  /\ \/ /\ mu[1] = "reload"
        /\ shown' = <<mu[3][1], FALSE>>
        /\ reloader' = "after"
        /\ UNCHANGED reply
     \/ /\ mu[1] \in Selectors
        /\ reply' = [reply EXCEPT ![mu[1]] = IF file = Broken THEN "none" ELSE mu[3][1]]
        /\ UNCHANGED <<shown, reloader>>
  /\ UNCHANGED <<file, edits, boot, event, armed, dirty, suppressed, copyVars>>

\* The request handler stores what SelectModel returned, after its mutex.
StoreReply(k) ==
  /\ reply[k] # "none"
  /\ shown' = <<reply[k], FALSE>>
  /\ reply' = [reply EXCEPT ![k] = "none"]
  /\ UNCHANGED <<file, edits, boot, watchVars, mu, runtimeVars, suppressed,
                 copyVars, missed>>

-----------------------------------------------------------------------------

ConfigNext ==
  \/ NoteFingerprint \/ StartWatching \/ Edit
  \/ NoticeEvent \/ Fire \/ AfterChange
  \/ IgnoreReload \/ FailReload \/ LoadFile
  \/ \E k \in Selectors : ResolveModel(k) \/ WriteSelectedModel(k) \/ StoreReply(k)
  \/ WindowEnds \/ SetProvider \/ SetModel \/ Record

=============================================================================
