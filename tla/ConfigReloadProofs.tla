------------------------- MODULE ConfigReloadProofs -------------------------
(***************************************************************************)
(* Proofs about ConfigReload.  The inductive invariant says who holds the  *)
(* mutex (LockInv), how far the copies of agent and chat have got while it *)
(* is held (CopyInv), and that the daemon either runs on what the file     *)
(* says, or a notice of the change is still on its way (NoticeInv).        *)
(***************************************************************************)
EXTENDS ConfigReloadProperties, TLAPS

\* The reloader and the mutex agree about who reloads; nothing moves in the
\* watcher before it is started; a switch never runs on a failed load.
LockInv ==
  /\ (mu # Free /\ mu[1] = "reload") <=> reloader = "holding"
  /\ (mu # Free /\ mu[1] = "reload") => mu[2] \notin {"write", "rename"}
  /\ boot # "watching" => ~event /\ ~armed /\ reloader = "idle" /\ ~dirty
  /\ suppressed => ~failed
  /\ (mu # Free /\ mu[1] # "reload") => ~failed

\* Which of the copies name the new endpoint.
CopyInv ==
  /\ (mu = Free \/ mu[2] \in {"write", "rename", "provider"}) => agentProvider = main
  /\ (mu # Free /\ mu[2] \in {"model", "record"}) => agentProvider = mu[3]
  /\ (mu = Free \/ mu[2] # "record") => agentModel = main[1] /\ chatModel = main[1]
  /\ (mu # Free /\ mu[2] = "record") => agentModel = mu[3][1] /\ chatModel = mu[3][1]
  /\ fingerprint = main \/ missed \/ failed

\* A reload is sure to look at the file again.
Noticed ==
  event \/ armed \/ reloader = "change" \/ (reloader # "idle" /\ dirty)

Current == IF file = Broken THEN failed ELSE ~failed /\ main = file

NoticeInv ==
  /\ ~missed => \/ Noticed
                \/ mu # Free /\ mu[2] \notin {"write", "rename"} /\ file = mu[3]
                \/ (mu = Free \/ mu[2] \in {"write", "rename"}) /\ Current
  /\ (mu # Free /\ mu[1] = "reload") => Noticed \/ file = mu[3]
  /\ (mu # Free /\ mu[2] = "write" /\ boot # "watching" /\ ~missed) => mu[3][2] = file[2]
  /\ (mu # Free /\ mu[2] = "rename" /\ boot # "watching" /\ ~missed) => mu[3][2] = mu[4]

IInv == TypeOK /\ LockInv /\ CopyInv /\ NoticeInv

-----------------------------------------------------------------------------

USE ConfigAssumption DEF ConfigAssumption

\* The mutex is free or held at a stage for an endpoint.
LEMMA Holding ==
  ASSUME TypeOK, mu # Free
  PROVE  /\ mu \in (Selectors \cup {"reload"}) \X Stages \X Endpoints \X Versions
         /\ mu[1] \in Selectors \cup {"reload"} /\ mu[2] \in Stages /\ mu[3] \in Endpoints
         /\ mu[4] \in Versions
         /\ \A s \in Stages : /\ [mu EXCEPT ![2] = s] # Free
                              /\ [mu EXCEPT ![2] = s] = <<mu[1], s, mu[3], mu[4]>>
         /\ mu[3][1] \in Models /\ mu[3][2] \in Versions
  BY DEF TypeOK, Free, Endpoints

\* A usable endpoint is a pair, and never the broken file.
LEMMA Usable ==
  ASSUME NEW e \in Endpoints
  PROVE  e # Broken /\ e = <<e[1], e[2]>> /\ e[1] \in Models /\ e[2] \in Versions
  BY DEF Endpoints, Broken

\* A daemon starts on the file it loaded.
LEMMA InitIInv == ConfigInit => IInv
<1> SUFFICES ASSUME ConfigInit PROVE IInv
  OBVIOUS
<1>1. file \in Endpoints /\ file # Broken /\ file[1] \in Models
  BY DEF ConfigInit, Endpoints, Broken
<1>2. TypeOK
  <2>1. shown \in Models \X BOOLEAN
    BY <1>1 DEF ConfigInit
  <2>2. reply \in [Selectors -> Models \cup {"none"}]
    BY DEF ConfigInit
  <2>3. /\ agentProvider \in Endpoints /\ main \in Endpoints /\ fingerprint \in Endpoints
        /\ file \in Contents /\ agentModel \in Models /\ chatModel \in Models
    BY <1>1 DEF ConfigInit, Contents
  <2>4. /\ edits \in 0..MaxEdits /\ boot \in {"loaded", "noted", "watching"}
        /\ reloader \in ReloaderPcs
        /\ mu \in {Free} \cup ((Selectors \cup {"reload"}) \X Stages \X Endpoints \X Versions)
    BY DEF ConfigInit, ReloaderPcs
  <2>5. /\ event \in BOOLEAN /\ armed \in BOOLEAN /\ dirty \in BOOLEAN
        /\ failed \in BOOLEAN /\ suppressed \in BOOLEAN /\ missed \in BOOLEAN
    BY DEF ConfigInit
  <2> QED
    BY <2>1, <2>2, <2>3, <2>4, <2>5 DEF TypeOK
<1>3. LockInv
  BY DEF ConfigInit, LockInv
<1>4. CopyInv
  BY DEF ConfigInit, CopyInv
<1>5. NoticeInv
  BY <1>1 DEF ConfigInit, NoticeInv, Current
<1> QED
  BY <1>2, <1>3, <1>4, <1>5 DEF IInv

-----------------------------------------------------------------------------
(* One lemma per action: what it changes in each part of the invariant.    *)

LEMMA NoteFingerprintStep ==
  ASSUME IInv, NoteFingerprint
  PROVE  IInv'
<1>1. TypeOK'
  BY DEF IInv, TypeOK, NoteFingerprint, watchVars, runtimeVars, copyVars, Contents,
      Endpoints, ReloaderPcs, Stages, Unlocked
<1>2. LockInv'
  BY DEF IInv, TypeOK, LockInv, NoteFingerprint, watchVars, runtimeVars, copyVars,
      Unlocked, Free
<1>3. CopyInv'
  <2>1. (fingerprint = main \/ missed \/ failed)'
    <3>1. CASE file = Broken
      BY <3>1 DEF IInv, CopyInv, NoteFingerprint, runtimeVars
    <3>2. CASE file # Broken /\ ~missed /\ ~failed
      <4>1. main = file
        BY <3>2 DEF IInv, LockInv, NoticeInv, Noticed, Current, NoteFingerprint, Unlocked
      <4> QED
        BY <3>2, <4>1, Usable DEF IInv, TypeOK, NoteFingerprint
    <3> QED
      BY <3>1, <3>2 DEF NoteFingerprint
  <2> QED
    BY <2>1 DEF IInv, CopyInv, NoteFingerprint, copyVars
<1>4. NoticeInv'
  BY DEF IInv, TypeOK, LockInv, NoticeInv, Noticed, Current, NoteFingerprint, watchVars,
      runtimeVars, copyVars, Unlocked, Free
<1> QED
  BY <1>1, <1>2, <1>3, <1>4 DEF IInv

LEMMA StartWatchingStep ==
  ASSUME IInv, StartWatching
  PROVE  IInv'
<1>1. TypeOK'
  BY DEF IInv, TypeOK, StartWatching, watchVars, runtimeVars, copyVars, Contents,
      Endpoints, ReloaderPcs, Stages, Unlocked
<1>2. LockInv'
  BY DEF IInv, TypeOK, LockInv, StartWatching, watchVars, runtimeVars, copyVars,
      Unlocked, Free
<1>3. CopyInv'
  BY DEF IInv, TypeOK, CopyInv, LockInv, NoticeInv, Noticed, Current, StartWatching,
      watchVars, runtimeVars, copyVars, Unlocked, Free
<1>4. NoticeInv'
  BY DEF IInv, TypeOK, LockInv, NoticeInv, Noticed, Current, StartWatching, watchVars,
      runtimeVars, copyVars, Unlocked, Free
<1> QED
  BY <1>1, <1>2, <1>3, <1>4 DEF IInv

LEMMA EditStep ==
  ASSUME IInv, Edit
  PROVE  IInv'
<1>1. TypeOK'
  BY DEF IInv, TypeOK, Edit, watchVars, runtimeVars, copyVars, Contents, Endpoints,
      ReloaderPcs, Stages, Unlocked
<1>2. LockInv'
  BY DEF IInv, TypeOK, LockInv, Edit, watchVars, runtimeVars, copyVars, Unlocked, Free
<1>3. CopyInv'
  BY DEF IInv, TypeOK, CopyInv, LockInv, NoticeInv, Noticed, Current, Edit, watchVars,
      runtimeVars, copyVars, Unlocked, Free
<1>4. NoticeInv'
  BY DEF IInv, TypeOK, LockInv, NoticeInv, Noticed, Current, Edit, watchVars,
      runtimeVars, copyVars, Unlocked, Free
<1> QED
  BY <1>1, <1>2, <1>3, <1>4 DEF IInv

LEMMA NoticeEventStep ==
  ASSUME IInv, NoticeEvent
  PROVE  IInv'
<1>1. TypeOK'
  <2>1. (shown \in Models \X BOOLEAN)'
    BY DEF IInv, TypeOK, NoticeEvent, watchVars, runtimeVars, copyVars
  <2>2. (reply \in [Selectors -> Models \cup {"none"}])'
    BY DEF IInv, TypeOK, NoticeEvent, watchVars, runtimeVars, copyVars
  <2>3. /\ (event \in BOOLEAN /\ armed \in BOOLEAN /\ dirty \in BOOLEAN)'
        /\ (failed \in BOOLEAN /\ suppressed \in BOOLEAN /\ missed \in BOOLEAN)'
    BY DEF IInv, TypeOK, NoticeEvent, watchVars, runtimeVars, copyVars
  <2>4. /\ (file \in Contents /\ edits \in 0..MaxEdits)'
        /\ (boot \in {"loaded", "noted", "watching"} /\ reloader \in ReloaderPcs)'
        /\ (mu \in {Free} \cup ((Selectors \cup {"reload"}) \X Stages \X Endpoints \X Versions))'
    BY DEF IInv, TypeOK, NoticeEvent, watchVars, runtimeVars, copyVars, Contents,
        Endpoints, ReloaderPcs, Stages, Unlocked
  <2>5. /\ (main \in Endpoints /\ fingerprint \in Endpoints)'
        /\ (agentProvider \in Endpoints /\ agentModel \in Models /\ chatModel \in Models)'
    BY DEF IInv, TypeOK, NoticeEvent, watchVars, runtimeVars, copyVars
  <2> QED
    BY <2>1, <2>2, <2>3, <2>4, <2>5 DEF TypeOK
<1>2. LockInv'
  BY DEF IInv, TypeOK, LockInv, NoticeEvent, watchVars, runtimeVars, copyVars, Unlocked,
      Free
<1>3. CopyInv'
  BY DEF IInv, TypeOK, CopyInv, LockInv, NoticeInv, Noticed, Current, NoticeEvent,
      watchVars, runtimeVars, copyVars, Unlocked, Free
<1>4. NoticeInv'
  BY DEF IInv, TypeOK, LockInv, NoticeInv, Noticed, Current, NoticeEvent, watchVars,
      runtimeVars, copyVars, Unlocked, Free
<1> QED
  BY <1>1, <1>2, <1>3, <1>4 DEF IInv

LEMMA FireStep ==
  ASSUME IInv, Fire
  PROVE  IInv'
<1>1. TypeOK'
  <2>1. (shown \in Models \X BOOLEAN)'
    BY DEF IInv, TypeOK, Fire, watchVars, runtimeVars, copyVars
  <2>2. (reply \in [Selectors -> Models \cup {"none"}])'
    BY DEF IInv, TypeOK, Fire, watchVars, runtimeVars, copyVars
  <2>3. /\ (event \in BOOLEAN /\ armed \in BOOLEAN /\ dirty \in BOOLEAN)'
        /\ (failed \in BOOLEAN /\ suppressed \in BOOLEAN /\ missed \in BOOLEAN)'
    BY DEF IInv, TypeOK, Fire, watchVars, runtimeVars, copyVars
  <2>4. /\ (file \in Contents /\ edits \in 0..MaxEdits)'
        /\ (boot \in {"loaded", "noted", "watching"} /\ reloader \in ReloaderPcs)'
        /\ (mu \in {Free} \cup ((Selectors \cup {"reload"}) \X Stages \X Endpoints \X Versions))'
    BY DEF IInv, TypeOK, Fire, watchVars, runtimeVars, copyVars, Contents, Endpoints,
        ReloaderPcs, Stages, Unlocked
  <2>5. /\ (main \in Endpoints /\ fingerprint \in Endpoints)'
        /\ (agentProvider \in Endpoints /\ agentModel \in Models /\ chatModel \in Models)'
    BY DEF IInv, TypeOK, Fire, watchVars, runtimeVars, copyVars
  <2> QED
    BY <2>1, <2>2, <2>3, <2>4, <2>5 DEF TypeOK
<1>2. LockInv'
  BY DEF IInv, TypeOK, LockInv, Fire, watchVars, runtimeVars, copyVars, Unlocked, Free
<1>3. CopyInv'
  BY DEF IInv, TypeOK, CopyInv, LockInv, NoticeInv, Noticed, Current, Fire, watchVars,
      runtimeVars, copyVars, Unlocked, Free
<1>4. NoticeInv'
  BY DEF IInv, TypeOK, LockInv, NoticeInv, Noticed, Current, Fire, watchVars,
      runtimeVars, copyVars, Unlocked, Free
<1> QED
  BY <1>1, <1>2, <1>3, <1>4 DEF IInv

LEMMA AfterChangeStep ==
  ASSUME IInv, AfterChange
  PROVE  IInv'
<1>1. TypeOK'
  <2>1. (shown \in Models \X BOOLEAN)'
    BY DEF IInv, TypeOK, AfterChange, watchVars, runtimeVars, copyVars
  <2>2. (reply \in [Selectors -> Models \cup {"none"}])'
    BY DEF IInv, TypeOK, AfterChange, watchVars, runtimeVars, copyVars
  <2>3. /\ (event \in BOOLEAN /\ armed \in BOOLEAN /\ dirty \in BOOLEAN)'
        /\ (failed \in BOOLEAN /\ suppressed \in BOOLEAN /\ missed \in BOOLEAN)'
    BY DEF IInv, TypeOK, AfterChange, watchVars, runtimeVars, copyVars
  <2>4. /\ (file \in Contents /\ edits \in 0..MaxEdits)'
        /\ (boot \in {"loaded", "noted", "watching"} /\ reloader \in ReloaderPcs)'
        /\ (mu \in {Free} \cup ((Selectors \cup {"reload"}) \X Stages \X Endpoints \X Versions))'
    BY DEF IInv, TypeOK, AfterChange, watchVars, runtimeVars, copyVars, Contents,
        Endpoints, ReloaderPcs, Stages, Unlocked
  <2>5. /\ (main \in Endpoints /\ fingerprint \in Endpoints)'
        /\ (agentProvider \in Endpoints /\ agentModel \in Models /\ chatModel \in Models)'
    BY DEF IInv, TypeOK, AfterChange, watchVars, runtimeVars, copyVars
  <2> QED
    BY <2>1, <2>2, <2>3, <2>4, <2>5 DEF TypeOK
<1>2. LockInv'
  BY DEF IInv, TypeOK, LockInv, AfterChange, watchVars, runtimeVars, copyVars, Unlocked,
      Free
<1>3. CopyInv'
  BY DEF IInv, TypeOK, CopyInv, LockInv, NoticeInv, Noticed, Current, AfterChange,
      watchVars, runtimeVars, copyVars, Unlocked, Free
<1>4. NoticeInv'
  BY DEF IInv, TypeOK, LockInv, NoticeInv, Noticed, Current, AfterChange, watchVars,
      runtimeVars, copyVars, Unlocked, Free
<1> QED
  BY <1>1, <1>2, <1>3, <1>4 DEF IInv

LEMMA IgnoreReloadStep ==
  ASSUME IInv, IgnoreReload
  PROVE  IInv'
<1>1. TypeOK'
  BY DEF IInv, TypeOK, IgnoreReload, watchVars, runtimeVars, copyVars, Contents,
      Endpoints, ReloaderPcs, Stages, Unlocked
<1>2. LockInv'
  BY DEF IInv, TypeOK, LockInv, IgnoreReload, watchVars, runtimeVars, copyVars,
      Unlocked, Free
<1>3. CopyInv'
  BY DEF IInv, TypeOK, CopyInv, LockInv, NoticeInv, Noticed, Current, IgnoreReload,
      watchVars, runtimeVars, copyVars, Unlocked, Free
<1>4. NoticeInv'
  <2>1. ASSUME ~missed' PROVE Current'
    BY <2>1, Usable DEF IInv, TypeOK, LockInv, Current, IgnoreReload, runtimeVars
  <2> QED
    BY <2>1 DEF IInv, LockInv, NoticeInv, IgnoreReload, Unlocked
<1> QED
  BY <1>1, <1>2, <1>3, <1>4 DEF IInv

LEMMA FailReloadStep ==
  ASSUME IInv, FailReload
  PROVE  IInv'
<1>1. TypeOK'
  BY DEF IInv, TypeOK, FailReload, watchVars, runtimeVars, copyVars, Contents,
      Endpoints, ReloaderPcs, Stages, Unlocked
<1>2. LockInv'
  BY DEF IInv, TypeOK, LockInv, FailReload, watchVars, runtimeVars, copyVars, Unlocked, Free
<1>3. CopyInv'
  BY DEF IInv, TypeOK, CopyInv, LockInv, NoticeInv, Noticed, Current, FailReload,
      watchVars, runtimeVars, copyVars, Unlocked, Free
<1>4. NoticeInv'
  BY DEF IInv, TypeOK, LockInv, NoticeInv, Noticed, Current, FailReload, watchVars,
      runtimeVars, copyVars, Unlocked, Free
<1> QED
  BY <1>1, <1>2, <1>3, <1>4 DEF IInv

LEMMA LoadFileStep ==
  ASSUME IInv, LoadFile
  PROVE  IInv'
<1>1. TypeOK'
  BY DEF IInv, TypeOK, LoadFile, watchVars, runtimeVars, copyVars, Contents, Endpoints,
      ReloaderPcs, Stages, Unlocked
<1>2. LockInv'
  <2>1. CASE reloader' = "after" /\ UNCHANGED mu
    BY <2>1 DEF IInv, LockInv, LoadFile, watchVars, runtimeVars, Unlocked, Free
  <2>2. CASE reloader' = "holding" /\ mu' = <<"reload", "provider", file, file[2]>>
    <3>1. mu' # Free /\ mu'[1] = "reload" /\ mu'[2] = "provider"
      BY <2>2 DEF Free
    <3> QED
      BY <2>2, <3>1 DEF IInv, LockInv, LoadFile, runtimeVars, Unlocked
  <2> QED
    BY <2>1, <2>2 DEF LoadFile
<1>3. CopyInv'
  BY DEF IInv, TypeOK, CopyInv, LockInv, NoticeInv, Noticed, Current, LoadFile,
      watchVars, runtimeVars, copyVars, Unlocked, Free
<1>4. NoticeInv'
  <2>1. CASE reloader' = "after" /\ file = fingerprint /\ ~failed /\ UNCHANGED mu
    BY <2>1 DEF IInv, LockInv, CopyInv, NoticeInv, Noticed, Current, LoadFile,
        runtimeVars, Unlocked
  <2>2. CASE reloader' = "holding" /\ mu' = <<"reload", "provider", file, file[2]>>
    <3>1. mu' # Free /\ mu'[1] = "reload" /\ mu'[2] = "provider" /\ mu'[3] = file
      BY <2>2 DEF Free
    <3> QED
      BY <2>2, <3>1 DEF NoticeInv, LoadFile
  <2> QED
    BY <2>1, <2>2 DEF LoadFile
<1> QED
  BY <1>1, <1>2, <1>3, <1>4 DEF IInv

LEMMA ResolveModelStep ==
  ASSUME NEW k \in Selectors, IInv, ResolveModel(k)
  PROVE  IInv'
<1>1. TypeOK'
  <2>1. (shown \in Models \X BOOLEAN)'
    BY DEF IInv, TypeOK, ResolveModel, watchVars, runtimeVars, copyVars
  <2>2. (reply \in [Selectors -> Models \cup {"none"}])'
    BY DEF IInv, TypeOK, ResolveModel, watchVars, runtimeVars, copyVars
  <2>3. /\ (event \in BOOLEAN /\ armed \in BOOLEAN /\ dirty \in BOOLEAN)'
        /\ (failed \in BOOLEAN /\ suppressed \in BOOLEAN /\ missed \in BOOLEAN)'
    BY DEF IInv, TypeOK, ResolveModel, watchVars, runtimeVars, copyVars
  <2>4. /\ (file \in Contents /\ edits \in 0..MaxEdits)'
        /\ (boot \in {"loaded", "noted", "watching"} /\ reloader \in ReloaderPcs)'
        /\ (mu \in {Free} \cup ((Selectors \cup {"reload"}) \X Stages \X Endpoints \X Versions))'
    BY DEF IInv, TypeOK, ResolveModel, watchVars, runtimeVars, copyVars, Contents,
        Endpoints, ReloaderPcs, Stages, Unlocked
  <2>5. /\ (main \in Endpoints /\ fingerprint \in Endpoints)'
        /\ (agentProvider \in Endpoints /\ agentModel \in Models /\ chatModel \in Models)'
    BY DEF IInv, TypeOK, ResolveModel, watchVars, runtimeVars, copyVars
  <2> QED
    BY <2>1, <2>2, <2>3, <2>4, <2>5 DEF TypeOK
<1>2. LockInv'
  BY DEF IInv, TypeOK, LockInv, ResolveModel, watchVars, runtimeVars, copyVars,
      Unlocked, Free
<1>3. CopyInv'
  BY DEF IInv, TypeOK, CopyInv, LockInv, NoticeInv, Noticed, Current, ResolveModel,
      watchVars, runtimeVars, copyVars, Unlocked, Free
<1>4. NoticeInv'
  BY DEF IInv, TypeOK, LockInv, NoticeInv, Noticed, Current, ResolveModel, watchVars,
      runtimeVars, copyVars, Unlocked, Free
<1> QED
  BY <1>1, <1>2, <1>3, <1>4 DEF IInv

LEMMA WriteSelectedModelStep ==
  ASSUME NEW k \in Selectors, IInv, WriteSelectedModel(k)
  PROVE  IInv'
<1>0. TypeOK /\ mu # Free
  BY DEF IInv, WriteSelectedModel
<1>1. TypeOK'
  <2>1. (shown \in Models \X BOOLEAN)'
    BY <1>0, Holding DEF IInv, TypeOK, WriteSelectedModel, watchVars, runtimeVars, copyVars
  <2>2. (reply \in [Selectors -> Models \cup {"none"}])'
    BY <1>0, Holding DEF IInv, TypeOK, WriteSelectedModel, watchVars, runtimeVars, copyVars
  <2>3. /\ (event \in BOOLEAN /\ armed \in BOOLEAN /\ dirty \in BOOLEAN)'
        /\ (failed \in BOOLEAN /\ suppressed \in BOOLEAN /\ missed \in BOOLEAN)'
    BY DEF IInv, TypeOK, WriteSelectedModel, watchVars, runtimeVars, copyVars
  <2>4. /\ (file \in Contents /\ edits \in 0..MaxEdits)'
        /\ (boot \in {"loaded", "noted", "watching"} /\ reloader \in ReloaderPcs)'
        /\ (mu \in {Free} \cup ((Selectors \cup {"reload"}) \X Stages \X Endpoints \X Versions))'
    BY <1>0, Holding DEF IInv, TypeOK, WriteSelectedModel, watchVars, runtimeVars,
        copyVars, Contents, Endpoints, ReloaderPcs, Stages, Unlocked
  <2>5. /\ (main \in Endpoints /\ fingerprint \in Endpoints)'
        /\ (agentProvider \in Endpoints /\ agentModel \in Models /\ chatModel \in Models)'
    BY <1>0, Holding DEF IInv, TypeOK, WriteSelectedModel, watchVars, runtimeVars, copyVars
  <2> QED
    BY <2>1, <2>2, <2>3, <2>4, <2>5 DEF TypeOK
<1>2. LockInv'
  BY <1>0, Holding DEF IInv, TypeOK, LockInv, WriteSelectedModel, watchVars,
      runtimeVars, copyVars, Unlocked, Free
<1>3. CopyInv'
  BY <1>0, Holding DEF IInv, TypeOK, CopyInv, LockInv, NoticeInv, Noticed, Current,
      WriteSelectedModel, watchVars, runtimeVars, copyVars, Unlocked, Free
<1>4. NoticeInv'
  <2>0. mu[1] = k /\ mu[1] # "reload" /\ mu[2] \in {"write", "rename"}
    BY DEF WriteSelectedModel
  <2>1. CASE mu' = Free /\ UNCHANGED <<file, event>>
    BY <1>0, <2>0, <2>1 DEF IInv, NoticeInv, Noticed, Current, WriteSelectedModel,
        runtimeVars
  <2>2. CASE /\ mu[2] = "rename" /\ file' = <<mu[3][1], mu[4]>>
             /\ event' = (event \/ boot = "watching") /\ mu' = [mu EXCEPT ![2] = "provider"]
    <3>1. mu' # Free /\ mu'[1] = k /\ mu'[2] = "provider" /\ mu'[3] = mu[3]
      BY <1>0, <2>0, <2>2, Holding DEF Stages
    <3>2. mu[3] = <<mu[3][1], mu[3][2]>>
      BY <1>0, Holding, Usable
    <3>3. CASE boot = "watching"
      BY <2>0, <2>2, <3>1, <3>3 DEF NoticeInv, Noticed, WriteSelectedModel
    <3>4. CASE boot # "watching"
      BY <1>0, <2>0, <2>2, <3>1, <3>2, <3>4 DEF IInv, NoticeInv, WriteSelectedModel
    <3> QED
      BY <3>3, <3>4
  <2>3. CASE /\ mu[2] = "write" /\ mu' = [mu EXCEPT ![2] = "rename", ![4] = file[2]]
             /\ UNCHANGED <<file, event, suppressed>>
    <3>1. mu' = <<k, "rename", mu[3], file[2]>>
      BY <1>0, <2>0, <2>3, Holding
    <3>2. mu' # Free /\ mu'[1] = k /\ mu'[2] = "rename" /\ mu'[3] = mu[3] /\ mu'[4] = file[2]
      BY <3>1 DEF Free
    <3>3. Noticed' = Noticed /\ Current' = Current /\ missed' = missed /\ boot' = boot
      BY <2>3 DEF Noticed, Current, WriteSelectedModel, runtimeVars
    <3> QED
      BY <1>0, <2>0, <2>3, <3>2, <3>3 DEF IInv, NoticeInv
  <2> QED
    BY <2>1, <2>2, <2>3 DEF WriteSelectedModel
<1> QED
  BY <1>1, <1>2, <1>3, <1>4 DEF IInv

LEMMA WindowEndsStep ==
  ASSUME IInv, WindowEnds
  PROVE  IInv'
<1>1. TypeOK'
  <2>1. (shown \in Models \X BOOLEAN)'
    BY DEF IInv, TypeOK, WindowEnds, watchVars, runtimeVars, copyVars
  <2>2. (reply \in [Selectors -> Models \cup {"none"}])'
    BY DEF IInv, TypeOK, WindowEnds, watchVars, runtimeVars, copyVars
  <2>3. /\ (event \in BOOLEAN /\ armed \in BOOLEAN /\ dirty \in BOOLEAN)'
        /\ (failed \in BOOLEAN /\ suppressed \in BOOLEAN /\ missed \in BOOLEAN)'
    BY DEF IInv, TypeOK, WindowEnds, watchVars, runtimeVars, copyVars
  <2>4. /\ (file \in Contents /\ edits \in 0..MaxEdits)'
        /\ (boot \in {"loaded", "noted", "watching"} /\ reloader \in ReloaderPcs)'
        /\ (mu \in {Free} \cup ((Selectors \cup {"reload"}) \X Stages \X Endpoints \X Versions))'
    BY DEF IInv, TypeOK, WindowEnds, watchVars, runtimeVars, copyVars, Contents,
        Endpoints, ReloaderPcs, Stages, Unlocked
  <2>5. /\ (main \in Endpoints /\ fingerprint \in Endpoints)'
        /\ (agentProvider \in Endpoints /\ agentModel \in Models /\ chatModel \in Models)'
    BY DEF IInv, TypeOK, WindowEnds, watchVars, runtimeVars, copyVars
  <2> QED
    BY <2>1, <2>2, <2>3, <2>4, <2>5 DEF TypeOK
<1>2. LockInv'
  BY DEF IInv, TypeOK, LockInv, WindowEnds, watchVars, runtimeVars, copyVars, Unlocked, Free
<1>3. CopyInv'
  BY DEF IInv, TypeOK, CopyInv, LockInv, NoticeInv, Noticed, Current, WindowEnds,
      watchVars, runtimeVars, copyVars, Unlocked, Free
<1>4. NoticeInv'
  BY DEF IInv, TypeOK, LockInv, NoticeInv, Noticed, Current, WindowEnds, watchVars,
      runtimeVars, copyVars, Unlocked, Free
<1> QED
  BY <1>1, <1>2, <1>3, <1>4 DEF IInv

LEMMA SetProviderStep ==
  ASSUME IInv, SetProvider
  PROVE  IInv'
<1>0. TypeOK /\ mu # Free
  BY DEF IInv, SetProvider
<1>1. TypeOK'
  BY <1>0, Holding DEF IInv, TypeOK, SetProvider, watchVars, runtimeVars, copyVars,
      Contents, Endpoints, ReloaderPcs, Stages, Unlocked
<1>2. LockInv'
  BY <1>0, Holding DEF IInv, TypeOK, LockInv, SetProvider, watchVars, runtimeVars,
      copyVars, Unlocked, Free
<1>3. CopyInv'
  BY <1>0, Holding DEF IInv, TypeOK, CopyInv, LockInv, NoticeInv, Noticed, Current,
      SetProvider, watchVars, runtimeVars, copyVars, Unlocked, Free
<1>4. NoticeInv'
  BY <1>0, Holding DEF IInv, TypeOK, LockInv, NoticeInv, Noticed, Current, SetProvider,
      watchVars, runtimeVars, copyVars, Unlocked, Free
<1> QED
  BY <1>1, <1>2, <1>3, <1>4 DEF IInv

LEMMA SetModelStep ==
  ASSUME IInv, SetModel
  PROVE  IInv'
<1>0. TypeOK /\ mu # Free
  BY DEF IInv, SetModel
<1>1. TypeOK'
  BY <1>0, Holding DEF IInv, TypeOK, SetModel, watchVars, runtimeVars, copyVars,
      Contents, Endpoints, ReloaderPcs, Stages, Unlocked
<1>2. LockInv'
  BY <1>0, Holding DEF IInv, TypeOK, LockInv, SetModel, watchVars, runtimeVars,
      copyVars, Unlocked, Free
<1>3. CopyInv'
  BY <1>0, Holding DEF IInv, TypeOK, CopyInv, LockInv, NoticeInv, Noticed, Current,
      SetModel, watchVars, runtimeVars, copyVars, Unlocked, Free
<1>4. NoticeInv'
  BY <1>0, Holding DEF IInv, TypeOK, LockInv, NoticeInv, Noticed, Current, SetModel,
      watchVars, runtimeVars, copyVars, Unlocked, Free
<1> QED
  BY <1>1, <1>2, <1>3, <1>4 DEF IInv

LEMMA RecordStep ==
  ASSUME IInv, Record
  PROVE  IInv'
<1>0. TypeOK /\ mu # Free
  BY DEF IInv, Record
<1>1. TypeOK'
  <2>1. (shown \in Models \X BOOLEAN)'
    <3>1. CASE shown' = <<mu[3][1], FALSE>>
      BY <1>0, <3>1, Holding
    <3>2. CASE UNCHANGED shown
      BY <3>2 DEF IInv, TypeOK
    <3> QED
      BY <3>1, <3>2 DEF Record
  <2>2. (reply \in [Selectors -> Models \cup {"none"}])'
    <3>1. CASE mu[1] = "reload" /\ UNCHANGED reply
      BY <3>1 DEF IInv, TypeOK
    <3>2. CASE /\ mu[1] \in Selectors
               /\ reply' = [reply EXCEPT ![mu[1]] = IF file = Broken THEN "none" ELSE mu[3][1]]
      <4>1. (IF file = Broken THEN "none" ELSE mu[3][1]) \in Models \cup {"none"}
        BY <1>0, Holding
      <4> QED
        BY <3>2, <4>1 DEF IInv, TypeOK
    <3> QED
      BY <3>1, <3>2 DEF Record
  <2>3. /\ (event \in BOOLEAN /\ armed \in BOOLEAN /\ dirty \in BOOLEAN)'
        /\ (failed \in BOOLEAN /\ suppressed \in BOOLEAN /\ missed \in BOOLEAN)'
    BY DEF IInv, TypeOK, Record, watchVars, runtimeVars, copyVars, RecordFingerprint
  <2>4. /\ (file \in Contents /\ edits \in 0..MaxEdits)'
        /\ (boot \in {"loaded", "noted", "watching"} /\ reloader \in ReloaderPcs)'
        /\ (mu \in {Free} \cup ((Selectors \cup {"reload"}) \X Stages \X Endpoints \X Versions))'
    BY <1>0, Holding DEF IInv, TypeOK, Record, watchVars, runtimeVars, copyVars,
        RecordFingerprint, Contents, Endpoints, ReloaderPcs, Stages, Unlocked
  <2>5. /\ (main \in Endpoints /\ fingerprint \in Endpoints)'
        /\ (agentProvider \in Endpoints /\ agentModel \in Models /\ chatModel \in Models)'
    BY <1>0, Holding DEF IInv, TypeOK, Record, watchVars, runtimeVars, copyVars,
        RecordFingerprint
  <2> QED
    BY <2>1, <2>2, <2>3, <2>4, <2>5 DEF TypeOK
<1>2. LockInv'
  BY <1>0, Holding DEF IInv, TypeOK, LockInv, Record, watchVars, runtimeVars, copyVars,
      RecordFingerprint, Unlocked, Free
<1>3. CopyInv'
  BY <1>0, Holding DEF IInv, TypeOK, CopyInv, LockInv, NoticeInv, Noticed, Current,
      Record, watchVars, runtimeVars, copyVars, RecordFingerprint, Unlocked, Free
<1>4. NoticeInv'
  <2>1. ASSUME ~missed', ~Noticed' PROVE Current'
    <3>1. file = mu[3]
      <4>1. CASE mu[1] = "reload"
        BY <1>0, <2>1, <4>1, Holding DEF IInv, LockInv, NoticeInv, Noticed, Record
      <4>2. CASE mu[1] # "reload"
        BY <1>0, <2>1, <4>2 DEF IInv, NoticeInv, Noticed, Record
      <4> QED
        BY <4>1, <4>2
    <3> QED
      BY <1>0, <3>1, Holding, Usable DEF Current, Record
  <2> QED
    BY <2>1 DEF NoticeInv, Record
<1> QED
  BY <1>1, <1>2, <1>3, <1>4 DEF IInv

LEMMA StoreReplyStep ==
  ASSUME NEW k \in Selectors, IInv, StoreReply(k)
  PROVE  IInv'
<1>1. TypeOK'
  <2>1. (shown \in Models \X BOOLEAN)'
    BY DEF IInv, TypeOK, StoreReply, watchVars, runtimeVars, copyVars
  <2>2. (reply \in [Selectors -> Models \cup {"none"}])'
    BY DEF IInv, TypeOK, StoreReply, watchVars, runtimeVars, copyVars
  <2>3. /\ (event \in BOOLEAN /\ armed \in BOOLEAN /\ dirty \in BOOLEAN)'
        /\ (failed \in BOOLEAN /\ suppressed \in BOOLEAN /\ missed \in BOOLEAN)'
    BY DEF IInv, TypeOK, StoreReply, watchVars, runtimeVars, copyVars
  <2>4. /\ (file \in Contents /\ edits \in 0..MaxEdits)'
        /\ (boot \in {"loaded", "noted", "watching"} /\ reloader \in ReloaderPcs)'
        /\ (mu \in {Free} \cup ((Selectors \cup {"reload"}) \X Stages \X Endpoints \X Versions))'
    BY DEF IInv, TypeOK, StoreReply, watchVars, runtimeVars, copyVars, Contents,
        Endpoints, ReloaderPcs, Stages, Unlocked
  <2>5. /\ (main \in Endpoints /\ fingerprint \in Endpoints)'
        /\ (agentProvider \in Endpoints /\ agentModel \in Models /\ chatModel \in Models)'
    BY DEF IInv, TypeOK, StoreReply, watchVars, runtimeVars, copyVars
  <2> QED
    BY <2>1, <2>2, <2>3, <2>4, <2>5 DEF TypeOK
<1>2. LockInv'
  BY DEF IInv, TypeOK, LockInv, StoreReply, watchVars, runtimeVars, copyVars, Unlocked, Free
<1>3. CopyInv'
  BY DEF IInv, TypeOK, CopyInv, LockInv, NoticeInv, Noticed, Current, StoreReply,
      watchVars, runtimeVars, copyVars, Unlocked, Free
<1>4. NoticeInv'
  BY DEF IInv, TypeOK, LockInv, NoticeInv, Noticed, Current, StoreReply, watchVars,
      runtimeVars, copyVars, Unlocked, Free
<1> QED
  BY <1>1, <1>2, <1>3, <1>4 DEF IInv

-----------------------------------------------------------------------------

\* Every step, and every stutter, keeps the invariant.
LEMMA NextIInv == IInv /\ [ConfigNext]_vars => IInv'
<1> SUFFICES ASSUME IInv, [ConfigNext]_vars PROVE IInv'
  OBVIOUS
<1>1. CASE ConfigNext
  BY <1>1, NoteFingerprintStep, StartWatchingStep, EditStep, NoticeEventStep, FireStep,
     AfterChangeStep, IgnoreReloadStep, FailReloadStep, LoadFileStep, ResolveModelStep,
     WriteSelectedModelStep, WindowEndsStep, SetProviderStep, SetModelStep, RecordStep,
     StoreReplyStep DEF ConfigNext
<1>2. CASE UNCHANGED vars
  <2> USE <1>2 DEF IInv, vars, configVars, watchVars, runtimeVars, copyVars
  <2>1. TypeOK'
    BY DEF TypeOK
  <2>2. LockInv'
    BY DEF LockInv
  <2>3. CopyInv'
    BY DEF CopyInv
  <2>4. NoticeInv'
    BY DEF NoticeInv, Noticed, Current
  <2> QED
    BY <2>1, <2>2, <2>3, <2>4
<1> QED
  BY <1>1, <1>2

\* What every state has in common: who holds Runtime.mu, how far the copies
\* have got, and that no notice is lost.
THEOREM Invariant == Spec => []IInv
<1>1. ConfigInit => IInv
  BY InitIInv
<1>2. IInv /\ [ConfigNext]_vars => IInv'
  BY NextIInv
<1> QED
  BY <1>1, <1>2, PTL DEF Spec

\* Every variable keeps its type, whatever the number of selectors and edits.
THEOREM TypeCorrect == Spec => []TypeOK
<1>1. IInv => TypeOK
  BY DEF IInv
<1> QED
  BY <1>1, Invariant, PTL

\* Agent, chat and runtime name one endpoint whenever Runtime.mu is free
\* (applyMainLocked leaves no half-applied endpoint behind).
THEOREM CopiesAgree == Spec => []EndpointsAgree
<1>1. IInv => EndpointsAgree
  BY DEF IInv, CopyInv, EndpointsAgree, Unlocked
<1> QED
  BY <1>1, Invariant, PTL

\* When watcher and runtime are quiet, the daemon runs on what the file says
\* (Watcher.fire and ReloadFromDisk lose no notice).
THEOREM NoNoticeLost == Spec => []QuietMeansCurrent
<1>1. IInv => QuietMeansCurrent
  BY DEF IInv, NoticeInv, Noticed, Current, QuietMeansCurrent, Pending, Unlocked
<1> QED
  BY <1>1, Invariant, PTL

=============================================================================
