------------------------------ MODULE ServiceProofs ------------------------------
(***************************************************************************)
(* Theorems about the services beside the runtime: the file that           *)
(* advertises the coordinator, the session store, the tool server, the     *)
(* event log, the memory file and the exceptions on the wire.  No two of   *)
(* them share a variable, so each is instantiated as it stands.            *)
(***************************************************************************)
EXTENDS Naturals, Sequences, FiniteSets, FiniteSetTheorems, SequenceTheorems, TLAPS

CONSTANTS Servers, Readers, None, Garbage, Overlap, ReadBound
VARIABLES file, pc, seen, found, looks
Discovery == INSTANCE RuntimeFile

CONSTANTS Names, SaveBound, CrashBound
VARIABLES logFile, manifest, saving, saves, crashes, complete, reading, loaded
Session == INSTANCE SessionFiles

CONSTANTS Threads, Callers, Requests, TokenBound, StartBound
VARIABLES serving, up, socks, starts, task, registrations, byThread, minted, request
Tools == INSTANCE ToolServer

CONSTANTS Subscribers, All, EventBound, DepthBound, CopyBound
VARIABLES events, known, active, filter, handing, delivered, due, copies, cursor, page
Events == INSTANCE EventLog

CONSTANTS Actors, Calls, Traces, ClosesOverlap, EntryBound, OpenBound
VARIABLES memory, store, snapshot, call, made, opened, handed, saved, emitted, trace, told
Memory == INSTANCE MemoryStore WITH file <- memory, names <- handed, logs <- told

\* The same module, for what recalls leave in the traces: with bounds of its own.
CONSTANTS Recalls, RecallEntries, RecallOpens
View == INSTANCE MemoryStore
    WITH Traces <- Recalls, EntryBound <- RecallEntries, OpenBound <- RecallOpens,
         file <- memory, names <- handed, logs <- told

CONSTANTS Registered, RegisterBound
VARIABLES registry, registered, at, exc, frame, origin, lost
Errors == INSTANCE WireErrors

----------------------------------------------------------------------------
(* Discovery.  Processes work on the file one at a time; what the one at   *)
(* work has read is what the file still holds, and it does not go on to    *)
(* clear or replace the file while a server is up.                         *)

\* The hypotheses: no process is both kinds or the marker of an empty file,
\* and two of them do not work on the file together.
OneAtATime ==
    /\ Servers \cap Readers = {} /\ None \notin Servers
    /\ ~Overlap

Working(p) == pc[p] \notin Discovery!Resting

WorksAlone ==
    \A p, q \in Discovery!Procs : Working(p) /\ Working(q) => p = q

ReadIsCurrent ==
    /\ \A p \in Discovery!Procs : pc[p] = "judge" => seen[p] = file
    /\ \A r \in Readers : pc[r] = "asking" => found[r] = file

UpIsAdvertised == \A s \in Servers : pc[s] = "up" => file = s

NoneUpWhenCleared ==
    \A p \in Discovery!Procs : pc[p] \in {"clear", "write"} => \A s \in Servers : pc[s] # "up"

DiscoveryInv ==
    /\ Discovery!TypeOK /\ WorksAlone /\ ReadIsCurrent /\ UpIsAdvertised /\ NoneUpWhenCleared

LEMMA DiscoveryStarts == ASSUME OneAtATime, Discovery!Init PROVE DiscoveryInv
BY DEF OneAtATime, Discovery!Init, DiscoveryInv, Discovery!TypeOK, WorksAlone, ReadIsCurrent, UpIsAdvertised,
       NoneUpWhenCleared, Working, Discovery!Resting, Discovery!Procs

LEMMA DiscoveryGoesOn ==
    ASSUME OneAtATime, DiscoveryInv, [Discovery!Next]_(Discovery!vars)
    PROVE  DiscoveryInv'
<1> USE DEF OneAtATime, DiscoveryInv, Discovery!TypeOK, WorksAlone, ReadIsCurrent, UpIsAdvertised,
            NoneUpWhenCleared, Working, Discovery!Resting, Discovery!Procs, Discovery!Goto
<1>1. ASSUME NEW s \in Servers, Discovery!Bind(s) PROVE DiscoveryInv'
  BY <1>1 DEF Discovery!Bind, Discovery!MayAct
<1>2. ASSUME NEW s \in Servers, Discovery!ReadFile(s) PROVE DiscoveryInv'
  BY <1>2 DEF Discovery!ReadFile
<1>3. ASSUME NEW s \in Servers, Discovery!Judge(s) PROVE DiscoveryInv'
  BY <1>3 DEF Discovery!Judge, Discovery!Alive
<1>4. ASSUME NEW s \in Servers, Discovery!Clear(s) PROVE DiscoveryInv'
  BY <1>4 DEF Discovery!Clear
<1>5. ASSUME NEW s \in Servers, Discovery!Replace(s) PROVE DiscoveryInv'
  BY <1>5 DEF Discovery!Replace
<1>6. ASSUME NEW s \in Servers, Discovery!Shutdown(s) PROVE DiscoveryInv'
  BY <1>6 DEF Discovery!Shutdown, Discovery!MayAct
<1>7. ASSUME NEW s \in Servers, Discovery!Stopped(s) PROVE DiscoveryInv'
  BY <1>7 DEF Discovery!Stopped
<1>8. ASSUME NEW s \in Servers, Discovery!Killed(s) PROVE DiscoveryInv'
  BY <1>8 DEF Discovery!Killed, Discovery!Alive
<1>9. ASSUME NEW r \in Readers, Discovery!Look(r) PROVE DiscoveryInv'
  BY <1>9 DEF Discovery!Look, Discovery!MayAct
<1>10. ASSUME NEW r \in Readers, Discovery!Found(r) PROVE DiscoveryInv'
  BY <1>10 DEF Discovery!Found, Discovery!Alive
<1>11. ASSUME NEW r \in Readers, Discovery!ClearStale(r) PROVE DiscoveryInv'
  BY <1>11 DEF Discovery!ClearStale
<1>12. ASSUME NEW r \in Readers, Discovery!AskToStop(r) PROVE DiscoveryInv'
  BY <1>12 DEF Discovery!AskToStop, Discovery!Alive
<1>13. ASSUME UNCHANGED Discovery!vars PROVE DiscoveryInv'
  BY <1>13 DEF Discovery!vars
<1> QED
  BY <1>1, <1>2, <1>3, <1>4, <1>5, <1>6, <1>7, <1>8, <1>9, <1>10, <1>11, <1>12, <1>13 DEF Discovery!Next

LEMMA UpIsFound == ASSUME DiscoveryInv PROVE Discovery!SoleCoordinator
BY DEF DiscoveryInv, UpIsAdvertised, Discovery!SoleCoordinator

\* While processes work on the file one at a time, kills at any moment
\* included, two servers are never up and the one that is can be discovered.
THEOREM OneCoordinatorIsFound ==
    ASSUME OneAtATime PROVE Discovery!Spec => []Discovery!SoleCoordinator
BY UpIsFound, DiscoveryStarts, DiscoveryGoesOn, PTL DEF Discovery!Spec

----------------------------------------------------------------------------
(* Session store.  The number of the save under way is above every other   *)
(* on the disk, so a log only ever gets newer, and when the manifest is    *)
(* written every log it names is of that save.                             *)

SessionTypes ==
    /\ logFile \in [Names -> Nat] /\ saves \in Nat /\ crashes \in Nat
    /\ manifest \in [number : Nat, names : SUBSET Names] /\ complete = manifest
    /\ saving \in [number : Nat, names : SUBSET Names, left : SUBSET Names]
    /\ saving.left \subseteq saving.names
    /\ reading.of \in [number : Nat, names : SUBSET Names] /\ DOMAIN reading.got \subseteq reading.of.names
    /\ reading = [of |-> reading.of, got |-> [n \in DOMAIN reading.got |-> reading.got[n]]]
    /\ \A n \in DOMAIN reading.got : reading.got[n] \in Nat
    /\ \A n \in Names : logFile[n] <= saves

SavedSoFar ==
    /\ saving = Session!NoSave \/ (saving.number = saves /\ saves > 0)
    /\ \A n \in saving.names \ saving.left : logFile[n] = saving.number

ManifestIsWritten == \A n \in manifest.names : logFile[n] # 0 /\ logFile[n] >= manifest.number

ReadIsNoOlder ==
    /\ \A n \in reading.of.names : logFile[n] >= reading.of.number
    /\ \A n \in DOMAIN reading.got : reading.got[n] >= reading.of.number
    /\ \A n \in DOMAIN loaded.got : loaded.got[n] >= loaded.of.number

\* Until a save dies half way, a log is of the last save that returned or of
\* the one under way.
CompleteOrUnderWay ==
    crashes = 0 => \A n \in complete.names :
        logFile[n] = complete.number \/ (saving # Session!NoSave /\ n \in saving.names \ saving.left)

SessionInv ==
    /\ SessionTypes /\ SavedSoFar /\ ManifestIsWritten /\ ReadIsNoOlder /\ CompleteOrUnderWay

LEMMA SessionStarts == ASSUME Session!Init PROVE SessionInv
<1> USE DEF Session!Init, Session!NoSave, Session!NoManifest, Session!NotReading
<1>1. DOMAIN reading.got = {} /\ DOMAIN loaded.got = {}
  OBVIOUS
<1>2. SessionTypes
  <2>1. reading = [of |-> reading.of, got |-> [n \in DOMAIN reading.got |-> reading.got[n]]]
    OBVIOUS
  <2> QED
    BY <1>1, <2>1 DEF SessionTypes
<1>3. SavedSoFar /\ ManifestIsWritten /\ CompleteOrUnderWay
  BY DEF SavedSoFar, ManifestIsWritten, CompleteOrUnderWay
<1>4. ReadIsNoOlder
  BY <1>1 DEF ReadIsNoOlder
<1> QED
  BY <1>2, <1>3, <1>4 DEF SessionInv

LEMMA SessionGoesOn ==
    ASSUME SessionInv, [Session!Next]_(Session!vars)
    PROVE  SessionInv'
<1> USE DEF SessionInv, SessionTypes, SavedSoFar, ManifestIsWritten, ReadIsNoOlder, CompleteOrUnderWay,
            Session!NoSave, Session!NoManifest, Session!NotReading, Session!loadVars, Session!saveVars
<1>1. ASSUME NEW names \in SUBSET Names, Session!Save(names) PROVE SessionInv'
  BY <1>1 DEF Session!Save
<1>2. ASSUME NEW n \in Names, Session!WriteLog(n) PROVE SessionInv'
  <2>1. /\ saving.number = saves /\ saves > 0 /\ saving.names \in SUBSET Names /\ n \in saving.left
        /\ saving' = [number |-> saves, names |-> saving.names, left |-> saving.left \ {n}]
        /\ manifest' = manifest /\ complete' = complete /\ saves' = saves /\ crashes' = crashes
        /\ reading' = reading /\ loaded' = loaded
    BY <1>2 DEF Session!WriteLog
  <2>2. logFile' \in [Names -> Nat] /\ \A m \in Names : logFile'[m] = IF m = n THEN saves ELSE logFile[m]
    BY <1>2, <2>1 DEF Session!WriteLog
  <2>3. \A m \in Names : logFile'[m] >= logFile[m] /\ logFile'[m] <= saves
    BY <2>2
  <2>4. SessionTypes'
    BY <2>1, <2>2, <2>3
  <2>5. SavedSoFar'
    BY <2>1, <2>2
  <2>6. ManifestIsWritten' /\ ReadIsNoOlder'
    BY <2>1, <2>2, <2>3
  <2>7. CompleteOrUnderWay'
    <3>1. saving' # Session!NoSave /\ saving'.names \ saving'.left = (saving.names \ saving.left) \cup {n}
      BY <2>1
    <3> QED
      BY <2>1, <2>2, <3>1
  <2> QED
    BY <2>4, <2>5, <2>6, <2>7
<1>3. ASSUME NEW n \in Names, Session!ReadLog(n) PROVE SessionInv'
  BY <1>3 DEF Session!ReadLog
<1>4. ASSUME Session!WriteManifest PROVE SessionInv'
  <2>1. /\ saving.number \in Nat /\ saving.names \in SUBSET Names
        /\ manifest' = [number |-> saving.number, names |-> saving.names] /\ complete' = manifest'
        /\ saving' = Session!NoSave /\ logFile' = logFile /\ saves' = saves /\ crashes' = crashes
        /\ reading' = reading /\ loaded' = loaded
    BY <1>4 DEF Session!WriteManifest
  <2>2. \A n \in saving.names : logFile[n] = saving.number /\ saving.number > 0
    BY <1>4 DEF Session!WriteManifest
  <2>3. manifest' \in [number : Nat, names : SUBSET Names] /\ saving' \in [number : Nat, names : SUBSET Names, left : SUBSET Names]
    BY <2>1
  <2>4. SessionTypes' /\ SavedSoFar'
    BY <2>1, <2>3
  <2>5. ManifestIsWritten' /\ CompleteOrUnderWay'
    BY <2>1, <2>2
  <2>6. ReadIsNoOlder'
    BY <2>1
  <2> QED
    BY <2>4, <2>5, <2>6
<1>5. ASSUME Session!Crash PROVE SessionInv'
  BY <1>5 DEF Session!Crash
<1>6. ASSUME Session!Load PROVE SessionInv'
  BY <1>6 DEF Session!Load
<1>7. ASSUME Session!Loaded PROVE SessionInv'
  BY <1>7 DEF Session!Loaded
<1>8. ASSUME UNCHANGED Session!vars PROVE SessionInv'
  BY <1>8 DEF Session!vars
<1> QED
  BY <1>1, <1>2, <1>3, <1>4, <1>5, <1>6, <1>7, <1>8 DEF Session!Next

LEMMA NoneIsOlder ==
    ASSUME SessionInv PROVE Session!ExistsMeansLoadable /\ Session!LoadIsNotStale
BY DEF SessionInv, ManifestIsWritten, ReadIsNoOlder, CompleteOrUnderWay, Session!ExistsMeansLoadable,
       Session!LoadIsNotStale

\* A session that exists can be loaded, and a load gives no thread a log older
\* than the manifest that names it, through every crash and concurrent save.
THEOREM WhatExistsLoads ==
    Session!Spec => [](Session!ExistsMeansLoadable /\ Session!LoadIsNotStale)
BY NoneIsOlder, SessionStarts, SessionGoesOn, PTL DEF Session!Spec

----------------------------------------------------------------------------
(* Tool server.  A server has a number of its own, so a task that stops or *)
(* still starts an old one does not touch the current one; no token is     *)
(* minted until a start returned, so a start that fails leaves none.       *)

ToolTypes ==
    /\ starts \in Nat /\ serving \in 0..starts /\ socks \subseteq 1..starts /\ minted \in Nat
    /\ task \in [Callers -> [op : {"none", "starting", "stopping", "raised"}, server : 0..starts]]
    /\ DOMAIN byThread \subseteq Threads /\ IsFiniteSet(DOMAIN byThread)
    /\ byThread = [t \in DOMAIN byThread |-> byThread[t]]

\* The two registries are the same relation.
RegistriesAgree ==
    registrations = {[thread |-> t, token |-> byThread[t]] : t \in DOMAIN byThread}

NoneWhileDown ==
    /\ serving = 0 => DOMAIN byThread = {}
    /\ \A c \in Callers : task[c].op = "starting" /\ task[c].server = serving /\ serving \notin up
                             => DOMAIN byThread = {}

\* A socket that is not that of the server is that of a task that stops it.
StoppedByOne ==
    /\ \A c \in Callers : task[c].op = "stopping" => task[c].server \notin {serving, 0}
    /\ \A s \in socks : s = serving \/ \E c \in Callers : task[c].op = "stopping" /\ task[c].server = s

ToolInv == ToolTypes /\ RegistriesAgree /\ NoneWhileDown /\ StoppedByOne

LEMMA ToolsStart == ASSUME Tools!Init PROVE ToolInv
<1> USE DEF Tools!Init, Tools!Rest
<1>1. DOMAIN byThread = {} /\ byThread = [t \in DOMAIN byThread |-> byThread[t]]
  OBVIOUS
<1>2. ToolTypes
  BY <1>1, FS_EmptySet DEF ToolTypes
<1>3. RegistriesAgree
  BY <1>1 DEF RegistriesAgree
<1>4. NoneWhileDown /\ StoppedByOne
  BY <1>1 DEF NoneWhileDown, StoppedByOne
<1> QED
  BY <1>2, <1>3, <1>4 DEF ToolInv

LEMMA ToolsGoOn ==
    ASSUME ToolInv, [Tools!Next]_(Tools!vars)
    PROVE  ToolInv'
<1> USE DEF ToolInv, ToolTypes, NoneWhileDown, StoppedByOne, Tools!Bound, Tools!Rest, Tools!serverVars,
            Tools!tokenVars
<1>1. ASSUME NEW c \in Callers, Tools!Start(c) PROVE ToolInv'
  <2>1. CASE serving # 0
    BY <1>1, <2>1 DEF Tools!Start, RegistriesAgree
  <2>2. CASE serving = 0
    <3>1. /\ starts' = starts + 1 /\ serving' = starts + 1 /\ socks' = socks \cup {starts + 1}
          /\ \A d \in Callers : task'[d] = IF d = c THEN [op |-> "starting", server |-> starts + 1] ELSE task[d]
          /\ UNCHANGED <<up, registrations, byThread, minted>>
      BY <1>1, <2>2 DEF Tools!Start
    <3>2. ToolTypes'
      <4>1. task' \in [Callers -> [op : {"none", "starting", "stopping", "raised"}, server : 0..starts']]
        BY <1>1, <2>2 DEF Tools!Start
      <4> QED
        BY <3>1, <4>1
    <3>3. RegistriesAgree' /\ NoneWhileDown'
      BY <2>2, <3>1 DEF RegistriesAgree
    <3>4. StoppedByOne'
      <4>1. task[c].op = "none"
        BY <1>1 DEF Tools!Start
      <4> QED
        BY <2>2, <3>1, <4>1
    <3> QED
      BY <3>2, <3>3, <3>4
  <2> QED
    BY <2>1, <2>2
<1>2. ASSUME NEW c \in Callers, Tools!ServerUp(c) PROVE ToolInv'
  BY <1>2 DEF Tools!ServerUp, RegistriesAgree
<1>3. ASSUME NEW c \in Callers, Tools!Started(c) PROVE ToolInv'
  <2>1. /\ task' \in [Callers -> [op : {"none", "starting", "stopping", "raised"}, server : 0..starts]]
        /\ \A d \in Callers : d # c => task'[d] = task[d]
        /\ task[c].op = "starting" /\ task'[c].op \in {"none", "raised"}
        /\ UNCHANGED <<serving, up, socks, starts, registrations, byThread, minted>>
    BY <1>3 DEF Tools!Started
  <2>2. ToolTypes' /\ RegistriesAgree' /\ NoneWhileDown'
    BY <2>1 DEF RegistriesAgree
  <2>3. ASSUME NEW s \in socks', s # serving'
        PROVE  \E d \in Callers : task'[d].op = "stopping" /\ task'[d].server = s
    <3>1. PICK d \in Callers : task[d].op = "stopping" /\ task[d].server = s
      BY <2>1, <2>3
    <3> QED
      BY <2>1, <3>1
  <2>4. ASSUME NEW d \in Callers, task'[d].op = "stopping" PROVE task'[d].server \notin {serving', 0}
    BY <2>1, <2>4
  <2> QED
    BY <2>2, <2>3, <2>4
<1>4. ASSUME NEW c \in Callers, Tools!StartFails(c) PROVE ToolInv'
  <2>1. /\ task' \in [Callers -> [op : {"none", "starting", "stopping", "raised"}, server : 0..starts]]
        /\ \A d \in Callers : d # c => task'[d] = task[d]
        /\ task[c].op = "starting" /\ task'[c].op = "raised"
        /\ task[c].server = serving /\ serving \notin up /\ serving' = 0 /\ socks' = socks \ {serving}
        /\ UNCHANGED <<up, starts, registrations, byThread, minted>>
    BY <1>4 DEF Tools!StartFails
  <2>2. ToolTypes' /\ RegistriesAgree' /\ NoneWhileDown'
    BY <2>1 DEF RegistriesAgree
  <2>3. ASSUME NEW s \in socks', s # serving'
        PROVE  \E d \in Callers : task'[d].op = "stopping" /\ task'[d].server = s
    <3>1. PICK d \in Callers : task[d].op = "stopping" /\ task[d].server = s
      BY <2>1, <2>3
    <3> QED
      BY <2>1, <3>1
  <2>4. ASSUME NEW d \in Callers, task'[d].op = "stopping" PROVE task'[d].server \notin {serving', 0}
    <3>1. d # c
      BY <2>1, <2>4
    <3>2. task'[d] = task[d]
      BY <2>1, <3>1
    <3>3. task[d].op = "stopping"
      BY <2>4, <3>2
    <3>4. task[d].server \notin {serving, 0}
      BY <3>3
    <3> QED
      BY <2>1, <3>2, <3>4
  <2> QED
    BY <2>2, <2>3, <2>4
<1>5. ASSUME NEW c \in Callers, Tools!Stop(c) PROVE ToolInv'
  <2>1. DOMAIN byThread' = {} /\ byThread' = [t \in DOMAIN byThread' |-> byThread'[t]]
    BY <1>5 DEF Tools!Stop
  <2>2. RegistriesAgree'
    BY <1>5, <2>1 DEF Tools!Stop, RegistriesAgree
  <2>3. ToolTypes' /\ NoneWhileDown' /\ StoppedByOne'
    <3>1. /\ task' \in [Callers -> [op : {"none", "starting", "stopping", "raised"}, server : 0..starts]]
          /\ \A d \in Callers : d # c => task'[d] = task[d]
          /\ task[c].op # "stopping" /\ task'[c] = [op |-> "stopping", server |-> serving]
          /\ serving # 0 /\ serving' = 0 /\ UNCHANGED <<up, socks, starts, minted>>
      BY <1>5 DEF Tools!Stop
    <3>2. ToolTypes' /\ NoneWhileDown'
      BY <2>1, <3>1, FS_EmptySet
    <3>3. ASSUME NEW s \in socks', s # serving'
          PROVE  \E d \in Callers : task'[d].op = "stopping" /\ task'[d].server = s
      <4>1. CASE s = serving
        BY <3>1, <4>1
      <4>2. CASE s # serving
        <5>1. PICK d \in Callers : task[d].op = "stopping" /\ task[d].server = s
          BY <3>1, <4>2
        <5> QED
          BY <3>1, <5>1
      <4> QED
        BY <4>1, <4>2
    <3>4. ASSUME NEW d \in Callers, task'[d].op = "stopping" PROVE task'[d].server \notin {serving', 0}
      BY <3>1, <3>4
    <3> QED
      BY <3>2, <3>3, <3>4
  <2> QED
    BY <2>2, <2>3
<1>6. ASSUME NEW c \in Callers, Tools!Stopped(c) PROVE ToolInv'
  <2>1. /\ task' \in [Callers -> [op : {"none", "starting", "stopping", "raised"}, server : 0..starts]]
        /\ \A d \in Callers : d # c => task'[d] = task[d]
        /\ task[c].op = "stopping" /\ task'[c].op = "none"
        /\ up' = up \ {task[c].server} /\ socks' = socks \ {task[c].server}
        /\ UNCHANGED <<serving, starts, registrations, byThread, minted>>
    BY <1>6 DEF Tools!Stopped
  <2>2. ToolTypes' /\ RegistriesAgree' /\ NoneWhileDown'
    BY <2>1 DEF RegistriesAgree
  <2>3. ASSUME NEW s \in socks', s # serving'
        PROVE  \E d \in Callers : task'[d].op = "stopping" /\ task'[d].server = s
    <3>1. PICK d \in Callers : task[d].op = "stopping" /\ task[d].server = s
      BY <2>1, <2>3
    <3> QED
      BY <2>1, <3>1
  <2>4. ASSUME NEW d \in Callers, task'[d].op = "stopping" PROVE task'[d].server \notin {serving', 0}
    BY <2>1, <2>4
  <2> QED
    BY <2>2, <2>3, <2>4
<1>7. ASSUME NEW t \in Threads, Tools!Register(t) PROVE ToolInv'
  <2>1. DOMAIN byThread' = DOMAIN byThread \cup {t} /\ byThread' = [u \in DOMAIN byThread' |-> byThread'[u]]
    BY <1>7 DEF Tools!Register
  <2>2. \A u \in DOMAIN byThread' : byThread'[u] = IF u = t THEN minted + 1 ELSE byThread[u]
    BY <1>7 DEF Tools!Register
  <2>3. RegistriesAgree'
    <3>1. registrations' = {r \in registrations : r.thread # t} \cup {[thread |-> t, token |-> minted + 1]}
      BY <1>7 DEF Tools!Register, Tools!Without
    <3>2. {r \in registrations : r.thread # t} = {[thread |-> u, token |-> byThread[u]] : u \in DOMAIN byThread \ {t}}
      BY DEF RegistriesAgree
    <3>3. {[thread |-> u, token |-> byThread'[u]] : u \in DOMAIN byThread'}
            = {[thread |-> u, token |-> byThread[u]] : u \in DOMAIN byThread \ {t}}
                \cup {[thread |-> t, token |-> minted + 1]}
      BY <2>1, <2>2
    <3> QED
      BY <3>1, <3>2, <3>3 DEF RegistriesAgree
  <2>4. IsFiniteSet(DOMAIN byThread')
    BY <2>1, FS_AddElement
  <2>5. ToolTypes' /\ NoneWhileDown' /\ StoppedByOne'
    BY <1>7, <2>1, <2>4 DEF Tools!Register
  <2> QED
    BY <2>3, <2>5
<1>8. ASSUME NEW t \in Threads, Tools!Deregister(t) PROVE ToolInv'
  <2>1. DOMAIN byThread' = DOMAIN byThread \ {t} /\ byThread' = [u \in DOMAIN byThread' |-> byThread'[u]]
    BY <1>8 DEF Tools!Deregister
  <2>2. \A u \in DOMAIN byThread' : byThread'[u] = byThread[u]
    BY <1>8 DEF Tools!Deregister
  <2>3. RegistriesAgree'
    BY <1>8, <2>1, <2>2 DEF Tools!Deregister, Tools!Without, RegistriesAgree
  <2>4. IsFiniteSet(DOMAIN byThread')
    BY <2>1, FS_RemoveElement
  <2>5. ToolTypes' /\ NoneWhileDown' /\ StoppedByOne'
    BY <1>8, <2>1, <2>4 DEF Tools!Deregister
  <2> QED
    BY <2>3, <2>5
<1>9. ASSUME NEW q \in Requests, NEW k, Tools!Send(q, k) PROVE ToolInv'
  BY <1>9 DEF Tools!Send, RegistriesAgree
<1>10. ASSUME NEW q \in Requests, Tools!Route(q) PROVE ToolInv'
  BY <1>10 DEF Tools!Route, RegistriesAgree
<1>11. ASSUME NEW q \in Requests, Tools!Answer(q) PROVE ToolInv'
  BY <1>11 DEF Tools!Answer, RegistriesAgree
<1>12. ASSUME UNCHANGED Tools!vars PROVE ToolInv'
  BY <1>12 DEF Tools!vars, RegistriesAgree
<1> QED
  BY <1>1, <1>2, <1>3, <1>4, <1>5, <1>6, <1>7, <1>8, <1>9, <1>10, <1>11, <1>12 DEF Tools!Next

\* Two registries that are the same relation have the same size.
LEMMA OneTokenEach ==
    ASSUME ToolInv PROVE Tools!OneLiveToken /\ Tools!PortIsFree
<1>1. IsFiniteSet(DOMAIN byThread) /\ RegistriesAgree
  BY DEF ToolInv, ToolTypes
<1>2. PICK entry : entry = [t \in DOMAIN byThread |-> [thread |-> t, token |-> byThread[t]]]
  OBVIOUS
<1>3. Cardinality(registrations) = Cardinality(DOMAIN byThread)
  <2>1. entry \in Bijection(DOMAIN byThread, registrations)
    <3>1. entry \in [DOMAIN byThread -> registrations]
      BY <1>1, <1>2 DEF RegistriesAgree
    <3>2. \A t, u \in DOMAIN byThread : entry[t] = entry[u] => t = u
      BY <1>2
    <3>3. \A r \in registrations : \E t \in DOMAIN byThread : entry[t] = r
      BY <1>1, <1>2 DEF RegistriesAgree
    <3> QED
      BY <3>1, <3>2, <3>3 DEF Bijection, Injection, IsInjective, Surjection
  <2> QED
    BY <1>1, <2>1, FS_Bijection DEF ExistsBijection
<1>4. \A r \in registrations : r.thread \in DOMAIN byThread /\ byThread[r.thread] = r.token
  BY DEF ToolInv, RegistriesAgree
<1>5. ~Tools!Bound => registrations = {}
  BY DEF ToolInv, RegistriesAgree, NoneWhileDown, Tools!Bound
<1>6. Tools!PortIsFree
  BY DEF ToolInv, StoppedByOne, Tools!PortIsFree
<1> QED
  BY <1>3, <1>4, <1>5, <1>6 DEF Tools!OneLiveToken, Tools!Cardinality, Cardinality

\* Whatever the order of starts, stops, failed starts and registrations, a
\* thread has one live token, a stopped server none, and a port that no task
\* still holds is free.
THEOREM TokensDieWithTheServer ==
    Tools!Spec => [](Tools!OneLiveToken /\ Tools!PortIsFree)
BY OneTokenEach, ToolsStart, ToolsGoOn, PTL DEF Tools!Spec

----------------------------------------------------------------------------
(* Event log.  Every event that enters a log, appended or copied, gets an  *)
(* id above all there are, so a cursor names one place in the log that is  *)
(* read, and the log only grows behind it.                                 *)

LEMMA SameCardinality == \A S : Events!Cardinality(S) = Cardinality(S)
BY DEF Events!Cardinality, Cardinality

LogsGrow ==
    /\ events \in [Threads -> Seq(Nat \X Nat)]
    /\ known \subseteq Threads /\ Events!Reading \in known
    /\ \A t \in Threads \ known : events[t] = <<>>

IdsAreFresh ==
    /\ IsFiniteSet(Events!AllEvents)
    /\ \A t \in Threads : \A i \in 1..Len(events[t]) :
           events[t][i][2] >= 1 /\ events[t][i][2] <= Cardinality(Events!AllEvents)
    /\ \A i, j \in 1..Len(events[Events!Reading]) :
           events[Events!Reading][i][2] = events[Events!Reading][j][2] => i = j

CursorIsThePlace ==
    /\ page \in Seq(Nat) /\ Len(page) <= Len(events[Events!Reading])
    /\ \A i \in 1..Len(page) : page[i] = events[Events!Reading][i][1]
    /\ cursor = IF Len(page) = 0 THEN 0 ELSE events[Events!Reading][Len(page)][2]

EventsInv == LogsGrow /\ IdsAreFresh /\ CursorIsThePlace

LEMMA EventsStart == ASSUME Threads # {}, Events!Init PROVE EventsInv
<1> USE DEF Events!Init
<1>1. Events!Reading \in Threads
  BY DEF Events!Reading
<1>2. \A t \in Threads : events[t] = <<>> /\ Len(events[t]) = 0
  OBVIOUS
<1>3. LogsGrow
  BY <1>1, <1>2 DEF LogsGrow
<1>4. Events!AllEvents = {}
  <2>1. \A t \in Threads : Events!ToSet(events[t]) = {}
    BY <1>2 DEF Events!ToSet
  <2> QED
    BY <2>1 DEF Events!AllEvents
<1>5. IdsAreFresh
  BY <1>1, <1>2, <1>4, FS_EmptySet DEF IdsAreFresh
<1>6. CursorIsThePlace
  BY <1>1, <1>2 DEF CursorIsThePlace
<1> QED
  BY <1>3, <1>5, <1>6 DEF EventsInv

AllOf(logs) == UNION {Events!ToSet(logs[t]) : t \in Threads}

Somewhere(e, logs) == \E t \in Threads : \E i \in 1..Len(logs[t]) : e = logs[t][i]

\* The events of all logs are what stands at some place of one.
LEMMA SomewhereInALog ==
    ASSUME NEW logs \in [Threads -> Seq(Nat \X Nat)]
    PROVE  \A e : e \in AllOf(logs) <=> Somewhere(e, logs)
<1>1. ASSUME NEW t \in Threads PROVE Events!ToSet(logs[t]) = {logs[t][i] : i \in 1..Len(logs[t])}
  <2>1. DOMAIN logs[t] = 1..Len(logs[t])
    OBVIOUS
  <2> QED
    BY <2>1 DEF Events!ToSet
<1>2. ASSUME NEW t \in Threads, NEW e PROVE e \in Events!ToSet(logs[t]) <=> \E i \in 1..Len(logs[t]) : e = logs[t][i]
  BY <1>1
<1>3. ASSUME NEW e PROVE e \in AllOf(logs) <=> \E t \in Threads : e \in Events!ToSet(logs[t])
  BY DEF AllOf
<1>4. ASSUME NEW e PROVE (\E t \in Threads : e \in Events!ToSet(logs[t])) <=> \E t \in Threads : \E i \in 1..Len(logs[t]) : e = logs[t][i]
  <2>1. ASSUME NEW t \in Threads, e \in Events!ToSet(logs[t]) PROVE \E u \in Threads : \E i \in 1..Len(logs[u]) : e = logs[u][i]
    BY <1>2, <2>1
  <2>2. ASSUME NEW t \in Threads, \E i \in 1..Len(logs[t]) : e = logs[t][i] PROVE e \in Events!ToSet(logs[t])
    BY <1>2, <2>2
  <2> QED
    BY <2>1, <2>2
<1> QED
  BY <1>3, <1>4 DEF Somewhere

\* What stands behind a log is where its length says.
Behind(S, s, add, m, both) ==
    s \in Seq(S) /\ add \in Seq(S) /\ m = Len(s) /\ both = s \o add

PlacesAreKept(S, s, add, m, both) ==
    /\ both \in Seq(S) /\ Len(both) = m + Len(add)
    /\ \A i \in 1..m : i \in 1..Len(both) /\ both[i] = s[i]
    /\ \A i \in 1..Len(add) : m + i \in 1..Len(both) /\ both[m + i] = add[i]
    /\ \A i \in 1..Len(both) : i \in 1..m \/ \E j \in 1..Len(add) : i = m + j

LEMMA BehindALog ==
    ASSUME NEW S, NEW s, NEW add, NEW m, NEW both, Behind(S, s, add, m, both)
    PROVE  PlacesAreKept(S, s, add, m, both)
<1> USE DEF Behind
<1>1. /\ both \in Seq(S) /\ Len(both) = m + Len(add) /\ m \in Nat /\ Len(add) \in Nat
  OBVIOUS
<1>2. \A i \in 1..m : i \in 1..Len(both) /\ both[i] = s[i]
  BY <1>1
<1>3. \A i \in 1..Len(add) : m + i \in 1..Len(both) /\ both[m + i] = add[i]
  BY <1>1
<1>4. ASSUME NEW i \in 1..Len(both), i \notin 1..m PROVE \E j \in 1..Len(add) : i = m + j
  <2>1. i - m \in 1..Len(add) /\ i = m + (i - m)
    BY <1>1, <1>4
  <2> QED
    BY <2>1
<1> QED
  BY <1>1, <1>2, <1>3, <1>4 DEF PlacesAreKept

\* Events with ids above all there are number as many as they are more.
Adds(old, n, add, new, all) ==
    /\ IsFiniteSet(old) /\ n \in Nat /\ n = Cardinality(old) /\ \A e \in old : e[2] <= n
    /\ add \in Seq(Nat \X Nat) /\ \A i \in 1..Len(add) : add[i][2] = n + i
    /\ new = {add[i] : i \in 1..Len(add)} /\ all = old \cup new

LEMMA FreshIdsCount ==
    ASSUME NEW old, NEW n, NEW add, NEW new, NEW all, Adds(old, n, add, new, all)
    PROVE  IsFiniteSet(all) /\ Cardinality(all) = n + Len(add)
<1> USE DEF Adds
<1>1. PICK f : f = [i \in 1..Len(add) |-> add[i]]
  OBVIOUS
<1>2. IsFiniteSet(new) /\ Cardinality(new) = Len(add)
  <2>1. f \in Bijection(1..Len(add), new)
    <3>1. f \in [1..Len(add) -> new]
      BY <1>1
    <3>2. \A i, j \in 1..Len(add) : add[i] = add[j] => i = j
      <4>1. ASSUME NEW i \in 1..Len(add), NEW j \in 1..Len(add), add[i] = add[j] PROVE n + i = n + j
        BY <4>1
      <4> QED
        BY <4>1
    <3>3. \A i, j \in 1..Len(add) : f[i] = f[j] => i = j
      BY <1>1, <3>2
    <3>4. \A e \in new : \E i \in 1..Len(add) : f[i] = e
      BY <1>1
    <3> QED
      BY <3>1, <3>3, <3>4 DEF Bijection, Injection, IsInjective, Surjection
  <2>2. IsFiniteSet(1..Len(add)) /\ Cardinality(1..Len(add)) = Len(add)
    <3>1. PICK k \in Nat : k = Len(add)
      OBVIOUS
    <3>2. IsFiniteSet(1..k) /\ Cardinality(1..k) = IF 1 > k THEN 0 ELSE k - 1 + 1
      <4>1. 1 \in Int /\ k \in Int
        OBVIOUS
      <4> QED
        BY <4>1, FS_Interval
    <3>3. (IF 1 > k THEN 0 ELSE k - 1 + 1) = k
      OBVIOUS
    <3> QED
      BY <3>1, <3>2, <3>3
  <2> QED
    BY <2>1, <2>2, FS_Bijection DEF ExistsBijection
<1>3. old \cap new = {}
  <2>1. ASSUME NEW i \in 1..Len(add) PROVE add[i] \notin old
    <3>1. ~(add[i][2] <= n)
      OBVIOUS
    <3> QED
      BY <3>1
  <2> QED
    BY <2>1
<1>4. IsFiniteSet(old \cup new) /\ Cardinality(old \cup new) = Cardinality(old) + Cardinality(new) - Cardinality(old \cap new)
  BY <1>2, FS_Union
<1>5. Cardinality(old \cap new) = 0
  BY <1>3, FS_EmptySet
<1>6. PICK k \in Nat : k = Len(add)
  OBVIOUS
<1>7. n + k - 0 = n + k
  OBVIOUS
<1> QED
  BY <1>2, <1>4, <1>5, <1>6, <1>7

\* What the three ways into a log have in common: numbered pairs with the next
\* ids are added behind what is there.
GrowsBy(t, add) ==
    /\ add \in Seq(Nat \X Nat) /\ \A i \in 1..Len(add) : add[i][2] = Events!NewId + i - 1
    /\ events' = [events EXCEPT ![t] = @ \o add]
    /\ known' = known \cup {t} /\ UNCHANGED <<cursor, page>>

LEMMA LogGrows ==
    ASSUME LogsGrow, IdsAreFresh, CursorIsThePlace, NEW t \in Threads, NEW add, GrowsBy(t, add)
    PROVE  LogsGrow' /\ IdsAreFresh' /\ CursorIsThePlace'
<1>1. PICK n : n = Cardinality(Events!AllEvents)
  OBVIOUS
<1>2. PICK new : new = {add[i] : i \in 1..Len(add)}
  OBVIOUS
<1>3. /\ n \in Nat /\ IsFiniteSet(Events!AllEvents)
      /\ \A i \in 1..Len(add) : add[i] \in Nat \X Nat /\ add[i][2] = n + i
  <2>1. n \in Nat /\ IsFiniteSet(Events!AllEvents)
    BY <1>1, FS_CardinalityType DEF IdsAreFresh
  <2>2. Events!NewId = n + 1
    BY <1>1, SameCardinality DEF Events!NewId
  <2> QED
    BY <2>1, <2>2 DEF GrowsBy
<1>4. Events!Reading' = Events!Reading /\ Events!Reading \in Threads
  BY DEF Events!Reading, LogsGrow
<1>5. /\ events \in [Threads -> Seq(Nat \X Nat)] /\ events' \in [Threads -> Seq(Nat \X Nat)]
      /\ \A u \in Threads \ {t} : events'[u] = events[u]
      /\ events'[t] = events[t] \o add /\ add \in Seq(Nat \X Nat) /\ known' = known \cup {t}
      /\ page' = page /\ cursor' = cursor
  BY DEF LogsGrow, GrowsBy
<1>6. PICK m \in Nat : m = Len(events[t])
  BY <1>5
<1>7. /\ Len(events'[t]) = m + Len(add)
      /\ \A i \in 1..m : i \in 1..Len(events'[t]) /\ events'[t][i] = events[t][i]
      /\ \A i \in 1..Len(add) : m + i \in 1..Len(events'[t]) /\ events'[t][m + i] = add[i]
      /\ \A i \in 1..Len(events'[t]) : i \in 1..m \/ \E j \in 1..Len(add) : i = m + j
  <2>1. PICK both : both = events'[t]
    OBVIOUS
  <2>2. PICK log \in Seq(Nat \X Nat) : log = events[t]
    BY <1>5
  <2>3. /\ Len(both) = m + Len(add)
        /\ \A i \in 1..m : i \in 1..Len(both) /\ both[i] = log[i]
        /\ \A i \in 1..Len(add) : m + i \in 1..Len(both) /\ both[m + i] = add[i]
        /\ \A i \in 1..Len(both) : i \in 1..m \/ \E j \in 1..Len(add) : i = m + j
    <3>1. Behind(Nat \X Nat, log, add, m, both)
      BY <1>5, <1>6, <2>1, <2>2 DEF Behind
    <3>2. PlacesAreKept(Nat \X Nat, log, add, m, both)
      BY <3>1, BehindALog
    <3> QED
      BY <3>2 DEF PlacesAreKept
  <2> QED
    BY <2>1, <2>2, <2>3
<1>8. ASSUME NEW i \in 1..Len(events'[t]), i \notin 1..m
      PROVE  \E j \in 1..Len(add) : i = m + j
  BY <1>7, <1>8
<1>9. LogsGrow'
  BY <1>4, <1>5 DEF LogsGrow
<1>10. \A e : e \in Events!AllEvents <=> Somewhere(e, events)
  <2>1. PICK logs \in [Threads -> Seq(Nat \X Nat)] : logs = events
    BY <1>5
  <2>2. Events!AllEvents = AllOf(logs)
    BY <2>1 DEF Events!AllEvents, AllOf
  <2> QED
    BY <2>1, <2>2, SomewhereInALog
<1>11. PICK after : after = Events!AllEvents'
  OBVIOUS
<1>12. PICK logs \in [Threads -> Seq(Nat \X Nat)] : logs = events'
  BY <1>5
<1>13. \A e : e \in after <=> Somewhere(e, logs)
  <2>1. after = AllOf(logs)
    BY <1>11, <1>12 DEF Events!AllEvents, AllOf
  <2> QED
    BY <2>1, SomewhereInALog
<1>14. after = Events!AllEvents \cup new
  <2>1. ASSUME NEW e \in after PROVE e \in Events!AllEvents \cup new
    <3>1. PICK u \in Threads : \E i \in 1..Len(logs[u]) : e = logs[u][i]
      BY <1>13 DEF Somewhere
    <3>2. PICK i \in 1..Len(events'[u]) : e = events'[u][i]
      BY <1>12, <3>1
    <3>3. CASE u # t \/ i \in 1..m
      BY <1>5, <1>6, <1>7, <1>10, <3>2, <3>3 DEF Somewhere
    <3>4. CASE u = t /\ i \notin 1..m
      <4>1. PICK j \in 1..Len(add) : i = m + j
        BY <1>8, <3>4
      <4> QED
        <5>1. e = events'[t][m + j]
          BY <3>2, <3>4, <4>1
        <5>2. e = add[j]
          BY <1>7, <5>1
        <5> QED
          BY <1>2, <5>2
    <3> QED
      BY <3>3, <3>4
  <2>2. ASSUME NEW e \in Events!AllEvents PROVE e \in after
    <3>1. PICK u \in Threads : \E i \in 1..Len(events[u]) : e = events[u][i]
      BY <1>10 DEF Somewhere
    <3>2. PICK i \in 1..Len(events[u]) : e = events[u][i]
      BY <3>1
    <3>3. i \in 1..Len(events'[u]) /\ e = events'[u][i]
      BY <1>5, <1>6, <1>7, <3>2
    <3> QED
      BY <1>13, <1>12, <3>3 DEF Somewhere
  <2>3. ASSUME NEW i \in 1..Len(add) PROVE add[i] \in after
    <3>1. m + i \in 1..Len(events'[t]) /\ add[i] = events'[t][m + i]
      BY <1>7
    <3> QED
      BY <1>13, <1>12, <3>1 DEF Somewhere
  <2> QED
    BY <1>2, <2>1, <2>2, <2>3
<1>15. ASSUME NEW u \in Threads, NEW i \in 1..Len(events[u])
       PROVE  events[u][i][2] \in Nat /\ events[u][i][2] >= 1 /\ events[u][i][2] <= n
  BY <1>1, <1>5 DEF IdsAreFresh
<1>16. IsFiniteSet(Events!AllEvents') /\ Cardinality(Events!AllEvents') = n + Len(add)
  <2>1. \A e \in Events!AllEvents : e[2] <= n
    BY <1>10, <1>15 DEF Somewhere
  <2> QED
    <3>1. PICK old : old = Events!AllEvents
      OBVIOUS
    <3>2. Adds(old, n, add, new, after)
      <4>1. IsFiniteSet(old) /\ n \in Nat /\ n = Cardinality(old) /\ \A e \in old : e[2] <= n
        BY <1>1, <1>3, <2>1, <3>1
      <4>2. after = old \cup new
        BY <1>14, <3>1
      <4> QED
        BY <1>2, <1>3, <1>5, <4>1, <4>2 DEF Adds
    <3>3. IsFiniteSet(after) /\ Cardinality(after) = n + Len(add)
      BY <3>2, FreshIdsCount
    <3> QED
      BY <1>11, <3>3
<1>17. IdsAreFresh'
  <2>1. ASSUME NEW u \in Threads, NEW i \in 1..Len(events'[u])
        PROVE  events'[u][i][2] >= 1 /\ events'[u][i][2] <= n + Len(add)
    <3>1. CASE u # t \/ i \in 1..m
      <4>1. i \in 1..Len(events[u]) /\ events'[u][i] = events[u][i]
        BY <1>5, <1>6, <1>7, <3>1
      <4>2. Len(add) \in Nat
        BY <1>5
      <4>3. events[u][i][2] \in Nat /\ events[u][i][2] >= 1 /\ events[u][i][2] <= n
        BY <1>15, <4>1
      <4> QED
        BY <1>3, <4>1, <4>2, <4>3
    <3>2. CASE u = t /\ i \notin 1..m
      <4>1. PICK j \in 1..Len(add) : i = m + j
        BY <1>8, <3>2
      <4>2. events'[u][i][2] = n + j
        BY <1>3, <1>7, <3>2, <4>1
      <4>3. j \in Nat /\ j >= 1 /\ j <= Len(add) /\ Len(add) \in Nat
        BY <1>5
      <4>4. n + j >= 1 /\ n + j <= n + Len(add)
        BY <1>3, <4>3
      <4> QED
        BY <4>2, <4>4
    <3> QED
      BY <3>1, <3>2
  <2>2. ASSUME NEW i \in 1..Len(events'[Events!Reading]), NEW j \in 1..Len(events'[Events!Reading]),
               events'[Events!Reading][i][2] = events'[Events!Reading][j][2]
        PROVE  i = j
    <3>1. CASE Events!Reading # t
      BY <1>4, <1>5, <2>2, <3>1 DEF IdsAreFresh
    <3>2. CASE Events!Reading = t /\ i \in 1..m /\ j \in 1..m
      BY <1>6, <1>7, <2>2, <3>2 DEF IdsAreFresh
    <3>3. ASSUME Events!Reading = t, NEW k \in 1..Len(events'[t]), k \notin 1..m,
                 NEW l \in 1..m, events'[t][k][2] = events'[t][l][2]
          PROVE  FALSE
      <4>1. PICK x \in 1..Len(add) : k = m + x
        BY <1>8, <3>3
      <4>2. events'[t][k][2] = n + x
        BY <1>3, <1>7, <4>1
      <4>3. events'[t][l][2] <= n /\ events'[t][l][2] \in Nat
        BY <1>6, <1>7, <1>15
      <4>4. PICK y \in Nat : y = events'[t][l][2]
        BY <4>3
      <4>5. y <= n /\ y = n + x
        BY <3>3, <4>2, <4>3, <4>4
      <4> QED
        BY <1>3, <4>5
    <3>4. CASE Events!Reading = t /\ i \notin 1..m /\ j \notin 1..m
      <4>1. PICK x \in 1..Len(add) : i = m + x
        BY <1>8, <3>4
      <4>2. PICK y \in 1..Len(add) : j = m + y
        BY <1>8, <3>4
      <4>3. events'[t][i][2] = n + x /\ events'[t][j][2] = n + y
        <5>1. events'[t][m + x] = add[x] /\ events'[t][m + y] = add[y]
          BY <1>7
        <5>2. add[x][2] = n + x /\ add[y][2] = n + y
          BY <1>3
        <5> QED
          BY <4>1, <4>2, <5>1, <5>2
      <4>4. n + x = n + y
        BY <2>2, <3>4, <4>3
      <4> QED
        BY <1>3, <4>1, <4>2, <4>4
    <3> QED
      BY <2>2, <3>1, <3>2, <3>3, <3>4
  <2>3. \A u \in Threads : \A i \in 1..Len(events'[u]) :
            events'[u][i][2] >= 1 /\ events'[u][i][2] <= Cardinality(Events!AllEvents')
    BY <1>16, <2>1
  <2>4. \A i, j \in 1..Len(events'[Events!Reading']) :
            events'[Events!Reading'][i][2] = events'[Events!Reading'][j][2] => i = j
    BY <1>4, <2>2
  <2> QED
    BY <1>16, <2>3, <2>4 DEF IdsAreFresh
<1>18. CursorIsThePlace'
  <2>1. PICK old \in Seq(Nat \X Nat) : old = events[Events!Reading]
    BY <1>4, <1>5
  <2>2. PICK later \in Seq(Nat \X Nat) : later = events'[Events!Reading]
    BY <1>4, <1>5
  <2>3. Len(old) <= Len(later) /\ \A i \in 1..Len(old) : later[i] = old[i]
    <3>1. CASE Events!Reading = t
      <4>1. old = events[t] /\ later = events'[t]
        BY <2>1, <2>2, <3>1
      <4>2. m = Len(old)
        BY <1>6, <4>1
      <4>3. Len(later) = m + Len(add) /\ \A i \in 1..m : later[i] = old[i]
        BY <1>7, <4>1
      <4>4. Len(add) \in Nat
        BY <1>5
      <4> QED
        BY <4>2, <4>3, <4>4
    <3>2. CASE Events!Reading # t
      BY <1>4, <1>5, <2>1, <2>2, <3>2
    <3> QED
      BY <3>1, <3>2
  <2>4. /\ page \in Seq(Nat) /\ Len(page) <= Len(old) /\ \A i \in 1..Len(page) : page[i] = old[i][1]
        /\ cursor = IF Len(page) = 0 THEN 0 ELSE old[Len(page)][2]
    BY <2>1 DEF CursorIsThePlace
  <2>5. /\ page \in Seq(Nat) /\ Len(page) <= Len(later) /\ \A i \in 1..Len(page) : page[i] = later[i][1]
        /\ cursor = IF Len(page) = 0 THEN 0 ELSE later[Len(page)][2]
    <3>1. Len(page) \in Nat /\ Len(old) \in Nat /\ Len(later) \in Nat
      BY <2>4
    <3>2. Len(page) <= Len(later) /\ \A i \in 1..Len(page) : i \in 1..Len(old)
      <4>1. PICK a \in Nat : a = Len(page)
        BY <3>1
      <4>2. PICK b \in Nat : b = Len(old)
        BY <3>1
      <4>3. a <= b /\ b <= Len(later)
        BY <2>3, <2>4, <4>1, <4>2
      <4>4. a <= Len(later) /\ \A i \in 1..a : i \in 1..b
        BY <3>1, <4>3
      <4> QED
        BY <4>1, <4>2, <4>4
    <3>3. \A i \in 1..Len(page) : page[i] = later[i][1]
      BY <2>3, <2>4, <3>2
    <3>4. CASE Len(page) = 0
      BY <2>4, <3>2, <3>3, <3>4
    <3>5. CASE Len(page) # 0
      <4>1. Len(page) \in 1..Len(page)
        BY <3>1, <3>5
      <4>2. later[Len(page)] = old[Len(page)]
        BY <2>3, <3>2, <4>1
      <4> QED
        BY <2>4, <3>2, <3>3, <3>5, <4>2
    <3> QED
      BY <3>4, <3>5
  <2> QED
    BY <1>4, <1>5, <2>2, <2>5 DEF CursorIsThePlace
<1> QED
  BY <1>9, <1>17, <1>18

\* Where the reader stands is the place its cursor names, and what it reads
\* next follows it.
LEMMA PageFollows ==
    ASSUME LogsGrow, IdsAreFresh, CursorIsThePlace, NEW limit \in 1..2, Events!GetEvents(limit)
    PROVE  CursorIsThePlace'
<1>1. PICK log \in Seq(Nat \X Nat) : log = events[Events!Reading]
  BY DEF LogsGrow
<1>2. PICK m \in Nat : m = Len(page)
  BY DEF CursorIsThePlace
<1>3. PICK n \in Nat : n = Len(log)
  BY <1>1
<1>4. m <= n /\ (\A i \in 1..m : page[i] = log[i][1]) /\ cursor = IF m = 0 THEN 0 ELSE log[m][2]
  BY <1>1, <1>2, <1>3 DEF CursorIsThePlace
<1>5. /\ \A i \in 1..n : log[i][2] >= 1 /\ log[i][2] \in Nat
      /\ \A i, j \in 1..n : log[i][2] = log[j][2] => i = j
  <2>1. \A i \in 1..n : log[i] \in Nat \X Nat
    BY <1>3
  <2>2. Events!Reading \in Threads
    BY DEF LogsGrow
  <2> QED
    BY <1>1, <1>3, <2>1, <2>2 DEF IdsAreFresh
<1>6. Events!SelectInSeq(log, LAMBDA e : e[2] = cursor) = m
  <2>1. CASE m = 0
    <3>1. {i \in 1..Len(log) : log[i][2] = cursor} = {}
      BY <1>3, <1>4, <1>5, <2>1
    <3> QED
      BY <2>1, <3>1 DEF Events!SelectInSeq
  <2>2. CASE m # 0
    <3>1. m \in 1..n /\ cursor = log[m][2]
      BY <1>4, <2>2
    <3>2. \A i \in 1..n : log[i][2] = cursor <=> i = m
      BY <1>5, <3>1
    <3>3. {i \in 1..Len(log) : log[i][2] = cursor} = {m}
      BY <1>3, <3>1, <3>2
    <3>4. Events!Min({m}) = m
      BY DEF Events!Min
    <3> QED
      BY <3>3, <3>4 DEF Events!SelectInSeq
  <2> QED
    BY <2>1, <2>2
<1>7. PICK to : to = IF m + limit < n THEN m + limit ELSE n
  OBVIOUS
<1>8. /\ to > m /\ page' = page \o [i \in 1 .. to - m |-> log[m + i][1]] /\ cursor' = log[to][2]
      /\ UNCHANGED <<events, known>>
  BY <1>1, <1>3, <1>6, <1>7 DEF Events!GetEvents
<1>9. to \in Nat /\ to <= n /\ to \in 1..n
  BY <1>7, <1>8
<1>10. PICK k \in Nat : k = to - m
  BY <1>8, <1>9
<1>11. PICK more : more = [i \in 1..k |-> log[m + i][1]]
  OBVIOUS
<1>12. more \in Seq(Nat) /\ Len(more) = k /\ \A i \in 1..k : more[i] = log[m + i][1]
  <2>1. ASSUME NEW i \in 1..k PROVE log[m + i][1] \in Nat
    <3>1. m + i \in 1..Len(log)
      BY <1>3, <1>9, <1>10
    <3>2. log[m + i] \in Nat \X Nat
      BY <3>1
    <3> QED
      BY <3>2
  <2> QED
    BY <1>11, <2>1
<1>13. PICK next : next = page'
  OBVIOUS
<1>14. /\ next \in Seq(Nat) /\ Len(next) = to
       /\ \A i \in 1..m : next[i] = page[i]
       /\ \A i \in 1..k : next[m + i] = more[i]
  <2>1. Behind(Nat, page, more, m, next)
    BY <1>2, <1>8, <1>10, <1>11, <1>12, <1>13 DEF Behind, CursorIsThePlace
  <2>2. m + k = to
    BY <1>9, <1>10
  <2>3. PlacesAreKept(Nat, page, more, m, next)
    BY <2>1, BehindALog
  <2> QED
    BY <1>12, <2>2, <2>3 DEF PlacesAreKept
<1>15. ASSUME NEW i \in 1..to PROVE next[i] = log[i][1]
  <2>1. CASE i <= m
    <3>1. i \in 1..m
      BY <2>1, <1>9
    <3> QED
      BY <1>4, <1>14, <3>1
  <2>2. CASE i > m
    <3>1. i - m \in 1..k /\ i = m + (i - m)
      BY <1>9, <1>10, <2>2
    <3>2. PICK j \in 1..k : i = m + j
      BY <3>1
    <3> QED
      BY <1>12, <1>14, <3>2
  <2> QED
    BY <1>9, <2>1, <2>2
<1>16. Events!Reading' = Events!Reading /\ events' = events
  BY <1>8 DEF Events!Reading
<1> QED
  <2>1. to # 0 /\ Len(next) <= Len(log) /\ cursor' = log[Len(next)][2]
    BY <1>3, <1>8, <1>9, <1>14
  <2> QED
    BY <1>1, <1>13, <1>14, <1>15, <1>16, <2>1 DEF CursorIsThePlace

\* A copy of a log, or of its beginning, is a sequence of as many events with
\* the next ids.
LEMMA CopiesAreFresh ==
    ASSUME LogsGrow, IdsAreFresh, NEW log \in Seq(Nat \X Nat)
    PROVE  /\ Events!Copied(log) \in Seq(Nat \X Nat) /\ Len(Events!Copied(log)) = Len(log)
           /\ \A i \in 1..Len(log) : Events!Copied(log)[i][2] = Events!NewId + i - 1
<1>1. PICK n \in Nat : n = Cardinality(Events!AllEvents)
  BY FS_CardinalityType DEF IdsAreFresh
<1>2. Events!NewId = n + 1
  BY <1>1, SameCardinality DEF Events!NewId
<1>3. DOMAIN log = 1..Len(log)
  OBVIOUS
<1>4. ASSUME NEW i \in 1..Len(log) PROVE <<log[i][1], n + 1 + i - 1>> \in Nat \X Nat
  <2>1. log[i] \in Nat \X Nat
    OBVIOUS
  <2> QED
    BY <2>1
<1>5. Events!Copied(log) = [i \in 1..Len(log) |-> <<log[i][1], n + 1 + i - 1>>]
  BY <1>2, <1>3 DEF Events!Copied
<1> QED
  BY <1>2, <1>4, <1>5

LEMMA AppendGrows ==
    ASSUME EventsInv, NEW t \in known, Events!AppendEvent(t)
    PROVE  \E x \in Nat \X Nat : GrowsBy(t, <<x>>) /\ Len(<<x>>) = 1 /\ <<x>>[1][1] = Events!Appended + 1
<1> USE DEF EventsInv
<1>1. Events!Appended \in Nat
  <2>1. PICK f : f = [e \in Events!AllEvents |-> e[1]]
    OBVIOUS
  <2>2. f \in Surjection(Events!AllEvents, {e[1] : e \in Events!AllEvents})
    BY <2>1 DEF Surjection
  <2>3. IsFiniteSet({e[1] : e \in Events!AllEvents})
    BY <2>2, FS_Surjection DEF IdsAreFresh
  <2> QED
    BY <2>3, FS_CardinalityType, SameCardinality DEF Events!Appended
<1>2. Events!NewId \in Nat
  <2>1. Cardinality(Events!AllEvents) \in Nat
    BY FS_CardinalityType DEF IdsAreFresh
  <2> QED
    BY <2>1, SameCardinality DEF Events!NewId
<1>3. PICK x \in Nat \X Nat : x = <<Events!Appended + 1, Events!NewId>>
  <2>1. PICK a \in Nat : a = Events!Appended + 1
    BY <1>1
  <2>2. PICK b \in Nat : b = Events!NewId
    BY <1>2
  <2>3. <<a, b>> \in Nat \X Nat
    OBVIOUS
  <2> QED
    BY <2>1, <2>2, <2>3
<1>4. <<x>> \in Seq(Nat \X Nat) /\ Len(<<x>>) = 1 /\ <<x>>[1] = x
  OBVIOUS
<1>5. \A i \in 1..Len(<<x>>) : <<x>>[i][2] = Events!NewId + i - 1
  BY <1>2, <1>3, <1>4
<1>6. Append(events[t], x) = events[t] \o <<x>>
  BY DEF LogsGrow
<1>7. GrowsBy(t, <<x>>)
  BY <1>3, <1>4, <1>5, <1>6 DEF GrowsBy, Events!AppendEvent, Events!readVars
<1> QED
  BY <1>3, <1>4, <1>7

LEMMA SpawnGrows ==
    ASSUME EventsInv, NEW source \in Threads, NEW t \in Threads, Events!SpawnSeeded(source, t)
    PROVE  GrowsBy(t, Events!Copied(events[source]))
<1>1. PICK add : add = Events!Copied(events[source])
  OBVIOUS
<1>2. events[source] \in Seq(Nat \X Nat) /\ events[t] = <<>>
  BY DEF EventsInv, LogsGrow, Events!SpawnSeeded
<1>3. add \in Seq(Nat \X Nat) /\ \A i \in 1..Len(add) : add[i][2] = Events!NewId + i - 1
  BY <1>1, <1>2, CopiesAreFresh DEF EventsInv
<1>4. <<>> \o add = add
  BY <1>3
<1> QED
  BY <1>1, <1>2, <1>3, <1>4 DEF GrowsBy, Events!SpawnSeeded, Events!readVars

LEMMA CopyGrows ==
    ASSUME EventsInv, NEW source \in Threads, NEW t \in Threads, NEW cut \in DOMAIN events[source],
           Events!CopyEvents(source, t, cut)
    PROVE  GrowsBy(t, Events!Copied(SubSeq(events[source], 1, cut)))
<1>1. PICK log : log = SubSeq(events[source], 1, cut)
  OBVIOUS
<1>2. log \in Seq(Nat \X Nat)
  BY <1>1 DEF EventsInv, LogsGrow
<1>3. PICK add : add = Events!Copied(log)
  OBVIOUS
<1>4. add \in Seq(Nat \X Nat) /\ \A i \in 1..Len(add) : add[i][2] = Events!NewId + i - 1
  BY <1>2, <1>3, CopiesAreFresh DEF EventsInv
<1> QED
  BY <1>1, <1>3, <1>4 DEF GrowsBy, Events!CopyEvents, Events!readVars

LEMMA EventsGoOn ==
    ASSUME EventsInv, [Events!Next]_(Events!vars)
    PROVE  EventsInv'
<1> USE DEF EventsInv
<1>1. ASSUME NEW t \in known, Events!AppendEvent(t) PROVE EventsInv'
  <2>1. t \in Threads
    BY DEF LogsGrow
  <2> QED
    BY <1>1, <2>1, AppendGrows, LogGrows
<1>2. ASSUME NEW source \in Threads, NEW t \in Threads, Events!SpawnSeeded(source, t) PROVE EventsInv'
  BY <1>2, SpawnGrows, LogGrows
<1>3. ASSUME NEW source \in Threads, NEW t \in Threads, NEW cut \in DOMAIN events[source],
             Events!CopyEvents(source, t, cut)
      PROVE  EventsInv'
  BY <1>3, CopyGrows, LogGrows
<1>4. ASSUME NEW limit \in 1..2, Events!GetEvents(limit) PROVE EventsInv'
  <2>1. CursorIsThePlace'
    BY <1>4, PageFollows
  <2>2. UNCHANGED <<events, known>>
    BY <1>4 DEF Events!GetEvents
  <2>3. Events!Reading' = Events!Reading /\ Events!AllEvents' = Events!AllEvents
    BY <2>2 DEF Events!Reading, Events!AllEvents
  <2> QED
    BY <2>1, <2>2, <2>3 DEF LogsGrow, IdsAreFresh
<1>5. ASSUME UNCHANGED <<events, known, cursor, page>> PROVE EventsInv'
  <2>1. Events!Reading' = Events!Reading /\ Events!AllEvents' = Events!AllEvents
    BY <1>5 DEF Events!Reading, Events!AllEvents
  <2> QED
    BY <1>5, <2>1 DEF LogsGrow, IdsAreFresh, CursorIsThePlace
<1>6. ASSUME Events!Produce \/ Events!Nested PROVE EventsInv'
  <2>1. PICK t \in known : Events!AppendEvent(t)
    BY <1>6 DEF Events!Produce, Events!Nested
  <2> QED
    BY <1>1, <2>1
<1>7. ASSUME Events!Callback \/ Events!Return \/ \E s \in Subscribers : Events!On(s) \/ Events!Unsubscribe(s)
      PROVE  EventsInv'
  BY <1>5, <1>7 DEF Events!Callback, Events!Return, Events!On, Events!Unsubscribe, Events!readVars
<1> QED
  BY <1>2, <1>3, <1>4, <1>5, <1>6, <1>7 DEF Events!Next, Events!vars

LEMMA PagesFollowTheLog ==
    ASSUME EventsInv PROVE Events!PagesAreTheLog
<1>1. PICK log \in Seq(Nat \X Nat) : log = events[Events!Reading]
  BY DEF EventsInv, LogsGrow
<1>2. PICK numbers : numbers = [i \in DOMAIN log |-> log[i][1]]
  OBVIOUS
<1>3. numbers \in Seq(Nat) /\ Len(numbers) = Len(log) /\ \A i \in 1..Len(log) : numbers[i] = log[i][1]
  BY <1>2
<1>4. page \in Seq(Nat) /\ Len(page) <= Len(log) /\ \A i \in 1..Len(page) : page[i] = log[i][1]
  BY <1>1 DEF EventsInv, CursorIsThePlace
<1>5. SubSeq(page, 1, Len(page)) = SubSeq(numbers, 1, Len(page))
  <2>1. PICK m \in Nat : m = Len(page)
    BY <1>4
  <2>2. PICK n \in Nat : n = Len(log)
    OBVIOUS
  <2>3. \A i \in 1..m : i \in 1..n
    BY <1>4, <2>1, <2>2
  <2>4. \A i \in 1..m : page[i] = numbers[i]
    BY <1>3, <1>4, <2>1, <2>2, <2>3
  <2> QED
    BY <1>3, <1>4, <2>1, <2>2, <2>3, <2>4
<1> QED
  BY <1>1, <1>2, <1>3, <1>4, <1>5 DEF Events!PagesAreTheLog, Events!IsPrefix

\* Whoever pages with since_id reads the log from its beginning with no gap and
\* nothing twice, whatever is appended and copied into it meanwhile.
THEOREM PagesAlwaysAreTheLog ==
    ASSUME Threads # {} PROVE Events!Spec => []Events!PagesAreTheLog
BY EventsStart, EventsGoOn, PagesFollowTheLog, PTL DEF Events!Spec

----------------------------------------------------------------------------
(* What the subscribers are told.  Events are numbered as they come, so an  *)
(* event that is handed out is new to everybody; what a subscriber is owed  *)
(* it was given, or a running append still has it in its snapshot.          *)

Numbers == {e[1] : e \in Events!AllEvents}
Handed == [event : Nat, of : Threads, left : Seq(Subscribers)]

AllDiffer(s) == \A i, j \in 1..Len(s) : s[i] = s[j] => i = j

ToldTypes ==
    /\ active \in Seq(Subscribers) /\ AllDiffer(active)
    /\ delivered \in [Subscribers -> Seq(Nat)] /\ due \in [Subscribers -> SUBSET Nat]
    /\ handing \in Seq(Handed)

NumbersAreCounted == Events!Appended \in Nat /\ \A n \in Numbers : n <= Events!Appended

\* With filters f, the append h has still to tell s.
Waits(f, s, h) == f[s] \in {All, h.of} /\ \E j \in 1..Len(h.left) : h.left[j] = s

\* The appends hs hand out different events, of N, to each subscriber once.
AppendsDiffer(hs, N) ==
    /\ \A k \in 1..Len(hs) : hs[k].event <= N /\ AllDiffer(hs[k].left)
    /\ \A k, l \in 1..Len(hs) : hs[k].event = hs[l].event => k = l

Given(d, n) == \E i \in 1..Len(d) : d[i] = n
Awaited(f, s, hs, n) == \E k \in 1..Len(hs) : hs[k].event = n /\ Waits(f, s, hs[k])

\* The subscriber s, who is owed u and was given d, will be given the rest.
IsToldInTheEnd(f, s, hs, d, u, N) ==
    /\ AllDiffer(d)
    /\ \A n \in u : n <= N
    /\ \A n \in Nat : n \in u <=> Given(d, n) \/ Awaited(f, s, hs, n)
    /\ \A n \in Nat : ~(Given(d, n) /\ Awaited(f, s, hs, n))

ToldInv ==
    /\ ToldTypes /\ NumbersAreCounted /\ AppendsDiffer(handing, Events!Appended)
    /\ \A s \in Subscribers : IsToldInTheEnd(filter, s, handing, delivered[s], due[s], Events!Appended)

Numbered(n, logs) == \E t \in Threads : \E i \in 1..Len(logs[t]) : n = logs[t][i][1]

AddsNumber(n, add) == \E i \in 1..Len(add) : n = add[i][1]

LEMMA NumbersStand ==
    ASSUME NEW logs \in [Threads -> Seq(Nat \X Nat)], NEW n
    PROVE  n \in {e[1] : e \in AllOf(logs)} <=> Numbered(n, logs)
<1>1. ASSUME NEW e \in AllOf(logs), n = e[1] PROVE Numbered(n, logs)
  <2>1. Somewhere(e, logs)
    BY SomewhereInALog
  <2>2. PICK t \in Threads : \E i \in 1..Len(logs[t]) : e = logs[t][i]
    BY <2>1 DEF Somewhere
  <2>3. \E i \in 1..Len(logs[t]) : n = logs[t][i][1]
    BY <1>1, <2>2
  <2> QED
    BY <2>3 DEF Numbered
<1>2. ASSUME NEW t \in Threads, NEW i \in 1..Len(logs[t]), n = logs[t][i][1] PROVE n \in {e[1] : e \in AllOf(logs)}
  <2>1. Somewhere(logs[t][i], logs)
    BY DEF Somewhere
  <2>2. logs[t][i] \in AllOf(logs)
    BY <2>1, SomewhereInALog
  <2> QED
    BY <1>2, <2>2
<1> QED
  BY <1>1, <1>2 DEF Numbered

\* What is added to a log adds its numbers.
LEMMA NumbersGrow ==
    ASSUME NEW logs \in [Threads -> Seq(Nat \X Nat)], NEW t \in Threads, NEW add \in Seq(Nat \X Nat),
           NEW more \in [Threads -> Seq(Nat \X Nat)],
           more[t] = logs[t] \o add, \A u \in Threads : u # t => more[u] = logs[u]
    PROVE  \A n : Numbered(n, more) <=> Numbered(n, logs) \/ AddsNumber(n, add)
<1> SUFFICES ASSUME NEW n PROVE Numbered(n, more) <=> Numbered(n, logs) \/ AddsNumber(n, add)
  OBVIOUS
<1>1. logs[t] \in Seq(Nat \X Nat)
  OBVIOUS
<1>2. PlacesAreKept(Nat \X Nat, logs[t], add, Len(logs[t]), more[t])
  BY <1>1, BehindALog DEF Behind
<1>3. \A u \in Threads : u # t => more[u] = logs[u]
  OBVIOUS
<1>4. ASSUME NEW u \in Threads, NEW i \in 1..Len(logs[u]), n = logs[u][i][1] PROVE Numbered(n, more)
  <2>1. CASE u = t
    <3>1. i \in 1..Len(more[t]) /\ more[t][i] = logs[t][i]
      BY <1>2, <2>1 DEF PlacesAreKept
    <3> QED
      BY <1>4, <2>1, <3>1 DEF Numbered
  <2>2. CASE u # t
    BY <1>3, <1>4, <2>2 DEF Numbered
  <2> QED
    BY <2>1, <2>2
<1>5. ASSUME NEW i \in 1..Len(add), n = add[i][1] PROVE Numbered(n, more)
  <2>1. Len(logs[t]) + i \in 1..Len(more[t]) /\ more[t][Len(logs[t]) + i] = add[i]
    BY <1>2 DEF PlacesAreKept
  <2> QED
    BY <1>5, <2>1 DEF Numbered
<1>6. ASSUME NEW u \in Threads, NEW i \in 1..Len(more[u]), n = more[u][i][1], ~Numbered(n, logs)
      PROVE  \E k \in 1..Len(add) : n = add[k][1]
  <2>1. u = t
    BY <1>3, <1>6 DEF Numbered
  <2>2. i \notin 1..Len(logs[t])
    <3>1. ASSUME i \in 1..Len(logs[t]) PROVE FALSE
      <4>1. more[t][i] = logs[t][i]
        BY <1>2, <3>1 DEF PlacesAreKept
      <4> QED
        BY <1>6, <2>1, <3>1, <4>1 DEF Numbered
    <3> QED
      BY <3>1
  <2>3. PICK k \in 1..Len(add) : i = Len(logs[t]) + k
    BY <1>2, <2>1, <2>2 DEF PlacesAreKept
  <2>4. more[t][i] = add[k]
    BY <1>2, <2>3 DEF PlacesAreKept
  <2> QED
    BY <1>6, <2>1, <2>4
<1> QED
  BY <1>4, <1>5, <1>6 DEF Numbered, AddsNumber

LEMMA NumbersAreFinite ==
    ASSUME NEW S, IsFiniteSet(S)
    PROVE  IsFiniteSet({e[1] : e \in S}) /\ Cardinality({e[1] : e \in S}) \in Nat
<1>1. PICK f : f = [e \in S |-> e[1]]
  OBVIOUS
<1>2. f \in Surjection(S, {e[1] : e \in S})
  BY <1>1 DEF Surjection
<1>3. IsFiniteSet({e[1] : e \in S})
  BY <1>2, FS_Surjection
<1> QED
  BY <1>3, FS_CardinalityType

\* An append numbers its event with the next number; a copy leaves the count.
LEMMA CountGoesOn ==
    ASSUME EventsInv, EventsInv', NumbersAreCounted, NEW t \in Threads, NEW add, GrowsBy(t, add)
    PROVE  /\ (\A i \in 1..Len(add) : Numbered(add[i][1], events)) =>
                  NumbersAreCounted' /\ Events!Appended' = Events!Appended
           /\ (Len(add) = 1 /\ add[1][1] = Events!Appended + 1) =>
                  NumbersAreCounted' /\ Events!Appended' = Events!Appended + 1
<1>1. PICK logs \in [Threads -> Seq(Nat \X Nat)] : logs = events
  BY DEF EventsInv, LogsGrow
<1>2. PICK more \in [Threads -> Seq(Nat \X Nat)] : more = events'
  BY DEF EventsInv, LogsGrow
<1>3. add \in Seq(Nat \X Nat) /\ more = [logs EXCEPT ![t] = @ \o add]
  BY <1>1, <1>2 DEF GrowsBy
<1>4. PICK old : old = {e[1] : e \in AllOf(logs)}
  OBVIOUS
<1>5. PICK new : new = {e[1] : e \in AllOf(more)}
  OBVIOUS
<1>6. Numbers = old /\ Numbers' = new
  BY <1>1, <1>2, <1>4, <1>5 DEF Numbers, AllOf, Events!AllEvents
<1>7. /\ IsFiniteSet(old) /\ Events!Appended = Cardinality(old) /\ Cardinality(old) \in Nat
      /\ IsFiniteSet(new) /\ Events!Appended' = Cardinality(new) /\ Cardinality(new) \in Nat
  <2>1. IsFiniteSet(AllOf(logs)) /\ IsFiniteSet(AllOf(more))
    BY <1>1, <1>2 DEF EventsInv, IdsAreFresh, AllOf, Events!AllEvents
  <2>2. Events!Appended = Cardinality(Numbers) /\ Events!Appended' = Cardinality(Numbers')
    BY SameCardinality DEF Events!Appended, Numbers
  <2> QED
    BY <1>4, <1>5, <1>6, <2>1, <2>2, NumbersAreFinite
<1>8. \A n : (n \in old <=> Numbered(n, logs)) /\ (n \in new <=> Numbered(n, more))
  BY <1>4, <1>5, NumbersStand
<1>9. \A n : n \in new <=> n \in old \/ AddsNumber(n, add)
  <2>1. \A n : Numbered(n, more) <=> Numbered(n, logs) \/ AddsNumber(n, add)
    <3>1. /\ add \in Seq(Nat \X Nat) /\ more[t] = logs[t] \o add
          /\ \A u \in Threads : u # t => more[u] = logs[u]
      BY <1>3
    <3> QED
      BY <3>1, NumbersGrow
  <2> QED
    BY <1>8, <2>1
<1>10. ASSUME \A i \in 1..Len(add) : Numbered(add[i][1], events)
       PROVE  NumbersAreCounted' /\ Events!Appended' = Events!Appended
  <2>1. new = old
    BY <1>1, <1>8, <1>9, <1>10 DEF AddsNumber
  <2> QED
    BY <1>6, <1>7, <2>1 DEF NumbersAreCounted
<1>11. ASSUME Len(add) = 1, add[1][1] = Events!Appended + 1
       PROVE  NumbersAreCounted' /\ Events!Appended' = Events!Appended + 1
  <2>1. PICK m \in Nat : m = Cardinality(old)
    BY <1>7
  <2>2. new = old \cup {m + 1} /\ m + 1 \notin old
    <3>1. \A n : n \in new <=> n \in old \/ n = m + 1
      BY <1>7, <1>9, <1>11, <2>1 DEF AddsNumber
    <3>2. \A n \in old : n <= m
      BY <1>6, <1>7, <2>1 DEF NumbersAreCounted
    <3> QED
      BY <3>1, <3>2
  <2>3. Cardinality(new) = m + 1
    BY <1>7, <2>1, <2>2, FS_AddElement
  <2>4. \A n \in old : n <= m
    BY <1>6, <1>7, <2>1 DEF NumbersAreCounted
  <2>5. \A n \in new : n <= m + 1
    <3> SUFFICES ASSUME NEW n \in old PROVE n <= m + 1
      BY <2>2
    <3>1. n <= m
      BY <2>4
    <3>2. n \in Nat
      <4>1. PICK u \in Threads : \E i \in 1..Len(logs[u]) : n = logs[u][i][1]
        BY <1>8 DEF Numbered
      <4> QED
        BY <4>1
    <3> QED
      BY <3>1, <3>2
  <2> QED
    BY <1>6, <1>7, <2>1, <2>3, <2>5 DEF NumbersAreCounted
<1> QED
  BY <1>10, <1>11

\* Where what was in a sequence stands once something is put in front of it.
LEMMA PutInFront ==
    ASSUME NEW S, NEW hs \in Seq(S), NEW h \in S, NEW m, m = Len(hs), NEW more, more = <<h>> \o hs
    PROVE  /\ more \in Seq(S) /\ m \in Nat /\ Len(more) = m + 1 /\ 1 \in 1..m + 1 /\ more[1] = h
           /\ \A k \in 1..m : k + 1 \in 1..m + 1 /\ more[k + 1] = hs[k]
           /\ \A k \in 1..m + 1 : k # 1 => \E i \in 1..m : k = i + 1
<1>1. more \in Seq(S) /\ m \in Nat /\ Len(more) = m + 1 /\ 1 \in 1..m + 1 /\ more[1] = h
  OBVIOUS
<1>2. \A k \in 1..m : k + 1 \in 1..m + 1 /\ more[k + 1] = hs[k]
  OBVIOUS
<1>3. ASSUME NEW k \in 1..m + 1, k # 1 PROVE \E i \in 1..m : k = i + 1
  <2>1. k - 1 \in 1..m /\ k = (k - 1) + 1
    BY <1>1, <1>3
  <2> QED
    BY <2>1
<1> QED
  BY <1>1, <1>2, <1>3

\* And once its head is taken.
LEMMA TakenAway ==
    ASSUME NEW S, NEW hs \in Seq(S), hs # <<>>, NEW m, m = Len(hs), NEW rest, rest = Tail(hs)
    PROVE  /\ rest \in Seq(S) /\ m \in Nat /\ m - 1 \in Nat /\ Len(rest) = m - 1
           /\ 1 \in 1..m /\ Head(hs) = hs[1] /\ hs[1] \in S
           /\ \A k \in 1..m - 1 : k + 1 \in 1..m /\ k + 1 # 1 /\ rest[k] = hs[k + 1]
           /\ \A k \in 1..m : k # 1 => \E i \in 1..m - 1 : k = i + 1
<1>1. /\ rest \in Seq(S) /\ m \in Nat /\ m - 1 \in Nat /\ Len(rest) = m - 1
      /\ 1 \in 1..m /\ Head(hs) = hs[1] /\ hs[1] \in S
  OBVIOUS
<1>2. \A k \in 1..m - 1 : k + 1 \in 1..m /\ k + 1 # 1 /\ rest[k] = hs[k + 1]
  OBVIOUS
<1>3. ASSUME NEW k \in 1..m, k # 1 PROVE \E i \in 1..m - 1 : k = i + 1
  <2>1. k - 1 \in 1..m - 1 /\ k = (k - 1) + 1
    BY <1>1, <1>3
  <2> QED
    BY <2>1
<1> QED
  BY <1>1, <1>2, <1>3

\* One more append hands out an event that is new to everybody.
LEMMA AppendOwes ==
    ASSUME NEW hs \in Seq(Handed), NEW N \in Nat, AppendsDiffer(hs, N),
           NEW h \in Handed, h.event = N + 1, AllDiffer(h.left)
    PROVE  /\ <<h>> \o hs \in Seq(Handed) /\ AppendsDiffer(<<h>> \o hs, N + 1)
           /\ \A f, s, d, u : d \in Seq(Nat) /\ u \subseteq Nat /\ IsToldInTheEnd(f, s, hs, d, u, N) =>
                  IsToldInTheEnd(f, s, <<h>> \o hs, d, IF Waits(f, s, h) THEN u \cup {N + 1} ELSE u, N + 1)
<1> DEFINE more == <<h>> \o hs
           m == Len(hs)
<1>1. /\ more \in Seq(Handed) /\ m \in Nat /\ Len(more) = m + 1 /\ 1 \in 1..m + 1 /\ more[1] = h
      /\ \A k \in 1..m : k + 1 \in 1..m + 1 /\ more[k + 1] = hs[k]
      /\ \A k \in 1..m + 1 : k # 1 => \E i \in 1..m : k = i + 1
  BY PutInFront
<1>2. \A k \in 1..m : hs[k].event \in Nat /\ hs[k].event <= N /\ hs[k].event # N + 1 /\ AllDiffer(hs[k].left)
  <2>1. \A k \in 1..m : hs[k] \in Handed
    OBVIOUS
  <2>2. \A k \in 1..m : hs[k].event \in Nat
    BY <2>1 DEF Handed
  <2> QED
    BY <2>2 DEF AppendsDiffer
<1>0. \A k, l \in 1..m : hs[k].event = hs[l].event => k = l
  BY DEF AppendsDiffer
<1> HIDE DEF more, m
<1>3. AppendsDiffer(more, N + 1)
  <2>1. ASSUME NEW k \in 1..m + 1 PROVE more[k].event <= N + 1 /\ AllDiffer(more[k].left)
    <3>1. CASE k = 1
      BY <1>1, <3>1
    <3>2. CASE k # 1
      <4>1. PICK i \in 1..m : k = i + 1
        BY <1>1, <3>2
      <4>2. more[k] = hs[i]
        BY <1>1, <4>1
      <4>3. PICK n \in Nat : n = hs[i].event
        BY <1>2
      <4>4. n <= N + 1
        BY <1>2, <4>3
      <4> QED
        BY <1>2, <4>2, <4>3, <4>4
    <3> QED
      BY <3>1, <3>2
  <2>2. ASSUME NEW k \in 1..m + 1, NEW l \in 1..m + 1, more[k].event = more[l].event PROVE k = l
    <3>1. CASE k = 1 /\ l # 1
      <4>1. PICK i \in 1..m : l = i + 1
        BY <1>1, <3>1
      <4> QED
        BY <1>1, <1>2, <2>2, <3>1, <4>1
    <3>2. CASE k # 1 /\ l = 1
      <4>1. PICK i \in 1..m : k = i + 1
        BY <1>1, <3>2
      <4> QED
        BY <1>1, <1>2, <2>2, <3>2, <4>1
    <3>3. CASE k # 1 /\ l # 1
      <4>1. PICK i \in 1..m : k = i + 1
        BY <1>1, <3>3
      <4>2. PICK j \in 1..m : l = j + 1
        BY <1>1, <3>3
      <4>3. hs[i].event = hs[j].event
        BY <1>1, <2>2, <4>1, <4>2
      <4> QED
        BY <1>0, <4>1, <4>2, <4>3
    <3> QED
      BY <3>1, <3>2, <3>3
  <2> QED
    BY <1>1, <2>1, <2>2 DEF AppendsDiffer
<1>4. ASSUME NEW f, NEW s, NEW d \in Seq(Nat), NEW u \in SUBSET Nat, IsToldInTheEnd(f, s, hs, d, u, N)
      PROVE  IsToldInTheEnd(f, s, more, d, IF Waits(f, s, h) THEN u \cup {N + 1} ELSE u, N + 1)
  <2> DEFINE v == IF Waits(f, s, h) THEN u \cup {N + 1} ELSE u
  <2>1. ASSUME NEW n PROVE Awaited(f, s, more, n) <=> Awaited(f, s, hs, n) \/ (n = N + 1 /\ Waits(f, s, h))
    <3>1. ASSUME NEW k \in 1..m + 1, more[k].event = n, Waits(f, s, more[k])
          PROVE  (\E i \in 1..m : hs[i].event = n /\ Waits(f, s, hs[i])) \/ (n = N + 1 /\ Waits(f, s, h))
      <4>1. CASE k = 1
        BY <1>1, <3>1, <4>1
      <4>2. CASE k # 1
        <5>1. PICK i \in 1..m : k = i + 1
          BY <1>1, <4>2
        <5> QED
          BY <1>1, <3>1, <5>1
      <4> QED
        BY <4>1, <4>2
    <3>2. ASSUME NEW k \in 1..m, hs[k].event = n, Waits(f, s, hs[k])
          PROVE  \E i \in 1..m + 1 : more[i].event = n /\ Waits(f, s, more[i])
      BY <1>1, <3>2
    <3> QED
      BY <1>1, <3>1, <3>2 DEF Awaited, m
  <2>2. ~Given(d, N + 1) /\ N + 1 \notin u
    <3>1. N + 1 \in Nat /\ ~(N + 1 <= N)
      OBVIOUS
    <3> QED
      BY <1>4, <3>1 DEF IsToldInTheEnd
  <2>3. \A n \in v : n <= N + 1
    <3>1. \A n \in u : n <= N /\ n \in Nat
      BY <1>4 DEF IsToldInTheEnd
    <3> QED
      BY <3>1
  <2>4. ASSUME NEW n \in Nat
        PROVE  (n \in v <=> Given(d, n) \/ Awaited(f, s, more, n)) /\ ~(Given(d, n) /\ Awaited(f, s, more, n))
    <3>1. (n \in u <=> Given(d, n) \/ Awaited(f, s, hs, n)) /\ ~(Given(d, n) /\ Awaited(f, s, hs, n))
      BY <1>4 DEF IsToldInTheEnd
    <3>2. n \in v <=> n \in u \/ (n = N + 1 /\ Waits(f, s, h))
      OBVIOUS
    <3> HIDE DEF v
    <3> QED
      BY <2>1, <2>2, <3>1, <3>2
  <2> HIDE DEF v
  <2>5. IsToldInTheEnd(f, s, more, d, v, N + 1)
    BY <1>4, <2>3, <2>4 DEF IsToldInTheEnd
  <2> QED
    BY <2>5 DEF v
<1> QED
  BY <1>1, <1>3, <1>4 DEF more, m

\* The innermost append takes the next subscriber of its snapshot.
LEMMA CallbackGives ==
    ASSUME NEW hs \in Seq(Handed), NEW N \in Nat, AppendsDiffer(hs, N), hs # <<>>, Head(hs).left # <<>>
    PROVE  LET h == Head(hs)
               rest == <<[h EXCEPT !.left = Tail(@)]>> \o Tail(hs)
               first == Head(h.left)
           IN  /\ rest \in Seq(Handed) /\ AppendsDiffer(rest, N) /\ h.event \in Nat /\ first \in Subscribers
               /\ \A f, s, d, u : d \in Seq(Nat) /\ IsToldInTheEnd(f, s, hs, d, u, N) =>
                      IF s = first /\ f[s] \in {All, h.of}
                      THEN IsToldInTheEnd(f, s, rest, Append(d, h.event), u, N)
                      ELSE IsToldInTheEnd(f, s, rest, d, u, N)
<1> DEFINE h == Head(hs)
           g == [h EXCEPT !.left = Tail(@)]
           rest == <<g>> \o Tail(hs)
           first == Head(h.left)
<1>1. h \in Handed /\ h = hs[1] /\ 1 \in 1..Len(hs) /\ Len(hs) \in Nat
  OBVIOUS
<1>2. h.event \in Nat /\ h.left \in Seq(Subscribers) /\ h.left # <<>>
  BY <1>1 DEF Handed
<1>3. first = h.left[1] /\ first \in Subscribers
  BY <1>2
<1>4. g \in Handed /\ g.event = h.event /\ g.of = h.of /\ g.left = Tail(h.left)
  <2>1. Tail(h.left) \in Seq(Subscribers)
    BY <1>2
  <2>2. h \in [event : Nat, of : Threads, left : Seq(Subscribers)]
    BY <1>1 DEF Handed
  <2> HIDE DEF h
  <2> QED
    BY <2>1, <2>2 DEF Handed
<1>5. AllDiffer(h.left)
  BY <1>1 DEF AppendsDiffer
<1> HIDE DEF g, first
<1>6. /\ rest \in Seq(Handed) /\ Len(rest) = Len(hs) /\ rest[1] = g
      /\ \A k \in 1..Len(hs) : k # 1 => rest[k] = hs[k]
  BY <1>4
<1> HIDE DEF h, rest
<1>7. AllDiffer(g.left) /\ \A s : (\E j \in 1..Len(g.left) : g.left[j] = s) <=> s # first /\ \E j \in 1..Len(h.left) : h.left[j] = s
  <2>0. PICK m : m = Len(h.left)
    OBVIOUS
  <2>1. /\ m \in Nat /\ m - 1 \in Nat /\ Len(g.left) = m - 1 /\ 1 \in 1..m
        /\ \A k \in 1..m - 1 : k + 1 \in 1..m /\ k + 1 # 1 /\ g.left[k] = h.left[k + 1]
        /\ \A k \in 1..m : k # 1 => \E i \in 1..m - 1 : k = i + 1
    BY <1>2, <1>4, <2>0, TakenAway
  <2>2. AllDiffer(g.left)
    <3> SUFFICES ASSUME NEW i \in 1..m - 1, NEW j \in 1..m - 1, g.left[i] = g.left[j] PROVE i = j
      BY <2>1 DEF AllDiffer
    <3>1. i + 1 = j + 1
      BY <1>5, <2>0, <2>1 DEF AllDiffer
    <3> QED
      BY <2>1, <3>1
  <2>3. \A j \in 1..m : h.left[j] = first => j = 1
    BY <1>3, <1>5, <2>0, <2>1 DEF AllDiffer
  <2>4. ASSUME NEW j \in 1..m - 1 PROVE g.left[j] # first /\ \E i \in 1..m : h.left[i] = g.left[j]
    BY <2>1, <2>3
  <2>5. ASSUME NEW j \in 1..m, h.left[j] # first PROVE \E i \in 1..m - 1 : g.left[i] = h.left[j]
    <3>1. PICK i \in 1..m - 1 : j = i + 1
      BY <1>3, <2>1, <2>5
    <3> QED
      BY <2>1, <3>1
  <2>6. ASSUME NEW s PROVE (\E j \in 1..Len(g.left) : g.left[j] = s) <=> s # first /\ \E j \in 1..Len(h.left) : h.left[j] = s
    <3>1. ASSUME NEW j \in 1..m - 1, g.left[j] = s PROVE s # first /\ \E i \in 1..m : h.left[i] = s
      BY <2>4, <3>1
    <3>2. ASSUME NEW j \in 1..m, h.left[j] = s, s # first PROVE \E i \in 1..m - 1 : g.left[i] = s
      BY <2>5, <3>2
    <3>3. Len(g.left) = m - 1 /\ Len(h.left) = m
      BY <2>0, <2>1
    <3> QED
      BY <3>1, <3>2, <3>3
  <2> QED
    BY <2>2, <2>6
<1>8. AppendsDiffer(rest, N)
  <2>1. \A k \in 1..Len(rest) : rest[k].event = hs[k].event
    BY <1>1, <1>4, <1>6
  <2>2. \A k \in 1..Len(rest) : AllDiffer(rest[k].left)
    BY <1>6, <1>7 DEF AppendsDiffer
  <2> QED
    BY <1>6, <2>1, <2>2 DEF AppendsDiffer
<1>9. \A f, s : Waits(f, s, g) <=> Waits(f, s, h) /\ s # first
  BY <1>4, <1>7 DEF Waits
<1>10. ASSUME NEW f, NEW s, NEW d \in Seq(Nat), NEW u, IsToldInTheEnd(f, s, hs, d, u, N)
       PROVE  IF s = first /\ f[s] \in {All, h.of}
              THEN IsToldInTheEnd(f, s, rest, Append(d, h.event), u, N)
              ELSE IsToldInTheEnd(f, s, rest, d, u, N)
  <2>1. ASSUME NEW n PROVE Awaited(f, s, rest, n) <=>
                             \/ \E k \in 1..Len(hs) : k # 1 /\ hs[k].event = n /\ Waits(f, s, hs[k])
                             \/ h.event = n /\ Waits(f, s, g)
    BY <1>1, <1>4, <1>6 DEF Awaited
  <2>2. ASSUME NEW n PROVE Awaited(f, s, hs, n) <=>
                             \/ \E k \in 1..Len(hs) : k # 1 /\ hs[k].event = n /\ Waits(f, s, hs[k])
                             \/ h.event = n /\ Waits(f, s, h)
    BY <1>1 DEF Awaited
  <2>3. CASE s = first /\ f[s] \in {All, h.of}
    <3>1. Waits(f, s, h) /\ ~Waits(f, s, g)
      <4>1. \E j \in 1..Len(h.left) : h.left[j] = s
        BY <1>2, <1>3, <2>3
      <4> QED
        BY <1>9, <2>3, <4>1 DEF Waits
    <3>2. \A k \in 1..Len(hs) : k # 1 => hs[k].event # h.event
      BY <1>1 DEF AppendsDiffer
    <3>3. ASSUME NEW n PROVE Awaited(f, s, rest, n) <=> Awaited(f, s, hs, n) /\ n # h.event
      BY <2>1, <2>2, <3>1, <3>2
    <3>4. Awaited(f, s, hs, h.event)
      BY <2>2, <3>1
    <3>5. ~Given(d, h.event)
      BY <1>2, <1>10, <3>4 DEF IsToldInTheEnd
    <3> DEFINE e == Append(d, h.event)
    <3>6. /\ Len(e) = Len(d) + 1 /\ Len(d) \in Nat /\ e[Len(d) + 1] = h.event
          /\ \A i \in 1..Len(d) : e[i] = d[i]
      BY <1>2
    <3> HIDE DEF e
    <3>7. ASSUME NEW n PROVE Given(e, n) <=> Given(d, n) \/ n = h.event
      <4>1. PICK c \in Nat : c = Len(d)
        BY <3>6
      <4>2. \A i \in 1..c + 1 : i \in 1..c \/ i = c + 1
        OBVIOUS
      <4>3. \A i \in 1..c : i \in 1..c + 1
        OBVIOUS
      <4>4. c + 1 \in 1..c + 1
        OBVIOUS
      <4> QED
        BY <3>6, <4>1, <4>2, <4>3, <4>4 DEF Given
    <3>8. AllDiffer(e)
      <4>1. PICK c \in Nat : c = Len(d)
        BY <3>6
      <4>2. \A i \in 1..c + 1 : i \in 1..c \/ i = c + 1
        OBVIOUS
      <4>3. \A i \in 1..c : e[i] = d[i] /\ d[i] # h.event
        BY <3>5, <3>6, <4>1 DEF Given
      <4>4. \A i, j \in 1..c : d[i] = d[j] => i = j
        BY <1>10, <4>1 DEF IsToldInTheEnd, AllDiffer
      <4> QED
        BY <3>6, <4>1, <4>2, <4>3, <4>4 DEF AllDiffer
    <3>9. ASSUME NEW n \in Nat
          PROVE  (n \in u <=> Given(e, n) \/ Awaited(f, s, rest, n)) /\ ~(Given(e, n) /\ Awaited(f, s, rest, n))
      <4>1. (n \in u <=> Given(d, n) \/ Awaited(f, s, hs, n)) /\ ~(Given(d, n) /\ Awaited(f, s, hs, n))
        BY <1>10 DEF IsToldInTheEnd
      <4> QED
        BY <3>3, <3>4, <3>7, <4>1
    <3>10. IsToldInTheEnd(f, s, rest, e, u, N)
      BY <1>10, <3>8, <3>9 DEF IsToldInTheEnd
    <3> QED
      BY <2>3, <3>10 DEF e
  <2>4. CASE ~(s = first /\ f[s] \in {All, h.of})
    <3>1. Waits(f, s, h) <=> Waits(f, s, g)
      BY <1>9, <2>4 DEF Waits
    <3>2. ASSUME NEW n PROVE Awaited(f, s, rest, n) <=> Awaited(f, s, hs, n)
      BY <2>1, <2>2, <3>1
    <3>3. IsToldInTheEnd(f, s, rest, d, u, N)
      BY <1>10, <3>2 DEF IsToldInTheEnd
    <3> QED
      BY <2>4, <3>3
  <2> QED
    BY <2>3, <2>4
<1>11. /\ rest \in Seq(Handed) /\ AppendsDiffer(rest, N) /\ h.event \in Nat /\ first \in Subscribers
  BY <1>2, <1>3, <1>6, <1>8
<1> QED
  BY <1>10, <1>11 DEF rest, g, h, first

\* An append that has told everybody returns.
LEMMA ReturnOwesNothing ==
    ASSUME NEW hs \in Seq(Handed), NEW N \in Nat, AppendsDiffer(hs, N), hs # <<>>, Head(hs).left = <<>>
    PROVE  /\ Tail(hs) \in Seq(Handed) /\ AppendsDiffer(Tail(hs), N)
           /\ \A f, s, d, u : IsToldInTheEnd(f, s, hs, d, u, N) => IsToldInTheEnd(f, s, Tail(hs), d, u, N)
<1> DEFINE rest == Tail(hs)
           m == Len(hs)
<1>1. /\ rest \in Seq(Handed) /\ m \in Nat /\ m - 1 \in Nat /\ Len(rest) = m - 1
      /\ 1 \in 1..m /\ Head(hs) = hs[1]
      /\ \A k \in 1..m - 1 : k + 1 \in 1..m /\ k + 1 # 1 /\ rest[k] = hs[k + 1]
      /\ \A k \in 1..m : k # 1 => \E i \in 1..m - 1 : k = i + 1
  BY TakenAway
<1>0. /\ \A k \in 1..m : hs[k].event <= N /\ AllDiffer(hs[k].left)
      /\ \A k, l \in 1..m : hs[k].event = hs[l].event => k = l
  BY DEF AppendsDiffer
<1>5. Len(hs[1].left) = 0
  BY <1>1
<1> HIDE DEF rest, m
<1>2. AppendsDiffer(rest, N)
  <2>1. ASSUME NEW k \in 1..m - 1, NEW l \in 1..m - 1, rest[k].event = rest[l].event PROVE k = l
    <3>1. /\ k + 1 \in 1..m /\ l + 1 \in 1..m
          /\ rest[k] = hs[k + 1] /\ rest[l] = hs[l + 1]
      BY <1>1
    <3>2. k + 1 = l + 1
      BY <1>0, <2>1, <3>1
    <3> QED
      BY <1>1, <3>2
  <2> QED
    BY <1>0, <1>1, <2>1 DEF AppendsDiffer
<1>3. ASSUME NEW f, NEW s, NEW n PROVE Awaited(f, s, rest, n) <=> Awaited(f, s, hs, n)
  <2>1. ~Waits(f, s, hs[1])
    BY <1>5 DEF Waits
  <2>2. ASSUME NEW k \in 1..m, hs[k].event = n, Waits(f, s, hs[k])
        PROVE  \E i \in 1..m - 1 : rest[i].event = n /\ Waits(f, s, rest[i])
    <3>1. PICK i \in 1..m - 1 : k = i + 1
      BY <1>1, <2>1, <2>2
    <3> QED
      BY <1>1, <2>2, <3>1
  <2>3. ASSUME NEW k \in 1..m - 1, rest[k].event = n, Waits(f, s, rest[k])
        PROVE  \E i \in 1..m : hs[i].event = n /\ Waits(f, s, hs[i])
    BY <1>1, <2>3
  <2> QED
    BY <1>1, <2>2, <2>3 DEF Awaited, m
<1>4. \A f, s, d, u : IsToldInTheEnd(f, s, hs, d, u, N) => IsToldInTheEnd(f, s, rest, d, u, N)
  BY <1>3 DEF IsToldInTheEnd
<1> QED
  BY <1>1, <1>2, <1>4 DEF rest, m

\* A part of a sequence.
LEMMA Part ==
    ASSUME NEW S, NEW s \in Seq(S), NEW i \in Nat, NEW j \in Nat, 1 <= i, j <= Len(s)
    PROVE  /\ SubSeq(s, i, j) \in Seq(S) /\ Len(SubSeq(s, i, j)) = IF i <= j THEN j - i + 1 ELSE 0
           /\ \A k \in 1..j - i + 1 : SubSeq(s, i, j)[k] = s[i + k - 1]
<1>1. \A k \in i..j : s[k] \in S
  <2>1. \A k \in i..j : k \in 1..Len(s)
    OBVIOUS
  <2> QED
    BY <2>1
<1>2. i \in Int /\ j \in Int
  OBVIOUS
<1> QED
  BY <1>1, <1>2, SubSeqProperties

\* What stands where once the element at i is taken out: at k, what stood here.
Past(i, k) == IF k < i THEN k ELSE k + 1

LeftWithout(S, s, i, rest) ==
    /\ rest \in Seq(S) /\ Len(rest) = Len(s) - 1
    /\ \A k \in 1..Len(rest) : Past(i, k) \in 1..Len(s) /\ rest[k] = s[Past(i, k)]
    /\ AllDiffer(s) => AllDiffer(rest)

LEMMA TakenOut ==
    ASSUME NEW S, NEW s \in Seq(S), NEW i \in 1..Len(s),
           NEW rest, rest = SubSeq(s, 1, i - 1) \o SubSeq(s, i + 1, Len(s))
    PROVE  LeftWithout(S, s, i, rest)
<1>1. PICK m \in Nat : m = Len(s)
  OBVIOUS
<1>0. i \in Nat /\ i - 1 \in Nat /\ i + 1 \in Nat /\ 1 <= i /\ i <= m
  BY <1>1
<1>2. PICK a : a = SubSeq(s, 1, i - 1)
  OBVIOUS
<1>3. PICK b : b = SubSeq(s, i + 1, m)
  OBVIOUS
<1>4. a \in Seq(S) /\ Len(a) = i - 1 /\ \A k \in 1..i - 1 : a[k] = s[k]
  <2>1. /\ a \in Seq(S) /\ Len(a) = IF 1 <= i - 1 THEN (i - 1) - 1 + 1 ELSE 0
        /\ \A k \in 1..(i - 1) - 1 + 1 : a[k] = s[1 + k - 1]
    <3>1. 1 \in Nat /\ i - 1 \in Nat /\ 1 <= 1 /\ i - 1 <= Len(s)
      BY <1>0, <1>1
    <3> QED
      BY <1>2, <3>1, Part
  <2>2. ASSUME NEW k \in 1..i - 1 PROVE a[k] = s[k]
    <3>1. k \in 1..(i - 1) - 1 + 1 /\ 1 + k - 1 = k
      BY <1>0
    <3> QED
      BY <2>1, <3>1
  <2> QED
    BY <1>0, <2>1, <2>2
<1>5. b \in Seq(S) /\ Len(b) = m - i /\ \A k \in 1..m - i : b[k] = s[i + k]
  <2>1. /\ b \in Seq(S) /\ Len(b) = IF i + 1 <= m THEN m - (i + 1) + 1 ELSE 0
        /\ \A k \in 1..m - (i + 1) + 1 : b[k] = s[(i + 1) + k - 1]
    <3>1. i + 1 \in Nat /\ m \in Nat /\ 1 <= i + 1 /\ m <= Len(s)
      BY <1>0, <1>1
    <3> QED
      BY <1>3, <3>1, Part
  <2>2. ASSUME NEW k \in 1..m - i PROVE b[k] = s[i + k]
    <3>1. k \in 1..m - (i + 1) + 1 /\ (i + 1) + k - 1 = i + k
      BY <1>0, <1>1
    <3> QED
      BY <2>1, <3>1
  <2> QED
    BY <1>0, <1>1, <2>1, <2>2
<1>6. PlacesAreKept(S, a, b, i - 1, rest)
  <2>1. rest = a \o b /\ i - 1 = Len(a)
    BY <1>1, <1>2, <1>3, <1>4
  <2> QED
    BY <1>4, <1>5, <2>1, BehindALog DEF Behind
<1>7. rest \in Seq(S) /\ Len(rest) = m - 1
  <2>1. rest \in Seq(S) /\ Len(rest) = (i - 1) + Len(b)
    BY <1>6 DEF PlacesAreKept
  <2>2. (i - 1) + (m - i) = m - 1
    BY <1>0, <1>1
  <2> QED
    BY <1>5, <2>1, <2>2
<1>8. ASSUME NEW k \in 1..Len(rest) PROVE rest[k] = s[IF k < i THEN k ELSE k + 1]
  <2>1. CASE k \in 1..i - 1
    <3>1. rest[k] = a[k]
      BY <1>6, <2>1 DEF PlacesAreKept
    <3> QED
      BY <1>4, <2>1, <3>1
  <2>2. CASE k \notin 1..i - 1
    <3>1. PICK j \in 1..Len(b) : k = i - 1 + j
      BY <1>6, <2>2 DEF PlacesAreKept
    <3>2. rest[k] = b[j]
      BY <1>6, <3>1 DEF PlacesAreKept
    <3>3. rest[k] = s[i + j]
      BY <1>5, <3>1, <3>2
    <3>4. ~(k < i) /\ k + 1 = i + j
      <4>1. i \in Nat /\ j \in Nat /\ j >= 1
        BY <1>0, <1>1, <1>5
      <4> QED
        BY ONLY <3>1, <4>1
    <3> QED
      BY <3>3, <3>4
  <2> QED
    BY <2>1, <2>2
<1>9. ASSUME NEW k \in 1..Len(rest) PROVE (IF k < i THEN k ELSE k + 1) \in 1..m
  <2>1. k \in Nat /\ 1 <= k /\ k <= m - 1
    <3>1. k \in 1..m - 1
      BY <1>7
    <3> QED
      BY <1>1, <3>1
  <2>2. CASE k < i
    BY <1>0, <1>1, <2>1, <2>2
  <2>3. CASE ~(k < i)
    BY <1>0, <1>1, <2>1, <2>3
  <2> QED
    BY <2>2, <2>3
<1>10. ASSUME AllDiffer(s), NEW k \in 1..Len(rest), NEW l \in 1..Len(rest), rest[k] = rest[l] PROVE k = l
  <2>1. PICK v \in 1..m : v = IF k < i THEN k ELSE k + 1
    BY <1>9
  <2>2. PICK w \in 1..m : w = IF l < i THEN l ELSE l + 1
    BY <1>9
  <2>3. s[v] = s[w]
    BY <1>8, <1>10, <2>1, <2>2
  <2>4. v = w
    BY <1>1, <1>10, <2>3 DEF AllDiffer
  <2>5. k \in Nat /\ l \in Nat /\ i \in Nat
    BY <1>1, <1>7
  <2> QED
    BY <2>1, <2>2, <2>4, <2>5
<1> QED
  BY <1>1, <1>7, <1>8, <1>9, <1>10 DEF AllDiffer, Past, LeftWithout

\* Who was given each number it is owed, none twice, was given as many.
LEMMA GivenIsCounted ==
    ASSUME NEW d \in Seq(Nat), AllDiffer(d), NEW u \in SUBSET Nat, \A n \in Nat : n \in u <=> Given(d, n)
    PROVE  Events!ToSet(d) = u /\ Len(d) = Cardinality(u)
<1>1. PICK m \in Nat : m = Len(d)
  OBVIOUS
<1>2. DOMAIN d = 1..m /\ \A i \in 1..m : d[i] \in Nat
  BY <1>1
<1>3. \A n : n \in u <=> \E i \in 1..m : d[i] = n
  BY <1>1, <1>2 DEF Given
<1>4. PICK f : f = [i \in 1..m |-> d[i]]
  OBVIOUS
<1>5. f \in Bijection(1..m, u)
  <2>1. f \in Injection(1..m, u)
    BY <1>1, <1>3, <1>4 DEF Injection, IsInjective, AllDiffer
  <2>2. f \in Surjection(1..m, u)
    BY <1>3, <1>4 DEF Surjection
  <2> QED
    BY <2>1, <2>2 DEF Bijection
<1>6. Cardinality(u) = m
  BY <1>5, FS_CountingElements DEF ExistsBijection
<1> QED
  BY <1>1, <1>2, <1>3, <1>6 DEF Events!ToSet

LEMMA ToldStarts == ASSUME Threads # {}, Events!Init PROVE ToldInv
<1> USE DEF Events!Init
<1>1. Events!AllEvents = {}
  <2>1. \A t \in Threads : events[t] = <<>> /\ DOMAIN events[t] = {}
    OBVIOUS
  <2>2. \A t \in Threads : Events!ToSet(events[t]) = {}
    BY <2>1 DEF Events!ToSet
  <2> QED
    BY <2>2 DEF Events!AllEvents
<1>2. Numbers = {} /\ Events!Appended = 0
  BY <1>1, FS_EmptySet, SameCardinality DEF Numbers, Events!Appended
<1>3. <<>> \in Seq(Subscribers) /\ <<>> \in Seq(Nat) /\ <<>> \in Seq(Handed) /\ Len(<<>>) = 0
  OBVIOUS
<1>4. ToldTypes
  BY <1>3 DEF ToldTypes, AllDiffer
<1>5. ASSUME NEW s \in Subscribers PROVE IsToldInTheEnd(filter, s, handing, delivered[s], due[s], 0)
  BY <1>3 DEF IsToldInTheEnd, AllDiffer, Given, Awaited
<1> QED
  BY <1>2, <1>3, <1>4, <1>5 DEF ToldInv, NumbersAreCounted, AppendsDiffer

LEMMA AppendTells ==
    ASSUME EventsInv, EventsInv', ToldInv, NEW t \in known, Events!AppendEvent(t) PROVE ToldInv'
<1> USE DEF ToldInv, ToldTypes
<1>1. PICK N \in Nat : N = Events!Appended
  BY DEF NumbersAreCounted
<1>2. t \in Threads
  BY DEF EventsInv, LogsGrow
<1>3. PICK h : h = [event |-> N + 1, of |-> t, left |-> active]
  OBVIOUS
<1>4. h \in Handed /\ h.event = N + 1 /\ h.of = t /\ h.left = active
  BY <1>2, <1>3 DEF Handed
<1>5. handing' = <<h>> \o handing
  BY <1>1, <1>3 DEF Events!AppendEvent, Events!Handed
<1>6. ASSUME NEW s \in Subscribers PROVE due'[s] = IF Waits(filter, s, h) THEN due[s] \cup {N + 1} ELSE due[s]
  <2>1. s \in Events!ToSet(active) <=> \E j \in 1..Len(active) : active[j] = s
    <3>1. DOMAIN active = 1..Len(active)
      OBVIOUS
    <3> QED
      BY <3>1 DEF Events!ToSet
  <2>2. s \in Events!ToSet(active) /\ Events!Matches(s, t) <=> Waits(filter, s, h)
    BY <1>4, <2>1 DEF Waits, Events!Matches
  <2>3. due' = Events!Owed(t)
    BY DEF Events!AppendEvent
  <2> QED
    BY <1>1, <2>2, <2>3 DEF Events!Owed
<1>7. NumbersAreCounted' /\ Events!Appended' = N + 1
  BY <1>1, <1>2, AppendGrows, CountGoesOn
<1>8. /\ <<h>> \o handing \in Seq(Handed) /\ AppendsDiffer(<<h>> \o handing, N + 1)
      /\ \A f, s, d, u : d \in Seq(Nat) /\ u \subseteq Nat /\ IsToldInTheEnd(f, s, handing, d, u, N) =>
             IsToldInTheEnd(f, s, <<h>> \o handing, d, IF Waits(f, s, h) THEN u \cup {N + 1} ELSE u, N + 1)
  BY <1>1, <1>4, AppendOwes
<1>9. UNCHANGED <<active, filter, delivered>>
  BY DEF Events!AppendEvent
<1>10. due' \in [Subscribers -> SUBSET Nat]
  <2>1. N + 1 \in Nat
    OBVIOUS
  <2>2. due' = Events!Owed(t)
    BY DEF Events!AppendEvent
  <2> QED
    BY <1>1, <2>1, <2>2 DEF Events!Owed
<1>11. ASSUME NEW s \in Subscribers
       PROVE  IsToldInTheEnd(filter, s, handing', delivered[s], due'[s], N + 1)
  <2>1. delivered[s] \in Seq(Nat) /\ due[s] \subseteq Nat
    OBVIOUS
  <2>2. IsToldInTheEnd(filter, s, handing, delivered[s], due[s], N)
    BY <1>1
  <2>3. IsToldInTheEnd(filter, s, <<h>> \o handing, delivered[s],
                       IF Waits(filter, s, h) THEN due[s] \cup {N + 1} ELSE due[s], N + 1)
    BY <1>8, <2>1, <2>2
  <2> QED
    BY <1>5, <1>6, <2>3
<1> QED
  BY <1>5, <1>7, <1>8, <1>9, <1>10, <1>11

LEMMA CopiesTellNothing ==
    ASSUME EventsInv, EventsInv', ToldInv, NEW source \in Threads, NEW t \in Threads,
           NEW log \in Seq(Nat \X Nat), \A i \in 1..Len(log) : \E j \in 1..Len(events[source]) : log[i] = events[source][j],
           GrowsBy(t, Events!Copied(log)), UNCHANGED <<Events!subVars, handing>>
    PROVE  ToldInv'
<1>1. PICK add : add = Events!Copied(log)
  OBVIOUS
<1>2. \A i \in 1..Len(add) : add[i][1] = log[i][1] /\ i \in 1..Len(log)
  <2>1. DOMAIN log = 1..Len(log)
    OBVIOUS
  <2>2. Len(add) = Len(log)
    BY <1>1, CopiesAreFresh DEF EventsInv
  <2> QED
    BY <1>1, <2>1, <2>2 DEF Events!Copied
<1>3. ASSUME NEW i \in 1..Len(add) PROVE Numbered(add[i][1], events)
  <2>1. PICK j \in 1..Len(events[source]) : log[i] = events[source][j]
    BY <1>2
  <2>2. add[i][1] = events[source][j][1]
    BY <1>2, <2>1
  <2> QED
    BY <2>2 DEF Numbered
<1>4. NumbersAreCounted' /\ Events!Appended' = Events!Appended
  BY <1>1, <1>3, CountGoesOn DEF ToldInv
<1> QED
  BY <1>4 DEF ToldInv, ToldTypes, Events!subVars

LEMMA ToldGoesOn ==
    ASSUME EventsInv, EventsInv', ToldInv, [Events!Next]_(Events!vars) PROVE ToldInv'
<1> USE DEF ToldInv, ToldTypes
<1>1. ASSUME UNCHANGED events PROVE Events!Appended' = Events!Appended /\ Numbers' = Numbers
  BY <1>1 DEF Events!Appended, Numbers, Events!AllEvents
<1>2. ASSUME UNCHANGED events PROVE NumbersAreCounted'
  BY <1>1, <1>2 DEF NumbersAreCounted
<1>3. ASSUME Events!Produce \/ Events!Nested PROVE ToldInv'
  <2>1. PICK t \in known : Events!AppendEvent(t)
    BY <1>3 DEF Events!Produce, Events!Nested
  <2> QED
    BY <2>1, AppendTells
<1>4. ASSUME Events!Callback PROVE ToldInv'
  <2>1. PICK N \in Nat : N = Events!Appended
    BY DEF NumbersAreCounted
  <2>2. PICK h : h = Head(handing)
    OBVIOUS
  <2>3. PICK rest : rest = <<[h EXCEPT !.left = Tail(@)]>> \o Tail(handing)
    OBVIOUS
  <2>4. PICK first : first = Head(h.left)
    OBVIOUS
  <2>5. handing # <<>> /\ h.left # <<>> /\ handing' = rest /\ UNCHANGED <<events, active, filter, due>>
    BY <1>4, <2>2, <2>3 DEF Events!Callback
  <2>6. delivered' = IF filter[first] \in {All, h.of} THEN [delivered EXCEPT ![first] = Append(@, h.event)] ELSE delivered
    BY <1>4, <2>2, <2>4 DEF Events!Callback, Events!Matches
  <2>7. /\ rest \in Seq(Handed) /\ AppendsDiffer(rest, N) /\ h.event \in Nat /\ first \in Subscribers
        /\ \A f, s, d, u : d \in Seq(Nat) /\ IsToldInTheEnd(f, s, handing, d, u, N) =>
               IF s = first /\ f[s] \in {All, h.of}
               THEN IsToldInTheEnd(f, s, rest, Append(d, h.event), u, N)
               ELSE IsToldInTheEnd(f, s, rest, d, u, N)
    BY <2>1, <2>2, <2>3, <2>4, <2>5, CallbackGives
  <2>8. delivered' \in [Subscribers -> Seq(Nat)]
    BY <2>6, <2>7
  <2>9. ASSUME NEW s \in Subscribers PROVE IsToldInTheEnd(filter, s, rest, delivered'[s], due[s], N)
    <3>1. delivered[s] \in Seq(Nat) /\ IsToldInTheEnd(filter, s, handing, delivered[s], due[s], N)
      BY <2>1
    <3>2. CASE s = first /\ filter[s] \in {All, h.of}
      <4>1. delivered'[s] = Append(delivered[s], h.event)
        BY <2>6, <3>2
      <4>2. IsToldInTheEnd(filter, s, rest, Append(delivered[s], h.event), due[s], N)
        BY <2>7, <3>1, <3>2
      <4> QED
        BY <4>1, <4>2
    <3>3. CASE ~(s = first /\ filter[s] \in {All, h.of})
      <4>1. delivered'[s] = delivered[s]
        BY <2>6, <3>3
      <4>2. IsToldInTheEnd(filter, s, rest, delivered[s], due[s], N)
        BY <2>7, <3>1, <3>3
      <4> QED
        BY <4>1, <4>2
    <3> QED
      BY <3>2, <3>3
  <2> QED
    BY <1>1, <1>2, <2>1, <2>5, <2>7, <2>8, <2>9
<1>5. ASSUME Events!Return PROVE ToldInv'
  <2>1. PICK N \in Nat : N = Events!Appended
    BY DEF NumbersAreCounted
  <2>2. /\ handing # <<>> /\ Head(handing).left = <<>> /\ handing' = Tail(handing)
        /\ UNCHANGED <<events, active, filter, delivered, due>>
    BY <1>5 DEF Events!Return, Events!subVars
  <2>3. /\ Tail(handing) \in Seq(Handed) /\ AppendsDiffer(Tail(handing), N)
        /\ \A f, s, d, u : IsToldInTheEnd(f, s, handing, d, u, N) => IsToldInTheEnd(f, s, Tail(handing), d, u, N)
    BY <2>1, <2>2, ReturnOwesNothing
  <2> QED
    BY <1>1, <1>2, <2>1, <2>2, <2>3
<1>6. ASSUME UNCHANGED <<events, filter, handing, delivered, due>>, active' \in Seq(Subscribers), AllDiffer(active')
      PROVE  ToldInv'
  BY <1>1, <1>2, <1>6
<1>7. ASSUME NEW s \in Subscribers, Events!On(s) PROVE ToldInv'
  <2>1. PICK m \in Nat : m = Len(active)
    OBVIOUS
  <2>2. active' = Append(active, s) /\ active' \in Seq(Subscribers)
    BY <1>7 DEF Events!On
  <2>3. Len(active') = m + 1 /\ active'[m + 1] = s /\ \A i \in 1..m : active'[i] = active[i]
    BY <2>1, <2>2
  <2>4. \A i \in 1..m : active[i] # s
    <3>1. DOMAIN active = 1..m /\ s \notin Events!ToSet(active)
      BY <1>7, <2>1 DEF Events!On
    <3> QED
      BY <3>1 DEF Events!ToSet
  <2>5. \A i \in 1..m + 1 : i \in 1..m \/ i = m + 1
    OBVIOUS
  <2>6. AllDiffer(active')
    BY <2>1, <2>3, <2>4, <2>5 DEF AllDiffer
  <2> QED
    BY <1>6, <1>7, <2>2, <2>6 DEF Events!On
<1>8. ASSUME NEW s \in Subscribers, Events!Unsubscribe(s) PROVE ToldInv'
  <2>1. PICK i \in DOMAIN active : active' = Events!RemoveAt(active, i)
    BY <1>8 DEF Events!Unsubscribe
  <2>2. i \in 1..Len(active)
    OBVIOUS
  <2>3. active' = SubSeq(active, 1, i - 1) \o SubSeq(active, i + 1, Len(active))
    BY <2>1 DEF Events!RemoveAt
  <2>4. active \in Seq(Subscribers) /\ AllDiffer(active)
    OBVIOUS
  <2>5. LeftWithout(Subscribers, active, i, active')
    BY <2>2, <2>3, <2>4, TakenOut
  <2> QED
    BY <1>6, <1>8, <2>4, <2>5 DEF Events!Unsubscribe, LeftWithout
<1>9. ASSUME NEW source \in Threads, NEW t \in Threads, Events!SpawnSeeded(source, t) PROVE ToldInv'
  <2>1. events[source] \in Seq(Nat \X Nat)
    BY DEF EventsInv, LogsGrow
  <2>2. GrowsBy(t, Events!Copied(events[source]))
    BY <1>9, SpawnGrows
  <2> QED
    BY <1>9, <2>1, <2>2, CopiesTellNothing DEF Events!SpawnSeeded
<1>10. ASSUME NEW source \in Threads, NEW t \in Threads, NEW cut \in DOMAIN events[source], Events!CopyEvents(source, t, cut)
       PROVE  ToldInv'
  <2>1. PICK log : log = SubSeq(events[source], 1, cut)
    OBVIOUS
  <2>2. PICK all \in Seq(Nat \X Nat) : all = events[source]
    BY DEF EventsInv, LogsGrow
  <2>3. cut \in 1..Len(all)
    BY <2>2
  <2>4. log \in Seq(Nat \X Nat) /\ Len(log) = cut /\ \A i \in 1..cut : log[i] = all[i] /\ i \in 1..Len(all)
    <3>1. 1 \in Nat /\ cut \in Nat /\ 1 <= 1 /\ cut <= Len(all) /\ 1 <= cut /\ cut - 1 + 1 = cut
      BY <2>3
    <3>2. /\ log \in Seq(Nat \X Nat) /\ Len(log) = IF 1 <= cut THEN cut - 1 + 1 ELSE 0
          /\ \A k \in 1..cut - 1 + 1 : log[k] = all[1 + k - 1]
      BY <2>1, <2>2, <3>1, Part
    <3>3. ASSUME NEW k \in 1..cut PROVE log[k] = all[k] /\ k \in 1..Len(all)
      <4>1. k \in 1..cut - 1 + 1 /\ 1 + k - 1 = k /\ k \in 1..Len(all)
        BY <3>1
      <4> QED
        BY <3>2, <4>1
    <3> QED
      BY <3>1, <3>2, <3>3
  <2>5. \A i \in 1..Len(log) : \E j \in 1..Len(events[source]) : log[i] = events[source][j]
    BY <2>2, <2>4
  <2>6. GrowsBy(t, Events!Copied(log))
    BY <1>10, <2>1, CopyGrows
  <2> QED
    BY <1>10, <2>4, <2>5, <2>6, CopiesTellNothing DEF Events!CopyEvents
<1>11. ASSUME UNCHANGED <<events, active, filter, handing, delivered, due>> PROVE ToldInv'
  BY <1>1, <1>2, <1>11
<1>12. ASSUME NEW limit \in 1..2, Events!GetEvents(limit) PROVE ToldInv'
  BY <1>11, <1>12 DEF Events!GetEvents, Events!subVars
<1> QED
  <2>1. CASE Events!Next
    BY <1>3, <1>4, <1>5, <1>7, <1>8, <1>9, <1>10, <1>12, <2>1 DEF Events!Next
  <2>2. CASE UNCHANGED Events!vars
    BY <1>11, <2>2 DEF Events!vars
  <2> QED
    BY <2>1, <2>2

LEMMA NobodyWaits == ASSUME ToldInv PROVE Events!EveryoneIsTold
<1> SUFFICES ASSUME handing = <<>>, NEW s \in Subscribers
             PROVE  Events!ToSet(delivered[s]) = due[s] /\ Len(delivered[s]) = Cardinality(due[s])
  BY SameCardinality DEF Events!EveryoneIsTold
<1>1. delivered[s] \in Seq(Nat) /\ due[s] \in SUBSET Nat
  BY DEF ToldInv, ToldTypes
<1>2. \A n : ~Awaited(filter, s, handing, n)
  BY DEF Awaited
<1>3. AllDiffer(delivered[s]) /\ \A n \in Nat : n \in due[s] <=> Given(delivered[s], n)
  BY <1>2 DEF ToldInv, IsToldInTheEnd
<1> QED
  BY <1>1, <1>3, GivenIsCounted

\* When no append is running every subscriber was given each event appended while
\* it was subscribed exactly once, whatever the callbacks appended, subscribed
\* and unsubscribed while events were being handed out.
THEOREM EveryoneAlwaysIsTold ==
    ASSUME Threads # {} PROVE Events!Spec => []Events!EveryoneIsTold
<1>1. EventsInv /\ ToldInv /\ [Events!Next]_(Events!vars) => (EventsInv /\ ToldInv)'
  BY EventsGoOn, ToldGoesOn
<1>2. Events!Init => EventsInv /\ ToldInv
  BY EventsStart, ToldStarts
<1> QED
  BY <1>1, <1>2, NobodyWaits, PTL DEF Events!Spec

----------------------------------------------------------------------------
(* Memory.  Closes that do not overlap replace what they read; the view's  *)
(* flag is set by the one thread that is emitting.                         *)

ReplacesWhatItRead ==
    /\ memory = saved /\ memory = [a \in Actors |-> memory[a]]
    /\ snapshot = [a \in Actors |-> snapshot[a]]
    /\ \A a, b \in Actors : snapshot[a].read /\ snapshot[b].read => a = b
    /\ \A a \in Actors : snapshot[a].read => snapshot[a].disk = memory

LEMMA MemoryStarts == ASSUME Memory!Init PROVE ReplacesWhatItRead
BY DEF Memory!Init, Memory!Unread, ReplacesWhatItRead

LEMMA MemoryGoesOn ==
    ASSUME ~ClosesOverlap, ReplacesWhatItRead, [Memory!Next]_(Memory!vars)
    PROVE  ReplacesWhatItRead'
<1> USE DEF ReplacesWhatItRead, Memory!fileVars, Memory!Unread
<1>1. ASSUME UNCHANGED <<memory, saved, snapshot>> PROVE ReplacesWhatItRead'
  BY <1>1
<1>2. ASSUME NEW a \in Actors, Memory!CloseReads(a) PROVE ReplacesWhatItRead'
  BY <1>2 DEF Memory!CloseReads
<1>3. ASSUME NEW a \in Actors, Memory!CloseReplaces(a) PROVE ReplacesWhatItRead'
  BY <1>3 DEF Memory!CloseReplaces
<1>4. ASSUME NEW a \in Actors, Memory!ExternalEdit(a) PROVE ReplacesWhatItRead'
  BY <1>4 DEF Memory!ExternalEdit
<1>5. ASSUME NEW a \in Actors, Memory!Open(a) \/ Memory!Exit(a) \/ \E n \in 0..1 : Memory!Save(a, n)
      PROVE  UNCHANGED <<memory, saved, snapshot>>
  BY <1>5 DEF Memory!Open, Memory!Exit, Memory!Save
<1>6. ASSUME NEW c \in Calls, (\E a \in Actors : Memory!Start(c, a)) \/ Memory!Add(c) \/ Memory!Locate(c)
                                  \/ Memory!Update(c) \/ Memory!Delete(c)
      PROVE  UNCHANGED <<memory, saved, snapshot>>
  BY <1>6 DEF Memory!Start, Memory!Add, Memory!Locate, Memory!Update, Memory!Delete
<1>7. ASSUME NEW t \in Traces, Memory!Emit(t) \/ Memory!Emitted(t) PROVE UNCHANGED <<memory, saved, snapshot>>
  BY <1>7 DEF Memory!Emit, Memory!Emitted
<1> QED
  BY <1>1, <1>2, <1>3, <1>4, <1>5, <1>6, <1>7 DEF Memory!Next, Memory!vars

LEMMA FileHoldsTheLast == ASSUME ReplacesWhatItRead PROVE Memory!OthersAreKept
BY DEF ReplacesWhatItRead, Memory!OthersAreKept

\* Until two processes close at a time, no actor's record is lost to the close
\* of another: the file holds what each persisted last.
THEOREM RecordsAreKept ==
    ASSUME ~ClosesOverlap PROVE Memory!Spec => []Memory!OthersAreKept
BY FileHoldsTheLast, MemoryStarts, MemoryGoesOn, PTL DEF Memory!Spec

----------------------------------------------------------------------------
(* The ledger.  Each actor's entries stand beside the ids they were handed *)
(* out for, but between the two halves of an edit; the counter is ahead of *)
(* every id that was handed out, in the backend or, when it is closed, in  *)
(* the file.                                                               *)

\* The hypotheses: edits come one after the other, and so do closes.
OneEditAtATime == (\A c, d \in Calls : c = d) /\ ~ClosesOverlap

Record == [values : Seq(Nat), ids : Seq(Nat), next : Nat]
Edit == [op : {"none", "add", "update", "remove"}, actor : Actors \cup {"none"}, id : Nat, at : Nat, step : 0..4]

LedgerTypes ==
    /\ store \in [Actors -> Record] /\ memory \in [Actors -> Record]
    /\ handed \in [Actors -> SUBSET (Nat \X Nat)] /\ made \in Nat
    /\ call \in [Calls -> Edit]

EachOnce(H) == \A p, q \in H : p[1] = q[1] => p = q
Below(H, n) == \A p \in H : p[1] < n

Kept(ids, values, H) ==
    /\ AllDiffer(ids) /\ Len(values) = Len(ids)
    /\ \A k \in 1..Len(ids) : <<ids[k], values[k]>> \in H

\* An entry v has been appended to the values, its id not yet to the ledger.
Grown(ids, values, v, H) ==
    /\ AllDiffer(ids) /\ Len(values) = Len(ids) + 1 /\ values[Len(ids) + 1] = v
    /\ \A k \in 1..Len(ids) : <<ids[k], values[k]>> \in H

\* The value at i is gone, its id not yet.
Shrunk(ids, values, i, H) ==
    /\ AllDiffer(ids) /\ Len(values) = Len(ids) - 1 /\ i \in 1..Len(ids)
    /\ \A k \in 1..Len(values) : <<ids[Past(i, k)], values[k]>> \in H

Edits(k, a) == k.op # "none" /\ k.actor = a
Half(k, a) == Edits(k, a) /\ <<k.op, k.step>> \in {<<"add", 4>>, <<"remove", 3>>}

\* How far an edit k of the record s has got.
EditIsSound(k, s, H) ==
    /\ s.next > 0
    /\ k.op = "add" =>
           /\ k.step \in 1..4
           /\ k.step = 2 => k.id = s.next
           /\ k.step \in {3, 4} => Below(H, k.id) /\ s.next = k.id + 1
           /\ k.step = 4 => Grown(s.ids, s.values, k.at, H)
    /\ k.op = "update" => k.step \in {1, 2}
    /\ k.op = "remove" => k.step \in {1, 2, 3} /\ (k.step = 3 => Shrunk(s.ids, s.values, k.at, H))
    /\ k.op \in {"update", "remove"} /\ k.step # 1 => k.at \in 1..Len(s.ids) /\ s.ids[k.at] = k.id

\* What holds of an actor: s is its open record, m the one in the file, H what
\* it handed out, cs the edits under way, reads whether it is closing.
Sound(a, s, m, H, cs, reads) ==
    /\ EachOnce(H)
    /\ s.next > 0 => Below(H, s.next)
    /\ s.next = 0 => /\ s = Memory!Absent /\ ~reads /\ Below(H, m.next)
                     /\ Len(m.values) = Len(m.ids) => Kept(m.ids, m.values, H)
    /\ s.next > 0 /\ (\A c \in Calls : ~Half(cs[c], a)) => Kept(s.ids, s.values, H)
    /\ \A c \in Calls : Edits(cs[c], a) => EditIsSound(cs[c], s, H)

LedgerInv ==
    /\ LedgerTypes /\ ReplacesWhatItRead
    /\ \A c \in Calls : call[c].op # "none" => call[c].actor \in Actors
    /\ \A a \in Actors : Sound(a, store[a], memory[a], handed[a], call, snapshot[a].read)

\* Who is not edited notices nothing.
LEMMA OthersStand ==
    ASSUME NEW a, NEW s, NEW m, NEW H, NEW cs, NEW cs2, NEW reads, Sound(a, s, m, H, cs, reads),
           \A c \in Calls : Edits(cs[c], a) \/ Edits(cs2[c], a) => cs2[c] = cs[c]
    PROVE  Sound(a, s, m, H, cs2, reads)
<1>1. \A c \in Calls : Half(cs[c], a) => Half(cs2[c], a)
  BY DEF Half
<1> QED
  BY <1>1 DEF Sound

\* A list of new entries under the next ids.
Fresh(n, values) == [values |-> values, ids |-> Memory!FreshIds(n, values), next |-> n + Len(values)]

\* A ledger between edits, and what was handed out.
Level(s, H) ==
    /\ s \in Record /\ s.next > 0 /\ H \in SUBSET (Nat \X Nat)
    /\ EachOnce(H) /\ Below(H, s.next) /\ Kept(s.ids, s.values, H)

LEMMA FreshLedger ==
    ASSUME NEW H \in SUBSET (Nat \X Nat), EachOnce(H), NEW n \in Nat, n > 0, Below(H, n),
           NEW values \in Seq(Nat), NEW s, s = Fresh(n, values), NEW H2, H2 = H \cup Memory!Pairs(s)
    PROVE  Level(s, H2)
<1>1. PICK m \in Nat : m = Len(values)
  OBVIOUS
<1>2. PICK ids : ids = Memory!FreshIds(n, values)
  OBVIOUS
<1>3. ids = [k \in 1..m |-> n + k - 1]
  BY <1>1, <1>2 DEF Memory!FreshIds
<1>4. \A k \in 1..m : n + k - 1 \in Nat /\ n + k - 1 >= n /\ n + k - 1 < n + m
  OBVIOUS
<1>5. ids \in Seq(Nat) /\ Len(ids) = m /\ \A k \in 1..m : ids[k] = n + k - 1
  BY <1>3, <1>4
<1>6. s.ids = ids /\ s.values = values /\ s.next = n + m
  BY <1>1, <1>2 DEF Fresh
<1>7. s \in Record
  BY <1>1, <1>2, <1>5 DEF Record, Fresh
<1>8. \A k \in 1..m : values[k] \in Nat
  BY <1>1
<1>9. Memory!Pairs(s) = {<<ids[k], values[k]>> : k \in 1..m}
  BY <1>5, <1>6 DEF Memory!Pairs
<1>10. AllDiffer(ids)
  BY <1>5 DEF AllDiffer
<1>11. Kept(s.ids, s.values, H2)
  BY <1>1, <1>5, <1>6, <1>9, <1>10 DEF Kept
<1>12. H2 \in SUBSET (Nat \X Nat)
  <2>1. \A k \in 1..m : <<ids[k], values[k]>> \in Nat \X Nat
    BY <1>4, <1>5, <1>8
  <2> QED
    BY <1>9, <2>1
<1>13. ASSUME NEW p \in Memory!Pairs(s) PROVE p[1] >= n /\ p[1] < n + m /\ p[1] \in Nat
  <2>1. PICK k \in 1..m : p = <<ids[k], values[k]>>
    BY <1>9
  <2>2. p[1] = n + k - 1
    BY <1>5, <2>1
  <2> QED
    BY <1>4, <2>2
<1>14. Below(H2, s.next)
  <2>1. ASSUME NEW p \in H PROVE p[1] < n + m
    <3>1. p[1] \in Nat /\ p[1] < n
      BY DEF Below
    <3> QED
      BY <3>1
  <2> QED
    BY <1>6, <1>13, <2>1 DEF Below
<1>15. EachOnce(H2)
  <2> SUFFICES ASSUME NEW p \in H2, NEW q \in H2, p[1] = q[1] PROVE p = q
    BY DEF EachOnce
  <2>1. ASSUME NEW x \in H PROVE x[1] \in Nat /\ x[1] < n
    BY DEF Below
  <2>2. CASE p \in H /\ q \in H
    BY <2>2 DEF EachOnce
  <2>3. CASE p \in Memory!Pairs(s) /\ q \in Memory!Pairs(s)
    <3>1. PICK k \in 1..m : p = <<ids[k], values[k]>>
      BY <1>9, <2>3
    <3>2. PICK l \in 1..m : q = <<ids[l], values[l]>>
      BY <1>9, <2>3
    <3>3. ids[k] = ids[l]
      BY <3>1, <3>2
    <3>4. k = l
      BY <1>5, <1>10, <3>3 DEF AllDiffer
    <3> QED
      BY <3>1, <3>2, <3>4
  <2>4. ~(p \in H /\ q \in Memory!Pairs(s))
    BY <1>13, <2>1
  <2>5. ~(q \in H /\ p \in Memory!Pairs(s))
    BY <1>13, <2>1
  <2> QED
    BY <2>2, <2>3, <2>4, <2>5
<1> QED
  BY <1>6, <1>7, <1>11, <1>12, <1>14, <1>15 DEF Level

\* The id follows its value.
NumberedUpTo(id, ids, values, H) ==
    /\ ids \in Seq(Nat) /\ H \in SUBSET (Nat \X Nat)
    /\ EachOnce(H) /\ Below(H, id + 1) /\ Kept(ids, values, H)

LEMMA Numbering ==
    ASSUME NEW ids \in Seq(Nat), NEW values \in Seq(Nat), NEW v \in Nat, NEW id \in Nat, NEW H \in SUBSET (Nat \X Nat),
           Grown(ids, values, v, H), EachOnce(H), Below(H, id), NEW H2, H2 = H \cup {<<id, v>>},
           NEW more, more = Append(ids, id)
    PROVE  NumberedUpTo(id, more, values, H2)
<1>1. PICK m \in Nat : m = Len(ids)
  OBVIOUS
<1>2. more \in Seq(Nat) /\ Len(more) = m + 1 /\ more[m + 1] = id /\ \A k \in 1..m : more[k] = ids[k]
  BY <1>1
<1>3. \A k \in 1..m + 1 : k \in 1..m \/ k = m + 1
  OBVIOUS
<1>4. /\ \A k, l \in 1..m : ids[k] = ids[l] => k = l
      /\ Len(values) = m + 1 /\ values[m + 1] = v
      /\ \A k \in 1..m : <<ids[k], values[k]>> \in H
  BY <1>1 DEF Grown, AllDiffer
<1>5. \A p \in H : p[1] \in Nat /\ p[1] < id /\ p[1] # id /\ p[1] < id + 1
  BY DEF Below
<1>6. ASSUME NEW k \in 1..m PROVE ids[k] # id
  <2>1. <<ids[k], values[k]>> \in H
    BY <1>4
  <2>2. <<ids[k], values[k]>>[1] # id
    BY <1>5, <2>1
  <2> QED
    BY <2>2
<1>7. AllDiffer(more)
  BY <1>2, <1>3, <1>4, <1>6 DEF AllDiffer
<1>8. \A k \in 1..m + 1 : <<more[k], values[k]>> \in H2
  BY <1>2, <1>3, <1>4
<1>9. Kept(more, values, H2)
  BY <1>2, <1>4, <1>7, <1>8 DEF Kept
<1>10. Below(H2, id + 1)
  BY <1>5 DEF Below
<1>11. EachOnce(H2)
  <2>1. \A p \in H2 : p \in H \/ p = <<id, v>>
    OBVIOUS
  <2>2. <<id, v>>[1] = id
    OBVIOUS
  <2> QED
    BY <1>5, <2>1, <2>2 DEF EachOnce
<1> QED
  BY <1>2, <1>9, <1>10, <1>11 DEF NumberedUpTo

\* First the value goes, then its id.
LEMMA Removing ==
    ASSUME NEW S, NEW ids \in Seq(S), NEW values \in Seq(S), NEW i \in 1..Len(ids), NEW H
    PROVE  /\ Kept(ids, values, H) =>
                  /\ Memory!RemoveAt(values, i) \in Seq(S)
                  /\ Shrunk(ids, Memory!RemoveAt(values, i), i, H)
           /\ Shrunk(ids, values, i, H) =>
                  /\ Memory!RemoveAt(ids, i) \in Seq(S)
                  /\ Kept(Memory!RemoveAt(ids, i), values, H)
<1>1. ASSUME Kept(ids, values, H)
      PROVE  Memory!RemoveAt(values, i) \in Seq(S) /\ Shrunk(ids, Memory!RemoveAt(values, i), i, H)
  <2>1. PICK rest : rest = Memory!RemoveAt(values, i)
    OBVIOUS
  <2>5. rest = SubSeq(values, 1, i - 1) \o SubSeq(values, i + 1, Len(values))
    BY <2>1 DEF Memory!RemoveAt
  <2>2. Len(values) = Len(ids) /\ AllDiffer(ids) /\ \A k \in 1..Len(ids) : <<ids[k], values[k]>> \in H
    BY <1>1 DEF Kept
  <2>3. /\ rest \in Seq(S) /\ Len(rest) = Len(values) - 1
        /\ \A k \in 1..Len(rest) : Past(i, k) \in 1..Len(values) /\ rest[k] = values[Past(i, k)]
    <3>1. i \in 1..Len(values)
      BY <2>2
    <3>2. LeftWithout(S, values, i, rest)
      BY <2>5, <3>1, TakenOut
    <3> QED
      BY <3>2 DEF LeftWithout
  <2>4. ASSUME NEW k \in 1..Len(rest) PROVE <<ids[Past(i, k)], rest[k]>> \in H
    <3>1. PICK l \in 1..Len(ids) : l = Past(i, k)
      BY <2>2, <2>3
    <3>2. rest[k] = values[l]
      BY <2>3, <3>1
    <3> QED
      BY <2>2, <3>1, <3>2
  <2> QED
    BY <2>1, <2>2, <2>3, <2>4 DEF Shrunk
<1>2. ASSUME Shrunk(ids, values, i, H)
      PROVE  Memory!RemoveAt(ids, i) \in Seq(S) /\ Kept(Memory!RemoveAt(ids, i), values, H)
  <2>1. PICK rest : rest = Memory!RemoveAt(ids, i)
    OBVIOUS
  <2>5. rest = SubSeq(ids, 1, i - 1) \o SubSeq(ids, i + 1, Len(ids))
    BY <2>1 DEF Memory!RemoveAt
  <2>2. /\ Len(values) = Len(ids) - 1 /\ AllDiffer(ids)
        /\ \A k \in 1..Len(values) : <<ids[Past(i, k)], values[k]>> \in H
    BY <1>2 DEF Shrunk
  <2>3. /\ rest \in Seq(S) /\ Len(rest) = Len(ids) - 1 /\ AllDiffer(rest)
        /\ \A k \in 1..Len(rest) : rest[k] = ids[Past(i, k)]
    <3>1. LeftWithout(S, ids, i, rest)
      BY <2>5, TakenOut
    <3> QED
      BY <2>2, <3>1 DEF LeftWithout
  <2>4. \A k \in 1..Len(rest) : <<rest[k], values[k]>> \in H
    BY <2>2, <2>3
  <2> QED
    BY <2>1, <2>2, <2>3, <2>4 DEF Kept
<1> QED
  BY <1>1, <1>2

\* What index a lookup by id gives.
Places(ids, id) == {j \in 1..Len(ids) : ids[j] = id}
Standing(ids, id, i) == i \in Nat /\ i \in 1..Len(ids) /\ ids[i] = id

LEMMA Looking ==
    ASSUME NEW S, NEW ids \in Seq(S), AllDiffer(ids), NEW id, \E k \in 1..Len(ids) : ids[k] = id,
           NEW i, i = IF Places(ids, id) # {} THEN Memory!Min(Places(ids, id)) ELSE 0
    PROVE  Standing(ids, id, i)
<1>1. PICK k \in 1..Len(ids) : ids[k] = id
  OBVIOUS
<1>2. Places(ids, id) = {k}
  BY <1>1 DEF AllDiffer, Places
<1>3. k \in Nat /\ k <= k
  OBVIOUS
<1>4. Memory!Min({k}) = k
  BY <1>3 DEF Memory!Min
<1> QED
  BY <1>1, <1>2, <1>3, <1>4 DEF Standing

\* An update writes what its id names, which is what stands there.
IsRewritten(values, i, v) == [values EXCEPT ![i] = v] = values

LEMMA Writing ==
    ASSUME NEW ids \in Seq(Nat), NEW values \in Seq(Nat), NEW i \in 1..Len(ids), NEW H \in SUBSET (Nat \X Nat),
           EachOnce(H), Kept(ids, values, H), NEW v, v = (CHOOSE p \in H : p[1] = ids[i])[2]
    PROVE  IsRewritten(values, i, v)
<1>1. i \in 1..Len(values) /\ <<ids[i], values[i]>> \in H
  BY DEF Kept
<1>2. PICK p : p = CHOOSE q \in H : q[1] = ids[i]
  OBVIOUS
<1>3. \E q \in H : q[1] = ids[i]
  <2>1. <<ids[i], values[i]>>[1] = ids[i]
    OBVIOUS
  <2> QED
    BY <1>1, <2>1
<1>4. p \in H /\ p[1] = ids[i]
  BY <1>2, <1>3
<1>5. p = <<ids[i], values[i]>>
  <2>1. <<ids[i], values[i]>>[1] = ids[i]
    OBVIOUS
  <2> QED
    BY <1>1, <1>4, <2>1 DEF EachOnce
<1>6. v = p[2]
  BY <1>2
<1>7. v = values[i]
  BY <1>5, <1>6
<1> QED
  BY <1>1, <1>7 DEF IsRewritten

\* A step of one actor a leaves the others as they were.
LEMMA ActorGoesOn ==
    ASSUME LedgerInv, LedgerTypes', ReplacesWhatItRead', NEW a \in Actors,
           \A b \in Actors \ {a} : /\ store'[b] = store[b] /\ memory'[b] = memory[b]
                                   /\ handed'[b] = handed[b] /\ snapshot'[b].read = snapshot[b].read,
           \A c \in Calls : call'[c] # call[c] => /\ (call[c].op = "none" \/ call[c].actor = a)
                                                 /\ (call'[c].op = "none" \/ call'[c].actor = a),
           Sound(a, store'[a], memory'[a], handed'[a], call', snapshot'[a].read)
    PROVE  LedgerInv'
<1>1. \A c \in Calls : call'[c].op # "none" => call'[c].actor \in Actors
  BY DEF LedgerInv
<1>2. ASSUME NEW b \in Actors PROVE Sound(b, store'[b], memory'[b], handed'[b], call', snapshot'[b].read)
  <2>1. CASE b = a
    BY <2>1
  <2>2. CASE b # a
    <3>1. Sound(b, store'[b], memory'[b], handed'[b], call, snapshot'[b].read)
      BY <2>2 DEF LedgerInv
    <3>2. \A c \in Calls : Edits(call[c], b) \/ Edits(call'[c], b) => call'[c] = call[c]
      BY <2>2 DEF Edits
    <3> QED
      BY <3>1, <3>2, OthersStand
  <2> QED
    BY <2>1, <2>2
<1> QED
  BY <1>1, <1>2 DEF LedgerInv

\* An open actor that nobody edits.
LEMMA AtRest ==
    ASSUME NEW a, NEW s, NEW m, NEW H, Level(s, H), NEW cs, NEW reads, \A c \in Calls : ~Edits(cs[c], a)
    PROVE  Sound(a, s, m, H, cs, reads)
<1>1. s.next # 0
  BY DEF Record, Level
<1> QED
  BY <1>1 DEF Sound, Level

\* An actor that the one call c edits, or is done with.
LEMMA InEdit ==
    ASSUME OneEditAtATime, NEW a, NEW s \in Record, s.next > 0, NEW m, NEW H, NEW cs, NEW reads, NEW c \in Calls,
           EachOnce(H), Below(H, s.next), Half(cs[c], a) \/ Kept(s.ids, s.values, H),
           Edits(cs[c], a) => EditIsSound(cs[c], s, H)
    PROVE  Sound(a, s, m, H, cs, reads)
<1>1. s.next # 0
  BY DEF Record
<1>2. \A d \in Calls : d = c
  BY DEF OneEditAtATime
<1> QED
  BY <1>1, <1>2 DEF Sound

LEMMA LedgerStarts == ASSUME Memory!Init PROVE LedgerInv
<1>1. ReplacesWhatItRead
  BY MemoryStarts
<1> USE DEF Memory!Init, Memory!Absent, Memory!Closed, Memory!Idle, Memory!Unread
<1>2. <<>> \in Seq(Nat) /\ <<1>> \in Seq(Nat)
  OBVIOUS
<1>3. LedgerTypes
  BY <1>2 DEF LedgerTypes, Record, Edit
<1>4. \A c \in Calls : call[c].op = "none"
  OBVIOUS
<1>5. ASSUME NEW a \in Actors PROVE Sound(a, store[a], memory[a], handed[a], call, snapshot[a].read)
  <2>1. store[a] = Memory!Absent /\ store[a].next = 0 /\ handed[a] = {} /\ ~snapshot[a].read
    OBVIOUS
  <2>2. Len(memory[a].values) = Len(memory[a].ids) => memory[a].ids = <<>> /\ memory[a].values = <<>>
    OBVIOUS
  <2>3. Kept(<<>>, <<>>, {})
    BY DEF Kept, AllDiffer
  <2>4. \A c \in Calls : ~Edits(call[c], a)
    BY <1>4 DEF Edits
  <2> QED
    BY <2>1, <2>2, <2>3, <2>4 DEF Sound, EachOnce, Below
<1> QED
  BY <1>1, <1>3, <1>4, <1>5 DEF LedgerInv

LEMMA Opening ==
    ASSUME LedgerInv, ReplacesWhatItRead', NEW a \in Actors, Memory!Open(a)
    PROVE  LedgerInv'
<1>1. PICK r \in Record : r = memory[a]
  BY DEF LedgerInv, LedgerTypes
<1>2. PICK H \in SUBSET (Nat \X Nat) : H = handed[a]
  BY DEF LedgerInv, LedgerTypes
<1>3. PICK s : s = Memory!EnsureLedger(r)
  OBVIOUS
<1>4. PICK H2 : H2 = H \cup Memory!Pairs(s)
  OBVIOUS
<1>5. /\ store' = [store EXCEPT ![a] = s] /\ handed' = [handed EXCEPT ![a] = H2] /\ store'[a] = s /\ handed'[a] = H2
      /\ UNCHANGED <<call, made, memory, snapshot>>
  <2>1. store' = [store EXCEPT ![a] = s] /\ UNCHANGED <<call, made, memory, snapshot>>
    BY <1>1, <1>3 DEF Memory!Open, Memory!fileVars
  <2>2. store'[a] = s
    BY <2>1 DEF LedgerInv, LedgerTypes
  <2>3. handed' = [handed EXCEPT ![a] = H2]
    BY <1>2, <1>4, <2>2 DEF Memory!Open
  <2> QED
    BY <2>1, <2>2, <2>3 DEF LedgerInv, LedgerTypes
<1>6. store[a].next = 0
  BY DEF Memory!Open, Memory!Opened, LedgerInv, LedgerTypes, Record
<1>7. EachOnce(H) /\ Below(H, r.next) /\ (Len(r.values) = Len(r.ids) => Kept(r.ids, r.values, H))
  BY <1>1, <1>2, <1>6 DEF LedgerInv, Sound
<1>8. \A c \in Calls : ~Edits(call[c], a)
  BY <1>6 DEF LedgerInv, Sound, EditIsSound
<1>9. PICK n : n = IF r.next = 0 THEN 1 ELSE r.next
  OBVIOUS
<1>10. n \in Nat /\ n > 0 /\ Below(H, n)
  <2>1. r.next \in Nat /\ \A p \in H : p[1] \in Nat /\ p[1] < r.next
    BY <1>7 DEF Record, Below
  <2> QED
    BY <1>9, <2>1 DEF Below
<1>11. Level(s, H2)
  <2>1. CASE Len(r.ids) = Len(r.values)
    <3>1. s = [r EXCEPT !.next = n]
      BY <1>3, <1>9, <2>1 DEF Memory!EnsureLedger
    <3>2. s \in Record /\ s.next = n /\ s.ids = r.ids /\ s.values = r.values
      BY <1>10, <3>1 DEF Record
    <3>3. Memory!Pairs(s) \subseteq H
      BY <1>7, <2>1, <3>2 DEF Memory!Pairs, Kept
    <3>4. H2 = H
      BY <1>4, <3>3
    <3> QED
      BY <1>7, <1>10, <2>1, <3>2, <3>4 DEF Level
  <2>2. CASE Len(r.ids) # Len(r.values)
    <3>1. PICK values \in Seq(Nat) : values = r.values
      BY DEF Record
    <3>2. s = Fresh(n, values)
      BY <1>3, <1>9, <2>2, <3>1 DEF Memory!EnsureLedger, Fresh
    <3> QED
      BY <1>4, <1>7, <1>10, <3>2, FreshLedger
  <2> QED
    BY <2>1, <2>2
<1>12. Sound(a, s, memory'[a], H2, call', snapshot'[a].read)
  BY <1>5, <1>8, <1>11, AtRest
<1>13. LedgerTypes'
  BY <1>5, <1>11 DEF LedgerInv, LedgerTypes, Level
<1> QED
  BY <1>5, <1>12, <1>13, ActorGoesOn DEF LedgerInv, LedgerTypes

\* Nobody edits an actor that is not in use: its ledger is level.
LEMMA NotInUse ==
    ASSUME LedgerInv, NEW a \in Actors, Memory!Opened(a), ~Memory!InUse(a)
    PROVE  /\ Level(store[a], handed[a]) /\ store[a] \in Record /\ ~snapshot[a].read
           /\ \A c \in Calls : ~Edits(call[c], a)
<1>1. \A c \in Calls : ~Edits(call[c], a) /\ ~Half(call[c], a)
  BY DEF Memory!InUse, Edits, Half
<1> QED
  BY <1>1 DEF LedgerInv, LedgerTypes, Sound, Level, Memory!Opened, Memory!InUse

LEMMA Saving ==
    ASSUME LedgerInv, ReplacesWhatItRead', NEW a \in Actors, NEW n \in 0..1, Memory!Save(a, n)
    PROVE  LedgerInv'
<1>1. /\ Level(store[a], handed[a]) /\ store[a] \in Record /\ ~snapshot[a].read
      /\ \A c \in Calls : ~Edits(call[c], a)
  BY NotInUse DEF Memory!Save
<1>2. PICK values : values = [k \in 1..n |-> made + k]
  OBVIOUS
<1>3. values \in Seq(Nat) /\ Len(values) = n
  <2>1. made \in Nat /\ n \in Nat /\ \A k \in 1..n : made + k \in Nat
    BY DEF LedgerInv, LedgerTypes
  <2> QED
    BY <1>2, <2>1
<1>4. PICK first : first = store[a].next
  OBVIOUS
<1>5. PICK s : s = Fresh(first, values)
  OBVIOUS
<1>6. PICK H2 : H2 = handed[a] \cup Memory!Pairs(s)
  OBVIOUS
<1>7. /\ store' = [store EXCEPT ![a] = s] /\ handed' = [handed EXCEPT ![a] = H2] /\ store'[a] = s /\ handed'[a] = H2
      /\ made' = made + n /\ UNCHANGED <<call, memory, snapshot>>
  <2>1. /\ store' = [store EXCEPT ![a] = [values |-> values, ids |-> Memory!FreshIds(@.next, values), next |-> @.next + n]]
        /\ made' = made + n /\ UNCHANGED <<call, memory, snapshot>>
    BY <1>2 DEF Memory!Save, Memory!fileVars
  <2>2. store' = [store EXCEPT ![a] = s]
    BY <1>3, <1>4, <1>5, <2>1 DEF Fresh
  <2>3. store'[a] = s
    BY <2>2 DEF LedgerInv, LedgerTypes
  <2>4. handed' = [handed EXCEPT ![a] = H2]
    BY <1>6, <2>3 DEF Memory!Save
  <2> QED
    BY <2>1, <2>2, <2>3, <2>4 DEF LedgerInv, LedgerTypes
<1>8. Level(s, H2)
  <2>1. /\ handed[a] \in SUBSET (Nat \X Nat) /\ EachOnce(handed[a])
        /\ first \in Nat /\ first > 0 /\ Below(handed[a], first)
    BY <1>1, <1>4 DEF Level, Record
  <2> QED
    BY <1>3, <1>5, <1>6, <2>1, FreshLedger
<1>9. Sound(a, s, memory'[a], H2, call', snapshot'[a].read)
  BY <1>1, <1>7, <1>8, AtRest
<1>10. LedgerTypes'
  BY <1>7, <1>8 DEF LedgerInv, LedgerTypes, Level
<1> QED
  BY <1>7, <1>9, <1>10, ActorGoesOn DEF LedgerInv, LedgerTypes

LEMMA Closing ==
    ASSUME LedgerInv, ReplacesWhatItRead', NEW a \in Actors, Memory!CloseReads(a) \/ Memory!CloseReplaces(a)
    PROVE  LedgerInv'
<1>1. CASE Memory!CloseReads(a)
  <2>1. Level(store[a], handed[a]) /\ \A c \in Calls : ~Edits(call[c], a)
    BY <1>1, NotInUse DEF Memory!CloseReads
  <2>2. UNCHANGED <<store, call, made, handed, memory>>
    BY <1>1 DEF Memory!CloseReads, Memory!storeVars
  <2>3. \A b \in Actors \ {a} : snapshot'[b].read = snapshot[b].read
    BY <1>1 DEF Memory!CloseReads, LedgerInv, ReplacesWhatItRead
  <2>4. Sound(a, store'[a], memory'[a], handed'[a], call', snapshot'[a].read)
    BY <2>1, <2>2, AtRest
  <2>5. LedgerTypes'
    BY <2>2 DEF LedgerInv, LedgerTypes
  <2> QED
    BY <2>2, <2>3, <2>4, <2>5, ActorGoesOn
<1>2. CASE Memory!CloseReplaces(a)
  <2>1. UNCHANGED <<store, call, made, handed>>
    BY <1>2 DEF Memory!CloseReplaces, Memory!storeVars
  <2>2. snapshot[a].read /\ memory' = [memory EXCEPT ![a] = store[a]]
    BY <1>2 DEF Memory!CloseReplaces, LedgerInv, ReplacesWhatItRead
  <2>3. /\ \A b \in Actors \ {a} : snapshot'[b].read = snapshot[b].read /\ memory'[b] = memory[b]
        /\ ~snapshot'[a].read
    BY <1>2, <2>2 DEF Memory!CloseReplaces, Memory!Unread, LedgerInv, ReplacesWhatItRead
  <2>4. Sound(a, store[a], memory[a], handed[a], call, TRUE)
    BY <2>2 DEF LedgerInv
  <2>5. store[a].next # 0
    BY <2>4 DEF Sound
  <2>6. Sound(a, store'[a], memory'[a], handed'[a], call', snapshot'[a].read)
    BY <2>1, <2>4, <2>5 DEF Sound
  <2>7. LedgerTypes'
    BY <2>1, <2>2 DEF LedgerInv, LedgerTypes
  <2> QED
    BY <2>1, <2>3, <2>6, <2>7, ActorGoesOn
<1> QED
  BY <1>1, <1>2

LEMMA Leaving ==
    ASSUME LedgerInv, ReplacesWhatItRead', NEW a \in Actors, Memory!Exit(a)
    PROVE  LedgerInv'
<1>1. Level(store[a], handed[a]) /\ ~snapshot[a].read /\ \A c \in Calls : ~Edits(call[c], a)
  BY NotInUse DEF Memory!Exit
<1>2. /\ store' = [store EXCEPT ![a] = Memory!Absent] /\ UNCHANGED <<call, made, handed, memory, snapshot>>
      /\ memory[a] = store[a]
  BY DEF Memory!Exit, Memory!Closed, Memory!fileVars, LedgerInv, ReplacesWhatItRead
<1>3. store'[a] = Memory!Absent /\ \A b \in Actors \ {a} : store'[b] = store[b]
  BY <1>2 DEF LedgerInv, LedgerTypes
<1>4. Memory!Absent \in Record /\ Memory!Absent.next = 0
  <2>1. <<>> \in Seq(Nat)
    OBVIOUS
  <2> QED
    BY <2>1 DEF Memory!Absent, Record
<1>5. Sound(a, Memory!Absent, store[a], handed[a], call, FALSE)
  BY <1>1, <1>4 DEF Sound, Level
<1>6. Sound(a, store'[a], memory'[a], handed'[a], call', snapshot'[a].read)
  <2>1. /\ store'[a] = Memory!Absent /\ memory'[a] = store[a] /\ handed' = handed /\ call' = call
        /\ snapshot'[a].read = snapshot[a].read
    BY <1>2, <1>3
  <2> QED
    BY <1>1, <1>5, <2>1 DEF Sound
<1>7. LedgerTypes'
  BY <1>2, <1>4 DEF LedgerInv, LedgerTypes
<1> QED
  BY <1>2, <1>3, <1>6, <1>7, ActorGoesOn

LEMMA EditedByHand ==
    ASSUME LedgerInv, ReplacesWhatItRead', NEW a \in Actors, Memory!ExternalEdit(a)
    PROVE  LedgerInv'
<1>1. PICK m \in Record : m = memory[a]
  BY DEF LedgerInv, LedgerTypes
<1>2. store[a].next = 0 /\ Len(m.values) = Len(m.ids)
  BY <1>1 DEF Memory!ExternalEdit, Memory!Opened, LedgerInv, LedgerTypes, Record
<1>3. PICK m2 : m2 = [m EXCEPT !.values = Append(@, made + 1)]
  OBVIOUS
<1>4. m2 \in Record /\ Len(m2.values) # Len(m2.ids) /\ m2.next = m.next
  <2>1. made + 1 \in Nat /\ m.values \in Seq(Nat) /\ Len(m.values) \in Nat
    BY DEF LedgerInv, LedgerTypes, Record
  <2>2. PICK values : values = Append(m.values, made + 1)
    OBVIOUS
  <2>3. values \in Seq(Nat) /\ Len(values) = Len(m.values) + 1
    BY <2>1, <2>2
  <2>4. m2 = [m EXCEPT !.values = values]
    BY <1>3, <2>2
  <2>5. m2 \in Record /\ m2.values = values /\ m2.ids = m.ids /\ m2.next = m.next
    BY <2>3, <2>4 DEF Record
  <2>6. Len(values) # Len(m.ids)
    BY <1>2, <2>1, <2>3
  <2> QED
    BY <2>5, <2>6
<1>5. memory' = [memory EXCEPT ![a] = m2] /\ made' = made + 1 /\ UNCHANGED <<store, call, handed, snapshot>>
  BY <1>1, <1>3 DEF Memory!ExternalEdit
<1>6. memory'[a] = m2 /\ \A b \in Actors \ {a} : memory'[b] = memory[b]
  BY <1>5 DEF LedgerInv, LedgerTypes
<1>7. Sound(a, store[a], m, handed[a], call, snapshot[a].read)
  BY <1>1 DEF LedgerInv
<1>8. Sound(a, store[a], m2, handed[a], call, snapshot[a].read)
  BY <1>2, <1>4, <1>7 DEF Sound
<1>9. Sound(a, store'[a], memory'[a], handed'[a], call', snapshot'[a].read)
  BY <1>5, <1>6, <1>8
<1>10. LedgerTypes'
  BY <1>4, <1>5 DEF LedgerInv, LedgerTypes
<1> QED
  BY <1>5, <1>6, <1>9, <1>10, ActorGoesOn

\* A step of the one call c, on its actor: k and s become k2 and s2.
LEMMA EditGoesOn ==
    ASSUME OneEditAtATime, LedgerInv, ReplacesWhatItRead', NEW c \in Calls, NEW a \in Actors,
           call[c].op = "none" \/ call[c].actor = a,
           NEW k2 \in Edit, call' = [call EXCEPT ![c] = k2], k2.op = "none" \/ k2.actor = a,
           NEW s2 \in Record, store' = [store EXCEPT ![a] = s2], s2.next > 0,
           NEW H2 \in SUBSET (Nat \X Nat), handed' = [handed EXCEPT ![a] = H2],
           EachOnce(H2), Below(H2, s2.next), Half(k2, a) \/ Kept(s2.ids, s2.values, H2),
           Edits(k2, a) => EditIsSound(k2, s2, H2), made' \in Nat, UNCHANGED <<memory, snapshot>>
    PROVE  LedgerInv'
<1>1. /\ store'[a] = s2 /\ handed'[a] = H2 /\ call'[c] = k2
      /\ \A b \in Actors \ {a} : store'[b] = store[b] /\ handed'[b] = handed[b]
      /\ \A d \in Calls : d # c => call'[d] = call[d]
  BY DEF LedgerInv, LedgerTypes
<1>2. Sound(a, store'[a], memory'[a], handed'[a], call', snapshot'[a].read)
  <2>1. PICK cs : cs = call'
    OBVIOUS
  <2>2. cs[c] = k2
    BY <1>1, <2>1
  <2>3. Half(cs[c], a) \/ Kept(s2.ids, s2.values, H2)
    BY <2>2
  <2>4. Edits(cs[c], a) => EditIsSound(cs[c], s2, H2)
    BY <2>2
  <2>5. Sound(a, s2, memory'[a], H2, cs, snapshot'[a].read)
    BY <2>3, <2>4, InEdit
  <2> QED
    BY <1>1, <2>1, <2>5
<1>3. LedgerTypes'
  BY DEF LedgerInv, LedgerTypes
<1>4. \A b \in Actors \ {a} : /\ store'[b] = store[b] /\ memory'[b] = memory[b]
                               /\ handed'[b] = handed[b] /\ snapshot'[b].read = snapshot[b].read
  BY <1>1
<1>5. \A d \in Calls : call'[d] # call[d] => /\ (call[d].op = "none" \/ call[d].actor = a)
                                             /\ (call'[d].op = "none" \/ call'[d].actor = a)
  BY <1>1
<1> QED
  BY <1>2, <1>3, <1>4, <1>5, ActorGoesOn

\* What is known of a call under way, and of its actor.
LEMMA UnderWay ==
    ASSUME OneEditAtATime, LedgerInv, NEW c \in Calls, NEW k, k = call[c], NEW a, a = k.actor, k.op # "none"
    PROVE  /\ a \in Actors /\ k \in Edit /\ store[a] \in Record /\ handed[a] \in SUBSET (Nat \X Nat)
           /\ store[a].next > 0 /\ EditIsSound(k, store[a], handed[a])
           /\ EachOnce(handed[a]) /\ Below(handed[a], store[a].next)
           /\ ~Half(k, a) => Kept(store[a].ids, store[a].values, handed[a])
<1>1. a \in Actors /\ k \in Edit /\ store[a] \in Record /\ handed[a] \in SUBSET (Nat \X Nat)
  BY DEF LedgerInv, LedgerTypes
<1>2. Sound(a, store[a], memory[a], handed[a], call, snapshot[a].read)
  BY <1>1 DEF LedgerInv
<1>3. EditIsSound(k, store[a], handed[a])
  BY <1>2 DEF Sound, Edits
<1>4. store[a].next > 0
  BY <1>3 DEF EditIsSound
<1>5. \A d \in Calls : d = c
  BY DEF OneEditAtATime
<1> QED
  BY <1>1, <1>2, <1>3, <1>4, <1>5 DEF Sound

LEMMA IdleIsAnEdit == Memory!Idle \in Edit /\ Memory!Idle.op = "none" /\ \A a : ~Edits(Memory!Idle, a) /\ ~Half(Memory!Idle, a)
BY DEF Memory!Idle, Edit, Edits, Half

LEMMA Starting ==
    ASSUME OneEditAtATime, LedgerInv, ReplacesWhatItRead', NEW c \in Calls, NEW a \in Actors, Memory!Start(c, a)
    PROVE  LedgerInv'
<1>1. /\ call[c].op = "none" /\ \A d \in Calls : d = c
      /\ store[a].next > 0 /\ store[a] \in Record /\ handed[a] \in SUBSET (Nat \X Nat) /\ made \in Nat
  BY DEF Memory!Start, Memory!Idle, Memory!Opened, OneEditAtATime, LedgerInv, LedgerTypes
<1>2. Sound(a, store[a], memory[a], handed[a], call, snapshot[a].read)
  BY DEF LedgerInv
<1>3. /\ EachOnce(handed[a]) /\ Below(handed[a], store[a].next)
      /\ Kept(store[a].ids, store[a].values, handed[a])
  BY <1>1, <1>2 DEF Sound, Half, Edits
<1>4. UNCHANGED <<store, handed, memory, snapshot>>
  BY DEF Memory!Start, Memory!fileVars
<1>5. store' = [store EXCEPT ![a] = store[a]] /\ handed' = [handed EXCEPT ![a] = handed[a]]
  BY <1>4 DEF LedgerInv, LedgerTypes
<1>6. PICK k2 : /\ call' = [call EXCEPT ![c] = k2] /\ k2 \in Edit /\ k2.actor = a /\ k2.step = 1
                /\ k2.op \in {"add", "update", "remove"} /\ made' \in Nat
  <2>1. CASE /\ made' = made + 1
             /\ call' = [call EXCEPT ![c] = [op |-> "add", actor |-> a, id |-> 0, at |-> made + 1, step |-> 1]]
    <3>1. made + 1 \in Nat /\ 0 \in Nat /\ 1 \in 0..4
      BY <1>1
    <3>2. PICK k2 : k2 = [op |-> "add", actor |-> a, id |-> 0, at |-> made + 1, step |-> 1]
      OBVIOUS
    <3>3. k2 \in Edit /\ k2.actor = a /\ k2.step = 1 /\ k2.op \in {"add", "update", "remove"}
      BY <3>1, <3>2 DEF Edit
    <3>4. call' = [call EXCEPT ![c] = k2] /\ made' \in Nat
      BY <2>1, <3>1, <3>2
    <3> QED
      BY <3>3, <3>4
  <2>2. ASSUME NEW p \in handed[a], NEW o \in {"update", "remove"}, made' = made,
               call' = [call EXCEPT ![c] = [op |-> o, actor |-> a, id |-> p[1], at |-> 0, step |-> 1]]
        PROVE  \E k2 : /\ call' = [call EXCEPT ![c] = k2] /\ k2 \in Edit /\ k2.actor = a /\ k2.step = 1
                       /\ k2.op \in {"add", "update", "remove"} /\ made' \in Nat
    <3>1. p[1] \in Nat /\ 0 \in Nat /\ 1 \in 0..4
      BY <1>1
    <3>2. PICK k2 : k2 = [op |-> o, actor |-> a, id |-> p[1], at |-> 0, step |-> 1]
      OBVIOUS
    <3>3. k2 \in Edit /\ k2.actor = a /\ k2.step = 1 /\ k2.op \in {"add", "update", "remove"}
      BY <3>1, <3>2 DEF Edit
    <3>4. call' = [call EXCEPT ![c] = k2] /\ made' \in Nat
      BY <1>1, <2>2, <3>2
    <3> QED
      BY <3>3, <3>4
  <2> QED
    BY <2>1, <2>2 DEF Memory!Start
<1>7. EditIsSound(k2, store[a], handed[a])
  BY <1>1, <1>6 DEF EditIsSound
<1> QED
  BY <1>1, <1>3, <1>4, <1>5, <1>6, <1>7, EditGoesOn

LEMMA Adding ==
    ASSUME OneEditAtATime, LedgerInv, ReplacesWhatItRead', NEW c \in Calls, Memory!Add(c)
    PROVE  LedgerInv'
<1>1. PICK k : k = call[c]
  OBVIOUS
<1>2. PICK a : a = k.actor
  OBVIOUS
<1>3. PICK s : s = store[a]
  OBVIOUS
<1>4. PICK H : H = handed[a]
  OBVIOUS
<1>5. k.op = "add"
  BY <1>1 DEF Memory!Add
<1>6. /\ a \in Actors /\ k \in Edit /\ s \in Record /\ H \in SUBSET (Nat \X Nat)
      /\ s.next > 0 /\ EditIsSound(k, s, H) /\ EachOnce(H) /\ Below(H, s.next)
      /\ ~Half(k, a) => Kept(s.ids, s.values, H)
  BY <1>1, <1>2, <1>3, <1>4, <1>5, UnderWay
<1>7. /\ k.op = "add" /\ k.actor = a /\ k.step \in 1..4 /\ k.id \in Nat /\ k.at \in Nat /\ s.next \in Nat
      /\ s.ids \in Seq(Nat) /\ s.values \in Seq(Nat)
  BY <1>2, <1>5, <1>6 DEF EditIsSound, Edit, Record
<1>8. UNCHANGED <<memory, snapshot>> /\ made' \in Nat
  BY DEF Memory!Add, Memory!fileVars, LedgerInv, LedgerTypes
<1>9. call[c].op = "none" \/ call[c].actor = a
  BY <1>1, <1>2
<1>10. store = [store EXCEPT ![a] = s] /\ handed = [handed EXCEPT ![a] = H]
  BY <1>3, <1>4, <1>6 DEF LedgerInv, LedgerTypes
<1>11. CASE k.step = 1
  <2>1. PICK k2 : k2 = [k EXCEPT !.id = s.next, !.step = 2]
    OBVIOUS
  <2>2. k2 \in Edit /\ k2.op = "add" /\ k2.actor = a /\ k2.step = 2 /\ k2.id = s.next
    <3>1. 2 \in 0..4
      OBVIOUS
    <3>2. k2 \in Edit
      BY <1>6, <1>7, <2>1, <3>1 DEF Edit
    <3> QED
      BY <1>6, <1>7, <2>1, <3>2 DEF Edit
  <2>3. call' = [call EXCEPT ![c] = k2] /\ store' = store /\ handed' = handed
    <3>1. call' = [call EXCEPT ![c].id = s.next, ![c].step = 2] /\ store' = store /\ handed' = handed
      BY <1>1, <1>2, <1>3, <1>11 DEF Memory!Add
    <3>2. call \in [Calls -> Edit]
      BY DEF LedgerInv, LedgerTypes
    <3> QED
      BY <1>1, <2>1, <3>1, <3>2 DEF Edit
  <2>4. Kept(s.ids, s.values, H)
    BY <1>6, <1>11 DEF Half
  <2>5. EditIsSound(k2, s, H)
    BY <1>6, <2>2 DEF EditIsSound
  <2>6. store' = [store EXCEPT ![a] = s] /\ handed' = [handed EXCEPT ![a] = H]
    BY <1>10, <2>3
  <2> QED
    BY <1>6, <1>8, <1>9, <2>2, <2>3, <2>4, <2>5, <2>6, EditGoesOn
<1>12. CASE k.step = 2
  <2>1. PICK k2 : k2 = [k EXCEPT !.step = 3]
    OBVIOUS
  <2>2. k2 \in Edit /\ k2.op = "add" /\ k2.actor = a /\ k2.step = 3 /\ k2.id = s.next
    BY <1>6, <1>7, <1>12, <2>1 DEF Edit, EditIsSound
  <2>3. PICK s2 : s2 = [s EXCEPT !.next = k.id + 1]
    OBVIOUS
  <2>4. s2 \in Record /\ s2.next = s.next + 1 /\ s2.next > 0 /\ s2.ids = s.ids /\ s2.values = s.values
    <3>1. k.id = s.next
      BY <1>6, <1>7, <1>12 DEF EditIsSound
    <3>2. PICK n \in Nat : n = k.id + 1
      BY <1>7
    <3>3. s2 = [s EXCEPT !.next = n] /\ n = s.next + 1 /\ n > 0
      BY <1>7, <2>3, <3>1, <3>2
    <3> QED
      BY <1>6, <3>2, <3>3 DEF Record
  <2>5. call' = [call EXCEPT ![c] = k2] /\ store' = [store EXCEPT ![a] = s2] /\ handed' = handed
    BY <1>1, <1>2, <1>3, <1>12, <2>1, <2>3 DEF Memory!Add, Memory!Step
  <2>6. Kept(s2.ids, s2.values, H)
    BY <1>6, <1>12, <2>4 DEF Half
  <2>7. Below(H, s2.next)
    <3>1. \A p \in H : p[1] \in Nat /\ p[1] < s.next
      BY <1>6 DEF Below
    <3> QED
      BY <1>7, <2>4, <3>1 DEF Below
  <2>8. EditIsSound(k2, s2, H)
    BY <1>6, <2>2, <2>4 DEF EditIsSound
  <2>9. handed' = [handed EXCEPT ![a] = H]
    BY <1>10, <2>5
  <2> QED
    BY <1>6, <1>8, <1>9, <2>2, <2>4, <2>5, <2>6, <2>7, <2>8, <2>9, EditGoesOn
<1>13. CASE k.step = 3
  <2>1. PICK k2 : k2 = [k EXCEPT !.step = 4]
    OBVIOUS
  <2>2. /\ k2 \in Edit /\ k2.op = "add" /\ k2.actor = a /\ k2.step = 4 /\ k2.id = k.id /\ k2.at = k.at
        /\ Half(k2, a)
    <3>1. 4 \in 0..4
      OBVIOUS
    <3>2. /\ k2 \in Edit /\ k2.op = "add" /\ k2.actor = a /\ k2.step = 4 /\ k2.id = k.id /\ k2.at = k.at
      BY <1>6, <1>7, <2>1, <3>1 DEF Edit
    <3> QED
      BY <3>2 DEF Half, Edits
  <2>3. PICK values : values = Append(s.values, k.at)
    OBVIOUS
  <2>4. PICK s2 : s2 = [s EXCEPT !.values = values]
    OBVIOUS
  <2>5. Kept(s.ids, s.values, H)
    BY <1>6, <1>7, <1>13 DEF Half
  <2>6. /\ values \in Seq(Nat) /\ Len(values) = Len(s.values) + 1 /\ values[Len(s.values) + 1] = k.at
        /\ \A j \in 1..Len(s.values) : values[j] = s.values[j]
    BY <1>7, <2>3
  <2>7. s2 \in Record /\ s2.next = s.next /\ s2.ids = s.ids /\ s2.values = values
    BY <1>6, <2>4, <2>6 DEF Record
  <2>8. call' = [call EXCEPT ![c] = k2] /\ store' = [store EXCEPT ![a] = s2] /\ handed' = handed
    BY <1>1, <1>2, <1>3, <1>13, <2>1, <2>3, <2>4 DEF Memory!Add, Memory!Step
  <2>9. Grown(s.ids, values, k.at, H)
    BY <2>5, <2>6 DEF Grown, Kept
  <2>10. EditIsSound(k2, s2, H)
    BY <1>6, <1>7, <1>13, <2>2, <2>7, <2>9 DEF EditIsSound
  <2>11. handed' = [handed EXCEPT ![a] = H]
    BY <1>10, <2>8
  <2> QED
    BY <1>6, <1>8, <1>9, <2>2, <2>7, <2>8, <2>10, <2>11, EditGoesOn
<1>14. CASE k.step = 4
  <2>1. PICK k2 : k2 = Memory!Idle
    OBVIOUS
  <2>2. k2 \in Edit /\ k2.op = "none" /\ ~Edits(k2, a)
    BY <2>1, IdleIsAnEdit
  <2>3. PICK ids : ids = Append(s.ids, k.id)
    OBVIOUS
  <2>4. PICK s2 : s2 = [s EXCEPT !.ids = ids]
    OBVIOUS
  <2>5. PICK H2 : H2 = H \cup {<<k.id, k.at>>}
    OBVIOUS
  <2>6. Grown(s.ids, s.values, k.at, H) /\ Below(H, k.id) /\ s.next = k.id + 1
    BY <1>5, <1>6, <1>14 DEF EditIsSound
  <2>7. ids \in Seq(Nat) /\ H2 \in SUBSET (Nat \X Nat) /\ EachOnce(H2) /\ Below(H2, k.id + 1) /\ Kept(ids, s.values, H2)
    <3>1. PICK values \in Seq(Nat) : values = s.values
      BY <1>7
    <3>2. PICK old \in Seq(Nat) : old = s.ids
      BY <1>7
    <3>3. PICK v \in Nat : v = k.at
      BY <1>7
    <3>4. PICK id \in Nat : id = k.id
      BY <1>7
    <3>5. Grown(old, values, v, H) /\ Below(H, id) /\ H2 = H \cup {<<id, v>>}
      BY <2>5, <2>6, <3>1, <3>2, <3>3, <3>4
    <3>6. ids = Append(old, id)
      BY <2>3, <3>2, <3>4
    <3>7. NumberedUpTo(id, ids, values, H2)
      BY <1>6, <3>5, <3>6, Numbering
    <3> QED
      BY <3>1, <3>4, <3>7 DEF NumberedUpTo
  <2>8. s2 \in Record /\ s2.next = s.next /\ s2.ids = ids /\ s2.values = s.values
    BY <1>6, <2>4, <2>7 DEF Record
  <2>9. call' = [call EXCEPT ![c] = k2] /\ store' = [store EXCEPT ![a] = s2] /\ handed' = [handed EXCEPT ![a] = H2]
    BY <1>1, <1>2, <1>3, <1>4, <1>14, <2>1, <2>3, <2>4, <2>5 DEF Memory!Add, Memory!Finish
  <2>10. Below(H2, s2.next) /\ Kept(s2.ids, s2.values, H2)
    BY <2>6, <2>7, <2>8
  <2>11. s2.next > 0
    BY <1>6, <2>8
  <2> QED
    BY <1>6, <1>8, <1>9, <2>2, <2>7, <2>8, <2>9, <2>10, <2>11, EditGoesOn
<1> QED
  BY <1>7, <1>11, <1>12, <1>13, <1>14

LEMMA Locating ==
    ASSUME OneEditAtATime, LedgerInv, ReplacesWhatItRead', NEW c \in Calls, Memory!Locate(c)
    PROVE  LedgerInv'
<1>1. PICK k : k = call[c]
  OBVIOUS
<1>2. PICK a : a = k.actor
  OBVIOUS
<1>3. PICK s : s = store[a]
  OBVIOUS
<1>4. PICK H : H = handed[a]
  OBVIOUS
<1>5. k.op \in {"update", "remove"} /\ k.step = 1
  BY <1>1 DEF Memory!Locate
<1>6. /\ a \in Actors /\ k \in Edit /\ s \in Record /\ H \in SUBSET (Nat \X Nat)
      /\ s.next > 0 /\ EditIsSound(k, s, H) /\ EachOnce(H) /\ Below(H, s.next)
      /\ ~Half(k, a) => Kept(s.ids, s.values, H)
  BY <1>1, <1>2, <1>3, <1>4, <1>5, UnderWay
<1>7. Kept(s.ids, s.values, H)
  BY <1>5, <1>6 DEF Half
<1>8. UNCHANGED <<store, handed, memory, snapshot>> /\ made' \in Nat
  BY DEF Memory!Locate, Memory!fileVars, LedgerInv, LedgerTypes
<1>9. call[c].op = "none" \/ call[c].actor = a
  BY <1>1, <1>2
<1>10. store' = [store EXCEPT ![a] = s] /\ handed' = [handed EXCEPT ![a] = H]
  BY <1>3, <1>4, <1>6, <1>8 DEF LedgerInv, LedgerTypes
<1>11. CASE Memory!Contains(s.ids, k.id)
  <2>1. PICK i : i = IF Places(s.ids, k.id) # {} THEN Memory!Min(Places(s.ids, k.id)) ELSE 0
    OBVIOUS
  <2>2. PICK k2 : k2 = [k EXCEPT !.at = i, !.step = 2]
    OBVIOUS
  <2>3. call' = [call EXCEPT ![c].at = i, ![c].step = 2]
    BY <1>1, <1>2, <1>3, <1>11, <2>1 DEF Memory!Locate, Memory!SelectInSeq, Places
  <2>4. i \in Nat /\ i \in 1..Len(s.ids) /\ s.ids[i] = k.id
    <3>1. s.ids \in Seq(Nat) /\ AllDiffer(s.ids)
      BY <1>6, <1>7 DEF Record, Kept
    <3>2. \E j \in 1..Len(s.ids) : s.ids[j] = k.id
      BY <1>11 DEF Memory!Contains
    <3>3. Standing(s.ids, k.id, i)
      BY <2>1, <3>1, <3>2, Looking
    <3> QED
      BY <3>3 DEF Standing
  <2>5. k2 \in Edit /\ k2.op = k.op /\ k2.actor = a /\ k2.step = 2 /\ k2.at = i /\ k2.id = k.id
    <3>1. 2 \in 0..4
      OBVIOUS
    <3> QED
      BY <1>2, <1>6, <2>2, <2>4, <3>1 DEF Edit
  <2>6. call' = [call EXCEPT ![c] = k2]
    <3>1. call \in [Calls -> Edit]
      BY DEF LedgerInv, LedgerTypes
    <3> QED
      BY <1>1, <2>2, <2>3, <3>1 DEF Edit
  <2>7. EditIsSound(k2, s, H)
    BY <1>5, <1>6, <2>4, <2>5 DEF EditIsSound
  <2> QED
    BY <1>6, <1>7, <1>8, <1>9, <1>10, <2>5, <2>6, <2>7, EditGoesOn
<1>12. CASE ~Memory!Contains(s.ids, k.id)
  <2>1. PICK k2 : k2 = Memory!Idle
    OBVIOUS
  <2>2. k2 \in Edit /\ k2.op = "none" /\ ~Edits(k2, a)
    BY <2>1, IdleIsAnEdit
  <2>3. call' = [call EXCEPT ![c] = k2]
    BY <1>1, <1>2, <1>3, <1>12, <2>1 DEF Memory!Locate, Memory!Finish
  <2> QED
    BY <1>6, <1>7, <1>8, <1>9, <1>10, <2>2, <2>3, EditGoesOn
<1> QED
  BY <1>11, <1>12

LEMMA Updating ==
    ASSUME OneEditAtATime, LedgerInv, ReplacesWhatItRead', NEW c \in Calls, Memory!Update(c)
    PROVE  LedgerInv'
<1>1. PICK k : k = call[c]
  OBVIOUS
<1>2. PICK a : a = k.actor
  OBVIOUS
<1>3. PICK s : s = store[a]
  OBVIOUS
<1>4. PICK H : H = handed[a]
  OBVIOUS
<1>5. k.op = "update" /\ k.step = 2
  BY <1>1 DEF Memory!Update
<1>6. /\ a \in Actors /\ k \in Edit /\ s \in Record /\ H \in SUBSET (Nat \X Nat)
      /\ s.next > 0 /\ EditIsSound(k, s, H) /\ EachOnce(H) /\ Below(H, s.next)
      /\ ~Half(k, a) => Kept(s.ids, s.values, H)
  BY <1>1, <1>2, <1>3, <1>4, <1>5, UnderWay
<1>7. Kept(s.ids, s.values, H)
  BY <1>5, <1>6 DEF Half
<1>8. UNCHANGED <<handed, memory, snapshot>> /\ made' \in Nat
  BY DEF Memory!Update, Memory!fileVars, LedgerInv, LedgerTypes
<1>9. call[c].op = "none" \/ call[c].actor = a
  BY <1>1, <1>2
<1>10. k.at \in 1..Len(s.ids) /\ s.ids[k.at] = k.id
  BY <1>5, <1>6 DEF EditIsSound
<1>11. PICK v : v = Memory!EntryOf(a, k.id)
  OBVIOUS
<1>12. IsRewritten(s.values, k.at, v)
  <2>1. v = (CHOOSE p \in H : p[1] = s.ids[k.at])[2]
    BY <1>4, <1>10, <1>11 DEF Memory!EntryOf
  <2>2. s.ids \in Seq(Nat) /\ s.values \in Seq(Nat)
    BY <1>6 DEF Record
  <2> QED
    BY <1>6, <1>7, <1>10, <2>1, <2>2, Writing
<1>13. store' = [store EXCEPT ![a] = s]
  <2>1. store' = [store EXCEPT ![a] = [s EXCEPT !.values = [s.values EXCEPT ![k.at] = v]]]
    BY <1>1, <1>2, <1>3, <1>11 DEF Memory!Update
  <2>2. [s EXCEPT !.values = s.values] = s
    BY <1>6 DEF Record
  <2> QED
    BY <1>12, <2>1, <2>2 DEF IsRewritten
<1>14. PICK k2 : k2 = Memory!Idle
  OBVIOUS
<1>15. k2 \in Edit /\ k2.op = "none" /\ ~Edits(k2, a)
  BY <1>14, IdleIsAnEdit
<1>16. call' = [call EXCEPT ![c] = k2] /\ handed' = [handed EXCEPT ![a] = H]
  BY <1>4, <1>6, <1>8, <1>14 DEF Memory!Update, Memory!Finish, LedgerInv, LedgerTypes
<1> QED
  BY <1>6, <1>7, <1>8, <1>9, <1>13, <1>15, <1>16, EditGoesOn

LEMMA Deleting ==
    ASSUME OneEditAtATime, LedgerInv, ReplacesWhatItRead', NEW c \in Calls, Memory!Delete(c)
    PROVE  LedgerInv'
<1>1. PICK k : k = call[c]
  OBVIOUS
<1>2. PICK a : a = k.actor
  OBVIOUS
<1>3. PICK s : s = store[a]
  OBVIOUS
<1>4. PICK H : H = handed[a]
  OBVIOUS
<1>5. k.op = "remove" /\ k.step \in {2, 3}
  BY <1>1 DEF Memory!Delete
<1>6. /\ a \in Actors /\ k \in Edit /\ s \in Record /\ H \in SUBSET (Nat \X Nat)
      /\ s.next > 0 /\ EditIsSound(k, s, H) /\ EachOnce(H) /\ Below(H, s.next)
      /\ ~Half(k, a) => Kept(s.ids, s.values, H)
  BY <1>1, <1>2, <1>3, <1>4, <1>5, UnderWay
<1>7. k.at \in 1..Len(s.ids) /\ s.ids[k.at] = k.id
  BY <1>5, <1>6 DEF EditIsSound
<1>8. UNCHANGED <<handed, memory, snapshot>> /\ made' \in Nat
  BY DEF Memory!Delete, Memory!fileVars, LedgerInv, LedgerTypes
<1>9. call[c].op = "none" \/ call[c].actor = a
  BY <1>1, <1>2
<1>10. handed' = [handed EXCEPT ![a] = H]
  BY <1>4, <1>6, <1>8 DEF LedgerInv, LedgerTypes
<1>11. PICK ids \in Seq(Nat) : ids = s.ids
  BY <1>6 DEF Record
<1>12. PICK values \in Seq(Nat) : values = s.values
  BY <1>6 DEF Record
<1>13. PICK i \in 1..Len(ids) : i = k.at
  BY <1>7, <1>11
<1>14. CASE k.step = 2
  <2>1. PICK k2 : k2 = [k EXCEPT !.step = 3]
    OBVIOUS
  <2>2. k2 \in Edit /\ k2.op = "remove" /\ k2.actor = a /\ k2.step = 3 /\ k2.at = i /\ k2.id = k.id
    <3>1. 3 \in 0..4
      OBVIOUS
    <3> QED
      BY <1>2, <1>5, <1>6, <1>13, <2>1, <3>1 DEF Edit
  <2>3. PICK rest : rest = Memory!RemoveAt(values, i)
    OBVIOUS
  <2>4. PICK s2 : s2 = [s EXCEPT !.values = rest]
    OBVIOUS
  <2>5. Kept(ids, values, H)
    BY <1>6, <1>11, <1>12, <1>14 DEF Half
  <2>6. rest \in Seq(Nat) /\ Shrunk(ids, rest, i, H)
    BY <2>3, <2>5, Removing
  <2>7. s2 \in Record /\ s2.next = s.next /\ s2.ids = ids /\ s2.values = rest
    BY <1>6, <1>11, <2>4, <2>6 DEF Record
  <2>8. call' = [call EXCEPT ![c] = k2] /\ store' = [store EXCEPT ![a] = s2]
    BY <1>1, <1>2, <1>3, <1>12, <1>13, <1>14, <2>1, <2>3, <2>4 DEF Memory!Delete, Memory!Step
  <2>9. EditIsSound(k2, s2, H)
    BY <1>6, <1>7, <1>11, <1>13, <2>2, <2>6, <2>7 DEF EditIsSound
  <2>10. Half(k2, a)
    BY <2>2 DEF Half, Edits
  <2> QED
    BY <1>6, <1>8, <1>9, <1>10, <2>2, <2>7, <2>8, <2>9, <2>10, EditGoesOn
<1>15. CASE k.step = 3
  <2>1. PICK k2 : k2 = Memory!Idle
    OBVIOUS
  <2>2. k2 \in Edit /\ k2.op = "none" /\ ~Edits(k2, a)
    BY <2>1, IdleIsAnEdit
  <2>3. PICK rest : rest = Memory!RemoveAt(ids, i)
    OBVIOUS
  <2>4. PICK s2 : s2 = [s EXCEPT !.ids = rest]
    OBVIOUS
  <2>5. Shrunk(ids, values, i, H)
    BY <1>5, <1>6, <1>11, <1>12, <1>13, <1>15 DEF EditIsSound
  <2>6. rest \in Seq(Nat) /\ Kept(rest, values, H)
    BY <2>3, <2>5, Removing
  <2>7. s2 \in Record /\ s2.next = s.next /\ s2.ids = rest /\ s2.values = values
    BY <1>6, <1>12, <2>4, <2>6 DEF Record
  <2>8. call' = [call EXCEPT ![c] = k2] /\ store' = [store EXCEPT ![a] = s2]
    BY <1>1, <1>2, <1>3, <1>11, <1>13, <1>15, <2>1, <2>3, <2>4 DEF Memory!Delete, Memory!Finish
  <2> QED
    BY <1>6, <1>8, <1>9, <1>10, <2>2, <2>6, <2>7, <2>8, EditGoesOn
<1> QED
  BY <1>5, <1>14, <1>15

LEMMA LedgerGoesOn ==
    ASSUME OneEditAtATime, LedgerInv, [Memory!Next]_(Memory!vars)
    PROVE  LedgerInv'
<1>1. ReplacesWhatItRead'
  BY MemoryGoesOn DEF OneEditAtATime, LedgerInv
<1>2. ASSUME UNCHANGED <<store, memory, handed, made, call, snapshot>> PROVE LedgerInv'
  BY <1>1, <1>2 DEF LedgerInv, LedgerTypes
<1>3. CASE UNCHANGED Memory!vars
  BY <1>2, <1>3 DEF Memory!vars, Memory!storeVars, Memory!fileVars
<1>4. ASSUME NEW a \in Actors, Memory!Open(a) \/ Memory!CloseReads(a) \/ Memory!CloseReplaces(a) \/ Memory!Exit(a)
                                  \/ Memory!ExternalEdit(a)
      PROVE  LedgerInv'
  BY <1>1, <1>4, Opening, Closing, Leaving, EditedByHand
<1>5. ASSUME NEW a \in Actors, NEW n \in 0..1, Memory!Save(a, n) PROVE LedgerInv'
  BY <1>1, <1>5, Saving
<1>6. ASSUME NEW c \in Calls, NEW a \in Actors, Memory!Start(c, a) PROVE LedgerInv'
  BY <1>1, <1>6, Starting
<1>7. ASSUME NEW c \in Calls, Memory!Add(c) \/ Memory!Locate(c) \/ Memory!Update(c) \/ Memory!Delete(c) PROVE LedgerInv'
  BY <1>1, <1>7, Adding, Locating, Updating, Deleting
<1>8. ASSUME NEW t \in Traces, Memory!Emit(t) \/ Memory!Emitted(t) PROVE LedgerInv'
  BY <1>2, <1>8 DEF Memory!Emit, Memory!Emitted, Memory!storeVars, Memory!fileVars
<1> QED
  BY <1>3, <1>4, <1>5, <1>6, <1>7, <1>8 DEF Memory!Next

LEMMA LevelNames == ASSUME LedgerInv PROVE Memory!IdNamesItsEntry
<1> SUFFICES ASSUME NEW a \in Actors, NEW p \in handed[a], NEW k \in 1..Len(store[a].ids),
                    store[a].ids[k] = p[1], ~Memory!InUse(a)
             PROVE  store[a].values[k] = p[2]
  BY DEF Memory!IdNamesItsEntry
<1>1. Sound(a, store[a], memory[a], handed[a], call, snapshot[a].read) /\ store[a].next \in Nat
  BY DEF LedgerInv, LedgerTypes, Record
<1>2. Memory!Opened(a)
  <2>1. ASSUME store[a].next = 0 PROVE FALSE
    <3>1. store[a].ids = <<>>
      BY <1>1, <2>1 DEF Sound, Memory!Absent
    <3> QED
      BY <3>1
  <2> QED
    BY <1>1, <2>1 DEF Memory!Opened
<1>3. Level(store[a], handed[a])
  BY <1>2, NotInUse
<1>4. PICK q \in handed[a] : q = <<store[a].ids[k], store[a].values[k]>>
  BY <1>3 DEF Level, Kept
<1>5. q[1] = p[1] /\ q[2] = store[a].values[k]
  BY <1>4
<1>6. q = p
  BY <1>3, <1>5 DEF Level, EachOnce
<1> QED
  BY <1>5, <1>6

\* An id names the entry it was handed out for, or nothing, as long as one
\* tool call edits a backend at a time and one process closes at a time:
\* whatever is deleted, replaced, edited by hand, reopened or rebuilt.
THEOREM IdAlwaysNamesItsEntry ==
    ASSUME OneEditAtATime PROVE Memory!Spec => []Memory!IdNamesItsEntry
BY LevelNames, LedgerStarts, LedgerGoesOn, PTL DEF Memory!Spec

----------------------------------------------------------------------------
(* The recall of a view. *)

ToldByOne ==
    /\ trace = [t \in Recalls |-> trace[t]]
    /\ ~emitted /\ (\A t \in Recalls : trace[t] # "emitting") => told = {}
    /\ told = {} \/ \E t \in Recalls : told = {t}

LEMMA RecallStarts == ASSUME View!Init PROVE ToldByOne
BY DEF View!Init, ToldByOne

LEMMA RecallGoesOn ==
    ASSUME ToldByOne, [View!Next]_(View!vars)
    PROVE  ToldByOne'
<1> USE DEF ToldByOne, View!viewVars
<1>1. ASSUME UNCHANGED <<emitted, trace, told>> PROVE ToldByOne'
  BY <1>1
<1>2. ASSUME NEW t \in Recalls, View!Emit(t) PROVE ToldByOne'
  BY <1>2 DEF View!Emit
<1>3. ASSUME NEW t \in Recalls, View!Emitted(t) PROVE ToldByOne'
  BY <1>3 DEF View!Emitted
<1>4. ASSUME NEW a \in Actors, View!Open(a) \/ View!CloseReads(a) \/ View!CloseReplaces(a) \/ View!Exit(a)
                                  \/ View!ExternalEdit(a) \/ \E n \in 0..1 : View!Save(a, n)
      PROVE  UNCHANGED <<emitted, trace, told>>
  BY <1>4 DEF View!Open, View!CloseReads, View!CloseReplaces, View!Exit, View!ExternalEdit, View!Save
<1>5. ASSUME NEW c \in Calls, (\E a \in Actors : View!Start(c, a)) \/ View!Add(c) \/ View!Locate(c)
                                  \/ View!Update(c) \/ View!Delete(c)
      PROVE  UNCHANGED <<emitted, trace, told>>
  BY <1>5 DEF View!Start, View!Add, View!Locate, View!Update, View!Delete
<1> QED
  BY <1>1, <1>2, <1>3, <1>4, <1>5 DEF View!Next, View!vars

LEMMA OneHasIt == ASSUME ToldByOne PROVE View!RecallLoggedOnce
<1>1. Cardinality(told) <= 1
  <2>1. CASE told = {}
    BY <2>1, FS_EmptySet
  <2>2. CASE told # {}
    <3>1. PICK t : told = {t}
      BY <2>2 DEF ToldByOne
    <3> QED
      <4>1. Cardinality({t}) = 1
        BY FS_Singleton
      <4> QED
        BY <3>1, <4>1
  <2> QED
    BY <2>1, <2>2
<1> QED
  BY <1>1 DEF View!RecallLoggedOnce, View!Cardinality, Cardinality

\* However many traced threads consume a view, its recall is logged by one.
THEOREM RecallAlwaysLoggedOnce == View!Spec => []View!RecallLoggedOnce
BY OneHasIt, RecallStarts, RecallGoesOn, PTL DEF View!Spec

----------------------------------------------------------------------------
(* Errors.  An exception is raised at one process and is known by its name *)
(* from there on: where it was raised it is itself, and elsewhere it is    *)
(* what the frame it came in says.                                         *)

KeptKind(kind) ==
    /\ kind \in Errors!ErrorKinds
    /\ kind = origin.kind \/ (kind = "internal" /\ origin.kind \notin Errors!ErrorKinds)

RaisedSomewhere ==
    /\ at \in {1, 2, 3} /\ lost \in BOOLEAN
    /\ origin = Errors!NoError =>
           exc = Errors!NoError \/ lost
    /\ origin = Errors!NoError => frame = Errors!NoError /\ (at = 1 \/ lost)
    /\ origin # Errors!NoError =>
           /\ origin = [class |-> origin.class, at |-> origin.at, kind |-> origin.kind]
           /\ origin.class \in DOMAIN Errors!Mro /\ origin.at \in {1, 2} /\ at >= origin.at
    /\ lost => at = 3 /\ exc.class = "ConnectionClosedError" /\ frame = Errors!NoError
    /\ at = 3 => frame = Errors!NoError /\ exc # Errors!NoError

ItselfOrRebuilt ==
    exc # Errors!NoError /\ ~lost =>
        \/ at = origin.at /\ exc = [class |-> origin.class, quotes |-> exc.quotes]
        \/ /\ at # origin.at /\ exc = [class |-> origin.class, quotes |-> exc.quotes]
           /\ origin.class \in Errors!KnownExceptions
        \/ /\ at # origin.at /\ KeptKind(exc.kind)
           /\ exc = [class |-> "RemoteError", quotes |-> exc.quotes, type |-> origin.class, kind |-> exc.kind]

FramedAsRaised ==
    frame # Errors!NoError /\ ~lost =>
        /\ frame = [class |-> origin.class, quotes |-> frame.quotes, kind |-> frame.kind]
        /\ \/ at = origin.at /\ frame.kind = origin.kind
           \/ at # origin.at /\ origin.class \in Errors!KnownExceptions
           \/ at # origin.at /\ KeptKind(frame.kind)

ErrorsInv == RaisedSomewhere /\ ItselfOrRebuilt /\ FramedAsRaised

LEMMA ErrorsStart == ASSUME Errors!Init PROVE ErrorsInv
<1>1. at = 1 /\ exc = Errors!NoError /\ frame = Errors!NoError /\ origin = Errors!NoError /\ lost = FALSE
  BY DEF Errors!Init, Errors!Worker
<1>2. ~lost /\ lost \in BOOLEAN
  BY <1>1
<1>3. at \in {1, 2, 3} /\ at # 3
  BY <1>1
<1>4. RaisedSomewhere
  BY <1>1, <1>2, <1>3, Zenon DEF RaisedSomewhere
<1>5. ItselfOrRebuilt /\ FramedAsRaised
  BY <1>1 DEF ItselfOrRebuilt, FramedAsRaised
<1> QED
  BY <1>4, <1>5 DEF ErrorsInv

\* No class that can be raised is called RemoteError or goes without a name.
LEMMA ClassNames ==
    /\ "RemoteError" \notin DOMAIN Errors!Mro /\ "none" \notin DOMAIN Errors!Mro
    /\ "NotImplementedError" \in DOMAIN Errors!Mro /\ "ConnectionClosedError" \in DOMAIN Errors!Mro
    /\ "RemoteError" \notin Errors!KnownExceptions /\ "ConnectionClosedError" \notin Errors!KnownExceptions
    /\ "internal" \in Errors!ErrorKinds
BY DEF Errors!Mro, Errors!KnownExceptions, Errors!ErrorKinds

LEMMA ErrorsGoOn ==
    ASSUME ErrorsInv, [Errors!Next]_(Errors!vars)
    PROVE  ErrorsInv'
<1> USE ClassNames DEF ErrorsInv, RaisedSomewhere, ItselfOrRebuilt, FramedAsRaised, Errors!NoError, KeptKind,
            Errors!Worker, Errors!Coordinator, Errors!Client, Errors!Raised, Errors!Unsent
<1>1. ASSUME UNCHANGED <<at, exc, frame, origin, lost>> PROVE ErrorsInv'
  BY <1>1
<1>2. ASSUME NEW p \in {1, 2}, NEW c \in DOMAIN Errors!Mro, Errors!Raise(p, c) PROVE ErrorsInv'
  BY <1>2 DEF Errors!Raise
<1>3. ASSUME NEW p \in {1, 2}, Errors!Unanswered(p) PROVE ErrorsInv'
  BY <1>3 DEF Errors!Unanswered
<1>4. ASSUME Errors!WorkerGoes PROVE ErrorsInv'
  BY <1>4 DEF Errors!WorkerGoes
<1>5. ASSUME Errors!HandleCall PROVE ErrorsInv'
  BY <1>5 DEF Errors!HandleCall, Errors!ErrorFrame
<1>6. ASSUME Errors!Dispatch PROVE ErrorsInv'
  BY <1>6 DEF Errors!Dispatch, Errors!RehydrateError, Errors!RemoteError, Errors!CoerceErrorKind
<1>7. ASSUME Errors!ConnectionCloses PROVE ErrorsInv'
  BY <1>7 DEF Errors!ConnectionCloses
<1>8. ASSUME NEW p, NEW c, NEW k, Errors!RegisterErrorKind(p, c, k) PROVE UNCHANGED <<at, exc, frame, origin, lost>>
  BY <1>8 DEF Errors!RegisterErrorKind
<1> QED
  BY <1>1, <1>2, <1>3, <1>4, <1>5, <1>6, <1>7, <1>8 DEF Errors!Next, Errors!vars

LEMMA NamesAreKept == ASSUME ErrorsInv PROVE Errors!ErrorsKeepTheirName
BY ClassNames DEF ErrorsInv, RaisedSomewhere, ItselfOrRebuilt, KeptKind, Errors!ErrorsKeepTheirName, Errors!Client,
       Errors!NoError

\* After however many hops the caller is told the class that was raised, or
\* its name with the kind its own process gave it, whatever the processes
\* between have registered.
THEOREM ErrorsAlwaysKeepTheirName == Errors!Spec => []Errors!ErrorsKeepTheirName
BY NamesAreKept, ErrorsStart, ErrorsGoOn, PTL DEF Errors!Spec

\* The kind an exception is given is that of the most derived of its classes
\* that is registered or declared.
LEMMA NearestIsTaken ==
    ASSUME NEW p, NEW c, NEW n \in DOMAIN Errors!Mro[c], n \in Nat, DOMAIN Errors!Mro[c] \subseteq Nat,
           Errors!KindAt(p, Errors!Mro[c][n]) # {},
           \A i \in DOMAIN Errors!Mro[c] : i < n => Errors!KindAt(p, Errors!Mro[c][i]) = {}
    PROVE  Errors!Classify(p, c) = CHOOSE k \in Errors!KindAt(p, Errors!Mro[c][n]) : TRUE
<1>1. PICK named : named = {i \in DOMAIN Errors!Mro[c] : Errors!KindAt(p, Errors!Mro[c][i]) # {}}
  OBVIOUS
<1>2. n \in named /\ named \subseteq Nat /\ \A i \in named : n <= i
  BY <1>1
<1>3. Errors!Min(named) = n
  BY <1>2 DEF Errors!Min
<1> QED
  BY <1>1, <1>2, <1>3 DEF Errors!Classify

\* A class comes first among its own, and has one base at most.
LEMMA OwnClassFirst ==
    \A c \in DOMAIN Errors!Mro :
        /\ DOMAIN Errors!Mro[c] \subseteq {1, 2}
        /\ 1 \in DOMAIN Errors!Mro[c] /\ Errors!Mro[c][1] = c
BY DEF Errors!Mro

LEMMA RegistrationShadows == Errors!RegistrationWins
<1>1. ASSUME NEW p \in Errors!Processes, NEW c \in DOMAIN Errors!Mro, NEW nearest,
             nearest = {i \in DOMAIN Errors!Mro[c] : Errors!Mro[c][i] \in DOMAIN registry[p]}
      PROVE  /\ c \in DOMAIN registry[p] => Errors!Classify(p, c) = registry[p][c]
             /\ nearest # {} /\ (\A i \in 1 .. Errors!Min(nearest) : Errors!Mro[c][i] \notin DOMAIN Errors!Declared)
                  => Errors!Classify(p, c) = registry[p][Errors!Mro[c][Errors!Min(nearest)]]
  <2>1. DOMAIN Errors!Mro[c] \subseteq Nat /\ \A i \in DOMAIN Errors!Mro[c] : i >= 1
    BY OwnClassFirst
  <2>2. ASSUME NEW n \in DOMAIN Errors!Mro[c], Errors!Mro[c][n] \in DOMAIN registry[p],
               \A i \in DOMAIN Errors!Mro[c] : i < n => Errors!KindAt(p, Errors!Mro[c][i]) = {}
        PROVE  Errors!Classify(p, c) = registry[p][Errors!Mro[c][n]]
    <3>1. Errors!KindAt(p, Errors!Mro[c][n]) = {registry[p][Errors!Mro[c][n]]}
      BY <2>2 DEF Errors!KindAt
    <3>2. Errors!Classify(p, c) = CHOOSE k \in Errors!KindAt(p, Errors!Mro[c][n]) : TRUE
      <4>1. n \in Nat /\ Errors!KindAt(p, Errors!Mro[c][n]) # {}
        BY <2>1, <3>1
      <4> QED
        BY <2>1, <2>2, <4>1, NearestIsTaken
    <3> QED
      BY <3>1, <3>2
  <2>3. ASSUME c \in DOMAIN registry[p] PROVE Errors!Classify(p, c) = registry[p][c]
    <3>1. 1 \in DOMAIN Errors!Mro[c] /\ Errors!Mro[c][1] = c
      BY OwnClassFirst
    <3>2. \A i \in DOMAIN Errors!Mro[c] : ~(i < 1)
      BY <2>1
    <3> QED
      BY <2>2, <2>3, <3>1, <3>2
  <2>4. ASSUME nearest # {}, \A i \in 1 .. Errors!Min(nearest) : Errors!Mro[c][i] \notin DOMAIN Errors!Declared
        PROVE  Errors!Classify(p, c) = registry[p][Errors!Mro[c][Errors!Min(nearest)]]
    <3>1. PICK n : n = Errors!Min(nearest)
      OBVIOUS
    <3>2. n \in nearest /\ \A i \in nearest : n <= i
      <4>1. nearest \subseteq {1, 2} /\ nearest # {}
        BY <1>1, <2>4, OwnClassFirst
      <4>2. \E m \in nearest : \A i \in nearest : m <= i
        <5>1. CASE 1 \in nearest
          BY <4>1, <5>1
        <5>2. CASE 1 \notin nearest
          <6>1. nearest = {2}
            BY <4>1, <5>2
          <6> QED
            BY <6>1
        <5> QED
          BY <5>1, <5>2
      <4> QED
        BY <3>1, <4>2 DEF Errors!Min
    <3>3. ASSUME NEW i \in DOMAIN Errors!Mro[c], i < n PROVE Errors!KindAt(p, Errors!Mro[c][i]) = {}
      <4>1. i \notin nearest /\ i \in 1..n
        BY <1>1, <2>1, <3>2, <3>3
      <4>2. Errors!Mro[c][i] \notin DOMAIN registry[p] /\ Errors!Mro[c][i] \notin DOMAIN Errors!Declared
        BY <1>1, <2>4, <3>1, <4>1
      <4> QED
        BY <4>2 DEF Errors!KindAt
    <3> QED
      BY <1>1, <2>2, <3>1, <3>2, <3>3
  <2> QED
    BY <2>3, <2>4
<1> QED
  BY <1>1 DEF Errors!RegistrationWins

\* A registration shadows the bases of its class and its own declaration, in
\* whatever order classes were registered and at whatever process.
THEOREM RegistrationAlwaysWins == Errors!Spec => []Errors!RegistrationWins
BY RegistrationShadows, PTL
----------------------------------------------------------------------------
(* The type invariants, where they say more than the proofs above needed.  *)

\* A count the manifest and the logs take their numbers from.
ManifestIsCounted == manifest.number <= saves

LEMMA ManifestStarts == ASSUME Session!Init PROVE ManifestIsCounted
BY DEF Session!Init, Session!NoManifest, ManifestIsCounted

LEMMA ManifestGoesOn ==
    ASSUME SessionInv, ManifestIsCounted, [Session!Next]_(Session!vars)
    PROVE  ManifestIsCounted'
<1> USE DEF ManifestIsCounted, SessionInv, SessionTypes, SavedSoFar
<1>1. ASSUME UNCHANGED manifest, saves' = saves \/ saves' = saves + 1 PROVE ManifestIsCounted'
  BY <1>1
<1>2. ASSUME Session!WriteManifest PROVE ManifestIsCounted'
  BY <1>2 DEF Session!WriteManifest, Session!NoSave
<1> QED
  BY <1>1, <1>2 DEF Session!Next, Session!vars, Session!saveVars, Session!loadVars, Session!Save,
     Session!WriteLog, Session!Crash, Session!Load, Session!ReadLog, Session!Loaded

LEMMA SessionTyped == ASSUME SessionInv, ManifestIsCounted PROVE Session!TypeOK
BY DEF SessionInv, SessionTypes, ManifestIsCounted, Session!TypeOK

RequestStages == {"unsent", "sent", "inside", "refused", "done", "dropped"}

ToolsAreCounted ==
    /\ up \subseteq socks
    /\ \A t \in DOMAIN byThread : byThread[t] \in 1..minted
    /\ request = [q \in Requests |-> request[q]]
    /\ \A q \in Requests : /\ request[q].stage \in RequestStages
                           /\ request[q] = [stage |-> request[q].stage, token |-> request[q].token,
                                            as |-> request[q].as]

LEMMA TokenCountStarts == ASSUME Tools!Init PROVE ToolsAreCounted
BY DEF Tools!Init, Tools!Unsent, RequestStages, ToolsAreCounted

LEMMA TokenCountGoesOn ==
    ASSUME ToolInv, ToolsAreCounted, [Tools!Next]_(Tools!vars)
    PROVE  ToolsAreCounted'
<1> USE DEF ToolInv, ToolTypes, ToolsAreCounted, Tools!serverVars, Tools!tokenVars
<1>1. ASSUME UNCHANGED <<byThread, minted, request>>, up' \subseteq socks' PROVE ToolsAreCounted'
  BY <1>1
<1>2. ASSUME NEW c \in Callers, Tools!Start(c) \/ Tools!ServerUp(c) \/ Tools!Started(c) \/ Tools!StartFails(c)
      PROVE  ToolsAreCounted'
  BY <1>1, <1>2 DEF Tools!Start, Tools!ServerUp, Tools!Started, Tools!StartFails
<1>3. ASSUME NEW c \in Callers, Tools!Stop(c) PROVE ToolsAreCounted'
  BY <1>3 DEF Tools!Stop
<1>4. ASSUME NEW c \in Callers, Tools!Stopped(c) PROVE ToolsAreCounted'
  <2>1. \A q \in Requests : request'[q].stage \in RequestStages
    BY <1>4 DEF Tools!Stopped, RequestStages
  <2>2. request' = [q \in Requests |-> request'[q]]
    BY <1>4 DEF Tools!Stopped
  <2> QED
    BY <1>4, <2>1, <2>2 DEF Tools!Stopped
<1>5. ASSUME NEW t \in Threads, Tools!Register(t) PROVE ToolsAreCounted'
  <2>1. minted' = minted + 1 /\ \A u \in DOMAIN byThread' : byThread'[u] \in 1..minted'
    BY <1>5 DEF Tools!Register
  <2> QED
    BY <1>5, <2>1 DEF Tools!Register
<1>6. ASSUME NEW t \in Threads, Tools!Deregister(t) PROVE ToolsAreCounted'
  BY <1>6 DEF Tools!Deregister
<1>7. ASSUME NEW q \in Requests, NEW k, Tools!Send(q, k) PROVE ToolsAreCounted'
  BY <1>7 DEF Tools!Send, RequestStages
<1>8. ASSUME NEW q \in Requests, Tools!Route(q) PROVE ToolsAreCounted'
  <2>1. PICK r : request' = [request EXCEPT ![q] = r] /\ r.stage \in {"refused", "inside"}
    <3>1. request[q] = [stage |-> request[q].stage, token |-> request[q].token, as |-> request[q].as]
      OBVIOUS
    <3>2. [request[q] EXCEPT !.stage = "refused"].stage = "refused"
      BY <3>1
    <3>3. \A t : [request[q] EXCEPT !.stage = "inside", !.as = t].stage = "inside"
      BY <3>1
    <3>4. \/ request' = [request EXCEPT ![q] = [request[q] EXCEPT !.stage = "refused"]]
          \/ \E t : request' = [request EXCEPT ![q] = [request[q] EXCEPT !.stage = "inside", !.as = t]]
      BY <1>8 DEF Tools!Route
    <3> QED
      BY <3>2, <3>3, <3>4
  <2> QED
    BY <1>8, <2>1 DEF Tools!Route, RequestStages
<1>9. ASSUME NEW q \in Requests, Tools!Answer(q) PROVE ToolsAreCounted'
  BY <1>9 DEF Tools!Answer, RequestStages
<1> QED
  BY <1>1, <1>2, <1>3, <1>4, <1>5, <1>6, <1>7, <1>8, <1>9 DEF Tools!Next, Tools!vars

LEMMA ToolsTyped == ASSUME ToolInv, ToolsAreCounted PROVE Tools!TypeOK
BY DEF ToolInv, ToolTypes, RegistriesAgree, ToolsAreCounted, RequestStages, Tools!TypeOK

\* What a callback may nest is bounded, and a subscriber asks for one thread or all.
HandingIsBounded ==
    /\ Len(handing) <= DepthBound + 1
    /\ filter \in [Subscribers -> Threads \cup {All}]

LEMMA HandingStarts == ASSUME DepthBound \in Nat, Threads # {}, Events!Init PROVE HandingIsBounded
<1>1. Events!Reading \in Threads
  BY DEF Events!Reading
<1> QED
  BY <1>1 DEF Events!Init, HandingIsBounded

LEMMA HandingGoesOn ==
    ASSUME DepthBound \in Nat, ToldInv, HandingIsBounded, [Events!Next]_(Events!vars)
    PROVE  HandingIsBounded'
<1> USE DEF HandingIsBounded, ToldInv, ToldTypes, Events!subVars
<1>1. handing \in Seq(Handed) /\ Len(handing) \in Nat
  OBVIOUS
<1>2. ASSUME UNCHANGED <<handing, filter>> PROVE HandingIsBounded'
  BY <1>2
<1>3. ASSUME NEW t, Events!AppendEvent(t), Len(handing) <= DepthBound PROVE HandingIsBounded'
  <2>1. PICK e : handing' = <<e>> \o handing
    BY <1>3 DEF Events!AppendEvent, Events!Handed
  <2>2. Len(handing') = Len(handing) + 1
    BY <1>1, <2>1
  <2> QED
    BY <1>1, <1>3, <2>2 DEF Events!AppendEvent
<1>4. ASSUME Events!Produce PROVE HandingIsBounded'
  <2>1. PICK t \in known : Events!AppendEvent(t)
    BY <1>4 DEF Events!Produce
  <2>2. Len(handing) = 0
    BY <1>4 DEF Events!Produce
  <2> QED
    BY <1>3, <2>1, <2>2
<1>5. ASSUME Events!Nested PROVE HandingIsBounded'
  BY <1>3, <1>5 DEF Events!Nested
<1>6. ASSUME Events!Callback PROVE HandingIsBounded'
  <2>1. PICK e : handing' = <<e>> \o Tail(handing)
    BY <1>6 DEF Events!Callback
  <2>2. handing # <<>>
    BY <1>6 DEF Events!Callback
  <2>3. Len(handing') = Len(handing)
    BY <1>1, <2>1, <2>2
  <2> QED
    BY <1>6, <2>3 DEF Events!Callback
<1>7. ASSUME Events!Return PROVE HandingIsBounded'
  <2>1. handing # <<>> /\ handing' = Tail(handing)
    BY <1>7 DEF Events!Return
  <2>2. Len(handing') = Len(handing) - 1
    BY <1>1, <2>1
  <2> QED
    BY <1>1, <1>7, <2>2 DEF Events!Return
<1>8. ASSUME NEW s, Events!On(s) \/ Events!Unsubscribe(s) PROVE HandingIsBounded'
  BY <1>2, <1>8 DEF Events!On, Events!Unsubscribe
<1>9. ASSUME NEW t, NEW u, Events!SpawnSeeded(t, u) \/ \E cut : Events!CopyEvents(t, u, cut)
      PROVE  HandingIsBounded'
  BY <1>2, <1>9 DEF Events!SpawnSeeded, Events!CopyEvents
<1>10. ASSUME NEW limit, Events!GetEvents(limit) PROVE HandingIsBounded'
  BY <1>2, <1>10 DEF Events!GetEvents
<1> QED
  BY <1>2, <1>4, <1>5, <1>6, <1>7, <1>8, <1>9, <1>10 DEF Events!Next, Events!vars

LEMMA EventsTyped == ASSUME EventsInv, ToldInv, HandingIsBounded PROVE Events!TypeOK
<1>1. Events!ToSet(active) \subseteq Subscribers
  <2>1. active \in Seq(Subscribers)
    BY DEF ToldInv, ToldTypes
  <2> QED
    BY <2>1 DEF Events!ToSet
<1> QED
  BY <1>1 DEF EventsInv, LogsGrow, HandingIsBounded, Events!TypeOK

\* A registered kind is of this build's vocabulary or the newer one's.
KindsAreKnown ==
    /\ registered \in 0 .. RegisterBound
    /\ registry = [p \in Errors!Processes |-> registry[p]]
    /\ \A p \in Errors!Processes : \A c \in DOMAIN registry[p] :
           registry[p][c] \in Errors!ErrorKinds \cup {Errors!NewerKind}

LEMMA KindsStart == ASSUME RegisterBound \in Nat, Errors!Init PROVE KindsAreKnown
<1>1. \A p \in Errors!Processes : registry[p] = Errors!Seeded
  BY DEF Errors!Init
<1>2. \A c \in DOMAIN Errors!Seeded : Errors!Seeded[c] \in Errors!ErrorKinds
  BY DEF Errors!Seeded, Errors!ErrorKinds
<1> QED
  BY <1>1, <1>2 DEF Errors!Init, KindsAreKnown

LEMMA KindsGoOn ==
    ASSUME RegisterBound \in Nat, KindsAreKnown, [Errors!Next]_(Errors!vars)
    PROVE  KindsAreKnown'
<1>1. ASSUME UNCHANGED <<registry, registered>> PROVE KindsAreKnown'
  BY <1>1 DEF KindsAreKnown
<1>2. ASSUME NEW p \in Errors!Processes, NEW c, NEW k \in {"model_unavailable", Errors!NewerKind},
             Errors!RegisterErrorKind(p, c, k)
      PROVE  KindsAreKnown'
  <2>1. k \in Errors!ErrorKinds \cup {Errors!NewerKind}
    BY DEF Errors!ErrorKinds
  <2>2. registered' \in 0 .. RegisterBound
    BY <1>2 DEF Errors!RegisterErrorKind, KindsAreKnown
  <2>3. PICK more : more = [d \in DOMAIN registry[p] \cup {c} |-> IF d = c THEN k ELSE registry[p][d]]
    OBVIOUS
  <2>4. registry' = [registry EXCEPT ![p] = more]
    BY <1>2, <2>3 DEF Errors!RegisterErrorKind
  <2>5. \A d \in DOMAIN more : more[d] \in Errors!ErrorKinds \cup {Errors!NewerKind}
    BY <2>1, <2>3 DEF KindsAreKnown
  <2> QED
    BY <2>2, <2>4, <2>5 DEF KindsAreKnown
<1> QED
  BY <1>1, <1>2 DEF Errors!Next, Errors!vars, Errors!Raise, Errors!Unanswered, Errors!WorkerGoes,
     Errors!HandleCall, Errors!Dispatch, Errors!ConnectionCloses

LEMMA ErrorsTyped == ASSUME ErrorsInv, KindsAreKnown PROVE Errors!TypeOK
<1>1. exc.class = "RemoteError" => exc.kind \in Errors!ErrorKinds
  BY ClassNames DEF ErrorsInv, RaisedSomewhere, ItselfOrRebuilt, KeptKind, Errors!NoError
<1> QED
  BY <1>1 DEF ErrorsInv, RaisedSomewhere, KindsAreKnown, Errors!TypeOK, Errors!Processes, Errors!Worker,
     Errors!Coordinator, Errors!Client

\* The bounds of the model, and an edit is of an id that was handed out before.
EditsAreOfOldIds ==
    /\ made <= EntryBound + 1 /\ told \subseteq Traces
    /\ \A c \in Calls : call[c].op \in {"update", "remove"} => call[c].id < store[call[c].actor].next

LEMMA EditsStart == ASSUME EntryBound \in Nat, Memory!Init PROVE EditsAreOfOldIds
BY DEF Memory!Init, Memory!Idle, EditsAreOfOldIds

\* A step that starts no edit, and moves the counter of no actor that is edited.
LEMMA EditsStayOld ==
    ASSUME EditsAreOfOldIds, made' <= EntryBound + 1, told' \subseteq Traces,
           \A c \in Calls : call'[c].op \in {"update", "remove"} =>
               /\ call'[c].op = call[c].op /\ call'[c].id = call[c].id /\ call'[c].actor = call[c].actor
               /\ store'[call[c].actor].next = store[call[c].actor].next
    PROVE  EditsAreOfOldIds'
BY DEF EditsAreOfOldIds

LEMMA EditsGoOn ==
    ASSUME OneEditAtATime, EntryBound \in Nat, LedgerInv, EditsAreOfOldIds, [Memory!Next]_(Memory!vars)
    PROVE  EditsAreOfOldIds'
<1> USE DEF Memory!fileVars, Memory!viewVars
<1>1. /\ store \in [Actors -> Record] /\ call \in [Calls -> Edit] /\ made \in Nat
      /\ made <= EntryBound + 1 /\ told \subseteq Traces
      /\ \A c \in Calls : call[c].op # "none" => call[c].actor \in Actors /\ store[call[c].actor].next > 0
  <2>1. ASSUME NEW c \in Calls, call[c].op # "none" PROVE store[call[c].actor].next > 0
    <3>1. call[c].actor \in Actors /\ Edits(call[c], call[c].actor)
      BY <2>1 DEF LedgerInv, Edits
    <3> QED
      BY <3>1 DEF LedgerInv, Sound, EditIsSound
  <2> QED
    BY <2>1 DEF LedgerInv, LedgerTypes, EditsAreOfOldIds
<1>2. ASSUME UNCHANGED <<store, call, made>>, told' \subseteq Traces PROVE EditsAreOfOldIds'
  BY <1>1, <1>2, EditsStayOld
<1>3. ASSUME NEW a \in Actors, Memory!Open(a) \/ Memory!Exit(a) \/ \E n \in 0..1 : Memory!Save(a, n)
      PROVE  EditsAreOfOldIds'
  <2>1. \A c \in Calls : call[c].op # "none" => call[c].actor # a
    BY <1>1, <1>3 DEF Memory!Open, Memory!Exit, Memory!Save, Memory!Opened, Memory!InUse
  <2>2. \A b \in Actors \ {a} : store'[b] = store[b]
    BY <1>1, <1>3 DEF Memory!Open, Memory!Exit, Memory!Save
  <2>3. call' = call /\ told' = told
    BY <1>3 DEF Memory!Open, Memory!Exit, Memory!Save
  <2>4. made' <= EntryBound + 1
    BY <1>1, <1>3 DEF Memory!Open, Memory!Exit, Memory!Save
  <2> QED
    BY <1>1, <2>1, <2>2, <2>3, <2>4, EditsStayOld
<1>4. ASSUME NEW a \in Actors, Memory!CloseReads(a) \/ Memory!CloseReplaces(a) PROVE EditsAreOfOldIds'
  BY <1>1, <1>2, <1>4 DEF Memory!CloseReads, Memory!CloseReplaces, Memory!storeVars
<1>5. ASSUME NEW a \in Actors, Memory!ExternalEdit(a) PROVE EditsAreOfOldIds'
  <2>1. UNCHANGED <<store, call, told>> /\ made' <= EntryBound + 1
    BY <1>1, <1>5 DEF Memory!ExternalEdit
  <2> QED
    BY <1>1, <2>1, EditsStayOld
<1>6. ASSUME NEW c \in Calls, NEW a \in Actors, Memory!Start(c, a) PROVE EditsAreOfOldIds'
  <2>1. UNCHANGED <<store, told>> /\ made' <= EntryBound + 1 /\ Memory!Opened(a)
    BY <1>1, <1>6 DEF Memory!Start
  <2>2. Below(handed[a], store[a].next)
    BY <2>1 DEF LedgerInv, Sound, Memory!Opened
  <2>3. CASE \E p \in handed[a], o \in {"update", "remove"} :
               call' = [call EXCEPT ![c] = [op |-> o, actor |-> a, id |-> p[1], at |-> 0, step |-> 1]]
    <3>1. PICK p \in handed[a], o \in {"update", "remove"} :
               call' = [call EXCEPT ![c] = [op |-> o, actor |-> a, id |-> p[1], at |-> 0, step |-> 1]]
      BY <2>3
    <3>2. p[1] < store[a].next
      BY <2>2 DEF Below
    <3>3. call'[c].actor = a /\ call'[c].id < store[a].next /\ \A d \in Calls : d # c => call'[d] = call[d]
      BY <1>1, <3>1, <3>2
    <3> QED
      BY <1>1, <2>1, <3>3 DEF EditsAreOfOldIds
  <2>4. CASE call' = [call EXCEPT ![c] = [op |-> "add", actor |-> a, id |-> 0, at |-> made + 1, step |-> 1]]
    <3>1. call'[c].op = "add" /\ \A d \in Calls : d # c => call'[d] = call[d]
      BY <1>1, <2>4
    <3> QED
      BY <1>1, <2>1, <3>1 DEF EditsAreOfOldIds
  <2> QED
    BY <1>6, <2>3, <2>4 DEF Memory!Start
<1>7. ASSUME NEW c \in Calls, Memory!Add(c) PROVE EditsAreOfOldIds'
  <2>1. \A d \in Calls : d = c
    BY DEF OneEditAtATime
  <2>2. call[c].op = "add" /\ UNCHANGED <<made, told>>
    BY <1>7 DEF Memory!Add
  <2>3. call'[c].op \in {"add", "none"}
    <3>1. call[c] \in Edit
      BY <1>1
    <3>2. /\ \A i : [call[c] EXCEPT !.id = i, !.step = 2].op = "add"
          /\ [call[c] EXCEPT !.step = @ + 1].op = "add" /\ Memory!Idle.op = "none"
      BY <2>2, <3>1 DEF Edit, Memory!Idle
    <3>3. \/ \E i : call' = [call EXCEPT ![c] = [call[c] EXCEPT !.id = i, !.step = 2]]
          \/ call' = [call EXCEPT ![c] = [call[c] EXCEPT !.step = @ + 1]]
          \/ call' = [call EXCEPT ![c] = Memory!Idle]
      BY <1>1, <1>7 DEF Memory!Add, Memory!Step, Memory!Finish
    <3> QED
      BY <1>1, <3>2, <3>3
  <2> QED
    BY <1>1, <2>1, <2>2, <2>3, EditsStayOld
<1>8. ASSUME NEW c \in Calls, Memory!Locate(c) \/ Memory!Update(c) \/ Memory!Delete(c) PROVE EditsAreOfOldIds'
  <2>1. \/ call'[c].op = "none"
        \/ call'[c].op = call[c].op /\ call'[c].id = call[c].id /\ call'[c].actor = call[c].actor
    <3>1. call[c] \in Edit /\ Memory!Idle.op = "none"
      BY <1>1 DEF Memory!Idle
    <3>2. CASE call' = [call EXCEPT ![c] = Memory!Idle]
      BY <1>1, <3>1, <3>2
    <3>3. ASSUME NEW i, call' = [call EXCEPT ![c] = [call[c] EXCEPT !.at = i, !.step = 2]]
          PROVE  call'[c].op = call[c].op /\ call'[c].id = call[c].id /\ call'[c].actor = call[c].actor
      <4>1. call'[c] = [call[c] EXCEPT !.at = i, !.step = 2]
        BY <1>1, <3>3
      <4> QED
        BY <3>1, <4>1 DEF Edit
    <3>4. ASSUME call' = [call EXCEPT ![c] = [call[c] EXCEPT !.step = @ + 1]]
          PROVE  call'[c].op = call[c].op /\ call'[c].id = call[c].id /\ call'[c].actor = call[c].actor
      <4>1. call'[c] = [call[c] EXCEPT !.step = @ + 1]
        BY <1>1, <3>4
      <4> QED
        BY <3>1, <4>1 DEF Edit
    <3>5. \/ call' = [call EXCEPT ![c] = Memory!Idle]
          \/ \E i : call' = [call EXCEPT ![c] = [call[c] EXCEPT !.at = i, !.step = 2]]
          \/ call' = [call EXCEPT ![c] = [call[c] EXCEPT !.step = @ + 1]]
      BY <1>1, <1>8 DEF Memory!Locate, Memory!Update, Memory!Delete, Memory!Step, Memory!Finish
    <3> QED
      BY <3>2, <3>3, <3>4, <3>5
  <2>4. \A d \in Calls : d # c => call'[d] = call[d]
    BY <1>1, <1>8 DEF Memory!Locate, Memory!Update, Memory!Delete, Memory!Step, Memory!Finish
  <2>2. UNCHANGED <<made, told>>
    BY <1>8 DEF Memory!Locate, Memory!Update, Memory!Delete
  <2>3. \A a \in Actors : store'[a].next = store[a].next
    <3>1. CASE store' = store
      BY <3>1
    <3>2. ASSUME NEW a, NEW x, store' = [store EXCEPT ![a].values = x]
          PROVE  \A b \in Actors : store'[b].next = store[b].next
      BY <1>1, <3>2 DEF Record
    <3>6. ASSUME NEW a, NEW x, store' = [store EXCEPT ![a].ids = x]
          PROVE  \A b \in Actors : store'[b].next = store[b].next
      BY <1>1, <3>6 DEF Record
    <3>3. ASSUME NEW a, NEW i, NEW x, store' = [store EXCEPT ![a].values[i] = x]
          PROVE  \A b \in Actors : store'[b].next = store[b].next
      BY <1>1, <3>3 DEF Record
    <3>4. CASE Memory!Locate(c)
      BY <3>1, <3>4 DEF Memory!Locate
    <3>5. CASE Memory!Update(c)
      BY <3>3, <3>5 DEF Memory!Update
    <3>7. CASE Memory!Delete(c)
      <4>1. \/ \E x : store' = [store EXCEPT ![call[c].actor].values = x]
            \/ \E x : store' = [store EXCEPT ![call[c].actor].ids = x]
            \/ store' = store
        BY <3>7 DEF Memory!Delete
      <4> QED
        BY <3>1, <3>2, <3>6, <4>1
    <3> QED
      BY <1>8, <3>4, <3>5, <3>7
  <2> QED
    BY <1>1, <2>1, <2>2, <2>3, <2>4, EditsStayOld
<1>9. ASSUME NEW t \in Traces, Memory!Emit(t) \/ Memory!Emitted(t) PROVE EditsAreOfOldIds'
  BY <1>1, <1>2, <1>9 DEF Memory!Emit, Memory!Emitted, Memory!storeVars
<1> QED
  BY <1>1, <1>2, <1>3, <1>4, <1>5, <1>6, <1>7, <1>8, <1>9 DEF Memory!Next, Memory!vars, Memory!storeVars

LEMMA MemoryTyped ==
    ASSUME OneEditAtATime, LedgerInv, EditsAreOfOldIds PROVE Memory!TypeOK
<1>1. ASSUME NEW a \in Actors PROVE store[a].next \in Nat /\ \A i \in Memory!ToSet(store[a].ids) : i < store[a].next
  <2>1. PICK s \in Record : s = store[a]
    BY DEF LedgerInv, LedgerTypes
  <2>2. Sound(a, s, memory[a], handed[a], call, snapshot[a].read)
    BY <2>1 DEF LedgerInv
  <2>3. ASSUME NEW k \in 1..Len(s.ids) PROVE s.ids[k] < s.next
    <3>1. s.next # 0
      BY <2>2, <2>3 DEF Sound, Memory!Absent
    <3>2. s.next > 0 /\ Below(handed[a], s.next)
      BY <2>2, <3>1 DEF Sound, Record
    <3>3. ASSUME NEW v, <<s.ids[k], v>> \in handed[a] PROVE s.ids[k] < s.next
      <4>1. <<s.ids[k], v>>[1] < s.next
        BY <3>2, <3>3 DEF Below
      <4> QED
        BY <4>1
    <3>4. CASE \A c \in Calls : ~Half(call[c], a)
      BY <2>2, <3>2, <3>3, <3>4 DEF Sound, Kept
    <3>5. ASSUME NEW c \in Calls, Half(call[c], a) PROVE s.ids[k] < s.next
      <4>1. EditIsSound(call[c], s, handed[a]) /\ call[c].actor = a
        BY <2>2, <3>5 DEF Sound, Half, Edits
      <4>2. CASE call[c].op = "add" /\ call[c].step = 4
        BY <3>3, <4>1, <4>2 DEF EditIsSound, Grown
      <4>3. CASE call[c].op = "remove" /\ call[c].step = 3
        <5>1. /\ Shrunk(s.ids, s.values, call[c].at, handed[a]) /\ s.ids[call[c].at] = call[c].id
              /\ call[c].id < s.next
          BY <2>1, <4>1, <4>3 DEF EditIsSound, EditsAreOfOldIds
        <5>2. CASE k = call[c].at
          BY <5>1, <5>2
        <5>3. CASE k # call[c].at
          <6>1. \E l \in 1..Len(s.values) : k = Past(call[c].at, l)
            <7>1. call[c].at \in 1..Len(s.ids) /\ Len(s.values) = Len(s.ids) - 1 /\ Len(s.ids) \in Nat
              BY <5>1 DEF Shrunk, Record
            <7>2. CASE k < call[c].at
              <8>1. k \in 1..Len(s.values) /\ Past(call[c].at, k) = k
                BY <7>1, <7>2 DEF Past
              <8> QED
                BY <8>1
            <7>3. CASE k > call[c].at
              <8>1. k - 1 \in 1..Len(s.values) /\ Past(call[c].at, k - 1) = k
                BY <7>1, <7>3 DEF Past
              <8> QED
                BY <8>1
            <7> QED
              BY <5>3, <7>1, <7>2, <7>3
          <6> QED
            BY <3>3, <5>1, <6>1 DEF Shrunk
        <5> QED
          BY <5>2, <5>3
      <4> QED
        BY <3>5, <4>2, <4>3 DEF Half
    <3> QED
      BY <3>4, <3>5
  <2>4. s.ids \in Seq(Nat) /\ s.next \in Nat
    BY DEF Record
  <2>5. DOMAIN s.ids = 1..Len(s.ids)
    BY <2>4
  <2>6. \A i \in Memory!ToSet(s.ids) : i < s.next
    BY <2>3, <2>5 DEF Memory!ToSet
  <2> QED
    BY <2>1, <2>4, <2>6
<1> QED
  BY <1>1 DEF LedgerInv, LedgerTypes, Edit, EditsAreOfOldIds, Memory!TypeOK
==============================================================================
