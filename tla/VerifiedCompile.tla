--------------------------- MODULE VerifiedCompile ---------------------------
(***************************************************************************)
(* Verified compilation: tasks of several processes compile the same       *)
(* function. Each resolves the Lean toolchain, looks the artifact up in    *)
(* the shared cache, builds the Python bridge and, when nothing is cached, *)
(* synthesizes, checks and publishes the artifact. Three caches on disk,   *)
(* each guarded by a two-level lock: a thread lock of the process, then a  *)
(* file lock between processes.                                            *)
(*                                                                         *)
(* A task is a thread or an asyncio task: a place is <<cache, step>>. The  *)
(* toolchain and bridge steps run in a worker thread that is drained before*)
(* a cancellation goes on (run_in_thread).                                 *)
(***************************************************************************)
EXTENDS Integers, FiniteSets

CONSTANTS
    Processes, Tasks,
    ProcessOf,      \* task -> process
    Nobody,
    MaxAttempts,    \* retries of the synthesis
    MayCancel, MayCrash

Caches == {"toolchain", "artifact", "bridge"}
Final == {"done", "failed", "cancelled", "dead"}

VARIABLES
    at,         \* task -> <<cache, step>>, or <<"", one of Final or "idle">>
    local,      \* <<process, cache>> -> holder of the thread lock
    file,       \* cache -> holder of the file lock
    disk,       \* cache -> "missing" | "stale" (rejected when read) | "good"
    found,      \* tasks that read a good artifact
    attempts,   \* task -> failed attempts of its synthesis
    cancelled   \* tasks asked to stop while their worker thread drains

vars == <<at, local, file, disk, found, attempts, cancelled>>

Cache(t) == at[t][1]
Step(t) == at[t][2]
InThread(t) == Cache(t) \in {"toolchain", "bridge"}

-----------------------------------------------------------------------------

Init ==
    /\ at = [t \in Tasks |-> <<"", "idle">>]
    /\ local = [l \in Processes \X Caches |-> Nobody]
    /\ file = [c \in Caches |-> Nobody]
    /\ disk \in [Caches -> {"missing", "stale", "good"}]
    /\ found = {} /\ cancelled = {}
    /\ attempts = [t \in Tasks |-> 0]

\* compile(): resolve_runtime in a worker thread comes first.
Compile(t) ==
    /\ at[t] = <<"", "idle">>
    /\ at' = [at EXCEPT ![t] = <<"toolchain", "local">>]
    /\ UNCHANGED <<local, file, disk, found, attempts, cancelled>>

\* The thread lock: waited for (sync) or polled (async).
AcquireLocal(t) ==
    /\ Step(t) = "local"
    /\ LET l == <<ProcessOf[t], Cache(t)>> IN
       /\ local[l] = Nobody
       /\ local' = [local EXCEPT ![l] = t]
    /\ at' = [at EXCEPT ![t][2] = "file"]
    /\ UNCHANGED <<file, disk, found, attempts, cancelled>>

\* flock, polled or waited for.
AcquireFile(t) ==
    /\ Step(t) = "file"
    /\ file[Cache(t)] = Nobody
    /\ file' = [file EXCEPT ![Cache(t)] = t]
    /\ at' = [at EXCEPT ![t][2] = "look"]
    /\ UNCHANGED <<local, disk, found, attempts, cancelled>>

\* Mutant: the thread lock is taken outside the try block.
ForgetsThreadLock(t) ==
    /\ local' = IF Step(t) = "file" THEN local
                ELSE [l \in DOMAIN local |-> IF local[l] = t THEN Nobody ELSE local[l]]
    /\ file' = [c \in Caches |-> IF file[c] = t THEN Nobody ELSE file[c]]

\* The finally blocks on the way out of every lock the task is in.
ReleaseAll(t) ==
    /\ local' = [l \in DOMAIN local |-> IF local[l] = t THEN Nobody ELSE local[l]]
    /\ file' = [c \in Caches |-> IF file[c] = t THEN Nobody ELSE file[c]]

\* An exception or a cancellation leaves compile().
Leave(t) ==
    /\ ReleaseAll(t)
    /\ at' = [at EXCEPT ![t] = <<"", IF t \in cancelled THEN "cancelled" ELSE "failed">>]
    /\ cancelled' = cancelled \ {t}
    /\ UNCHANGED <<disk, found, attempts>>

\* The deadline of setup and of preflight; the artifact's lock has none.
TimesOut(t) ==
    /\ InThread(t) /\ Step(t) \in {"local", "file"}
    /\ Leave(t)

\* Out of one lock: what compile() does next, unless it was cancelled meanwhile.
Release(t, c, next) ==
    /\ local' = [local EXCEPT ![<<ProcessOf[t], c>>] = Nobody]
    /\ file' = [file EXCEPT ![c] = Nobody]
    /\ at' = [at EXCEPT ![t] = next]

\* After the toolchain comes the artifact's lock; after the bridge the cached
\* artifact is taken, or the model is asked.
GoOn(t) ==
    \/ /\ Cache(t) = "toolchain" /\ t \notin cancelled
       /\ Release(t, "toolchain", <<"artifact", "local">>)
       /\ UNCHANGED <<disk, found, attempts, cancelled>>
    \/ /\ Cache(t) = "bridge" /\ t \notin cancelled /\ t \in found
       /\ ReleaseAll(t)
       /\ at' = [at EXCEPT ![t] = <<"", "done">>]
       /\ UNCHANGED <<disk, found, attempts, cancelled>>
    \/ /\ Cache(t) = "bridge" /\ t \notin cancelled /\ t \notin found
       /\ Release(t, "bridge", <<"artifact", "ask">>)
       /\ UNCHANGED <<disk, found, attempts, cancelled>>
    \/ t \in cancelled /\ Leave(t)

\* resolve_toolchain, preflight: nothing to do if the cache is in order.
Look(t) ==
    /\ Step(t) = "look" /\ InThread(t)
    /\ \/ disk[Cache(t)] = "good" /\ GoOn(t)
       \/ /\ disk[Cache(t)] # "good"
          /\ at' = [at EXCEPT ![t][2] = "build"]
          /\ UNCHANGED <<local, file, disk, found, attempts, cancelled>>

\* Mutant: the cache is read before its lock is taken.
ReadUnlocked(t) ==
    \/ /\ Step(t) = "local" /\ Cache(t) = "artifact" /\ disk["artifact"] = "good" /\ t \notin found
       /\ found' = found \cup {t}
       /\ UNCHANGED <<at, local, file, disk, attempts, cancelled>>
    \/ /\ at[t] = <<"artifact", "look">>
       /\ at' = [at EXCEPT ![t] = <<"bridge", "local">>]
       /\ UNCHANGED <<local, file, disk, found, attempts, cancelled>>

\* read_artifact, under the artifact's lock; then preflight.
ReadArtifact(t) ==
    /\ at[t] = <<"artifact", "look">>
    /\ found' = IF disk["artifact"] = "good" THEN found \cup {t} ELSE found
    /\ at' = [at EXCEPT ![t] = <<"bridge", "local">>]
    /\ UNCHANGED <<local, file, disk, attempts, cancelled>>

\* The toolchain or bridge is downloaded and built in a temporary directory.
Build(t) ==
    /\ Step(t) = "build" /\ InThread(t)
    /\ \/ Leave(t)
       \/ /\ at' = [at EXCEPT ![t][2] = "remove"]
          /\ UNCHANGED <<local, file, disk, found, attempts, cancelled>>

\* What a failed attempt leads to: the model is told, or SynthesisError.
Retry(t) ==
    IF attempts[t] = MaxAttempts THEN Leave(t)
    ELSE /\ attempts' = [attempts EXCEPT ![t] = @ + 1]
         /\ at' = [at EXCEPT ![t][2] = "ask"]
         /\ UNCHANGED <<local, file, disk, found, cancelled>>

\* handle.run: a candidate, an answer cut short, or an error that ends compile().
Ask(t) ==
    /\ Step(t) = "ask"
    /\ \/ /\ at' = [at EXCEPT ![t][2] = "check"]
          /\ UNCHANGED <<local, file, disk, found, attempts, cancelled>>
       \/ Retry(t)
       \/ Leave(t)

\* build_candidate: checked and compiled, rejected, or a CompilerError.
Check(t) ==
    /\ Step(t) = "check"
    /\ \/ /\ at' = [at EXCEPT ![t][2] = "remove"]
          /\ UNCHANGED <<local, file, disk, found, attempts, cancelled>>
       \/ Retry(t)
       \/ Leave(t)

\* The invalid entry is removed, then the directory renamed into place.
Remove(t) ==
    /\ Step(t) = "remove"
    /\ disk' = [disk EXCEPT ![Cache(t)] = "missing"]
    /\ at' = [at EXCEPT ![t][2] = "publish"]
    /\ UNCHANGED <<local, file, found, attempts, cancelled>>

Publish(t) ==
    /\ Step(t) = "publish"
    /\ disk' = [disk EXCEPT ![Cache(t)] = "good"]
    /\ IF InThread(t)
       THEN /\ at' = [at EXCEPT ![t][2] = "look"]
            /\ UNCHANGED <<local, file>>
       ELSE /\ ReleaseAll(t)
            /\ at' = [at EXCEPT ![t] = <<"", "done">>]
    /\ UNCHANGED <<found, attempts, cancelled>>

\* The caller cancels compile(): at an await of the event loop at once, while a
\* worker thread is at work when it is done.
Cancel(t) ==
    /\ MayCancel /\ Cache(t) # "" /\ t \notin cancelled
    /\ \/ /\ InThread(t)
          /\ cancelled' = cancelled \cup {t}
          /\ UNCHANGED <<at, local, file, disk, found, attempts>>
       \/ /\ Cache(t) = "artifact" /\ Step(t) \in {"local", "file", "look", "ask", "check"}
          /\ ReleaseAll(t)
          /\ at' = [at EXCEPT ![t] = <<"", "cancelled">>]
          /\ UNCHANGED <<disk, found, attempts, cancelled>>

\* A process dies: its tasks with it; the kernel drops its file locks.
Crash(p) ==
    /\ MayCrash
    /\ LET dying == {t \in Tasks : ProcessOf[t] = p} IN
       /\ \E t \in dying : Cache(t) # ""
       /\ at' = [t \in Tasks |-> IF t \in dying THEN <<"", "dead">> ELSE at[t]]
       /\ local' = [l \in DOMAIN local |-> IF l[1] = p THEN Nobody ELSE local[l]]
       /\ file' = [c \in Caches |-> IF file[c] \in dying THEN Nobody ELSE file[c]]
       /\ cancelled' = cancelled \ dying
    /\ UNCHANGED <<disk, found, attempts>>

Work(t) ==
    \/ AcquireLocal(t) \/ AcquireFile(t) \/ Look(t) \/ ReadArtifact(t) \/ Build(t)
    \/ Ask(t) \/ Check(t) \/ Remove(t) \/ Publish(t)

Next ==
    \/ \E t \in Tasks : Compile(t) \/ Work(t) \/ TimesOut(t) \/ Cancel(t)
    \/ \E p \in Processes : Crash(p)

Spec == Init /\ [][Next]_vars /\ \A t \in Tasks : WF_vars(Work(t))

-----------------------------------------------------------------------------

TypeOK ==
    /\ \A t \in Tasks : Cache(t) \in Caches \cup {""}
    /\ disk \in [Caches -> {"missing", "stale", "good"}]
    /\ file \in [Caches -> Tasks \cup {Nobody}]
    /\ found \subseteq Tasks /\ attempts \in [Tasks -> 0..MaxAttempts]

\* "Cancellation while waiting never leaves a background worker acquiring an
\* abandoned lock": whoever holds a lock is still inside compile() and at or
\* behind that lock.
NoLockIsAbandoned ==
    /\ \A c \in Caches : file[c] # Nobody => Cache(file[c]) # ""
    /\ \A l \in DOMAIN local : local[l] # Nobody => Cache(local[l]) # "" /\ ProcessOf[local[l]] = l[1]

\* A task that returned its function finds the artifact on disk, checked, for
\* good: no other task, in this process or another, replaces it under its feet.
LoadedIsPublished == \A t \in Tasks : Step(t) = "done" => disk["artifact"] = "good"

\* Nobody waits for ever for a lock or for a worker thread.
CompileEnds == \A t \in Tasks : Cache(t) # "" ~> Cache(t) = ""
=============================================================================
