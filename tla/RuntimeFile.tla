------------------------------- MODULE RuntimeFile -------------------------------
(***************************************************************************)
(* The file that advertises the one coordinator of a host: servers that    *)
(* start, stop and are killed, and the readers (discover_coordinator, the  *)
(* status and stop commands) that clear it when it is stale.  Every file   *)
(* operation is a step of its own.                                         *)
(***************************************************************************)
EXTENDS Naturals, FiniteSets

CONSTANTS Servers,   \* server processes, each started once
          Readers,   \* processes that look the coordinator up
          None, Garbage,
          Overlap,   \* whether two processes may work on the file at a time
          ReadBound  \* how often a reader looks

VARIABLES
    file,    \* the server whose pid coordinator.json holds
    pc,      \* where a process stands
    seen,    \* what it read
    found,   \* the server a reader returned, at its last look
    looks    \* looks taken

vars == <<file, pc, seen, found, looks>>
Procs == Servers \cup Readers

Resting == {"off", "up", "refused", "down", "killed"}
Alive(p) == p \in Servers /\ pc[p] \notin {"off", "refused", "down", "killed"}
MayAct(p) == Overlap \/ \A q \in Procs \ {p} : pc[q] \in Resting

TypeOK ==
    /\ file \in Servers \cup {None, Garbage} /\ seen \in [Procs -> Servers \cup {None, Garbage}]
    /\ pc \in [Procs -> Resting \cup {"bound", "judge", "clear", "write", "stopping", "asking"}]
    /\ found \in [Readers -> Servers \cup {None}]

Init ==
    /\ file \in {None, Garbage}
    /\ pc = [p \in Procs |-> "off"] /\ seen = [p \in Procs |-> None]
    /\ found = [r \in Readers |-> None] /\ looks = [r \in Readers |-> 0]

Goto(p, stage) == pc' = [pc EXCEPT ![p] = stage]

----------------------------------------------------------------------------
\* server start: the endpoint is bound before the file is looked at.
Bind(s) ==
    /\ pc[s] = "off" /\ MayAct(s) /\ Goto(s, "bound")
    /\ UNCHANGED <<file, seen, found, looks>>

ReadFile(s) ==
    /\ pc[s] = "bound" /\ seen' = [seen EXCEPT ![s] = file] /\ Goto(s, "judge")
    /\ UNCHANGED <<file, found, looks>>

\* Mutant: a file that is there is taken for stale.
JudgeBlindly(s) ==
    /\ s \in Servers /\ pc[s] = "judge"
    /\ Goto(s, IF seen[s] # None \/ file # None THEN "clear" ELSE "write")
    /\ UNCHANGED <<file, seen, found, looks>>

\* write_runtime_info raises when the pid it read is alive.
Judge(s) ==
    /\ s \in Servers /\ pc[s] = "judge"
    /\ Goto(s, IF Alive(seen[s]) THEN "refused"
               ELSE IF seen[s] # None \/ file # None THEN "clear" ELSE "write")
    /\ UNCHANGED <<file, seen, found, looks>>

Clear(s) ==
    /\ s \in Servers /\ pc[s] = "clear" /\ file' = None /\ Goto(s, "write")
    /\ UNCHANGED <<seen, found, looks>>

Replace(s) ==
    /\ pc[s] = "write" /\ file' = s /\ Goto(s, "up")
    /\ UNCHANGED <<seen, found, looks>>

\* A signal, from the terminal or from the stop command, ends the wait: the
\* file is deleted, whatever it holds, and then the endpoint stops.
Shutdown(s) ==
    /\ pc[s] = "up" /\ MayAct(s) /\ file' = None /\ Goto(s, "stopping")
    /\ UNCHANGED <<seen, found, looks>>

Stopped(s) ==
    /\ pc[s] = "stopping" /\ Goto(s, "down") /\ UNCHANGED <<file, seen, found, looks>>

Killed(s) ==
    /\ Alive(s) /\ Goto(s, "killed") /\ UNCHANGED <<file, seen, found, looks>>

----------------------------------------------------------------------------
\* read_runtime_info.
Look(r) ==
    /\ pc[r] = "off" /\ looks[r] < ReadBound /\ MayAct(r)
    /\ seen' = [seen EXCEPT ![r] = file] /\ looks' = [looks EXCEPT ![r] = @ + 1]
    /\ Goto(r, "judge") /\ UNCHANGED <<file, found>>

\* Mutant: a reader clears a file it could not act on, live or not.
FoundCleared(r) ==
    /\ r \in Readers /\ pc[r] = "judge"
    /\ IF seen[r] # None \/ file # None
       THEN Goto(r, "clear") /\ UNCHANGED found
       ELSE found' = [found EXCEPT ![r] = None] /\ Goto(r, "off")
    /\ UNCHANGED <<file, seen, looks>>

Found(r) ==
    /\ r \in Readers /\ pc[r] = "judge"
    /\ IF ~Alive(seen[r]) /\ (seen[r] # None \/ file # None)
       THEN Goto(r, "clear") /\ UNCHANGED found
       ELSE /\ found' = [found EXCEPT ![r] = seen[r]]
            /\ \E next \in {"off"} \cup {"asking" : s \in {seen[r]} \ {None}} : Goto(r, next)
    /\ UNCHANGED <<file, seen, looks>>

ClearStale(r) ==
    /\ r \in Readers /\ pc[r] = "clear" /\ file' = None
    /\ found' = [found EXCEPT ![r] = None] /\ Goto(r, "off")
    /\ UNCHANGED <<seen, looks>>

\* server stop goes on from what it found: its SIGTERM makes a live server shut
\* down (Shutdown), and the file of one that is gone by then is deleted.
AskToStop(r) ==
    /\ pc[r] = "asking" /\ Goto(r, "off")
    /\ file' = IF Alive(found[r]) THEN file ELSE None
    /\ found' = [found EXCEPT ![r] = None]
    /\ UNCHANGED <<seen, looks>>

Next ==
    \/ \E s \in Servers : Bind(s) \/ ReadFile(s) \/ Judge(s) \/ Clear(s) \/ Replace(s)
                          \/ Shutdown(s) \/ Stopped(s) \/ Killed(s)
    \/ \E r \in Readers : Look(r) \/ Found(r) \/ ClearStale(r) \/ AskToStop(r)

Spec == Init /\ [][Next]_vars

----------------------------------------------------------------------------
\* "the single-coordinator invariant is enforced here": two servers are never
\* up, and the one that is can be discovered.
SoleCoordinator ==
    \A s \in Servers : pc[s] = "up" => /\ file = s
                                     /\ \A t \in Servers : pc[t] = "up" => s = t
================================================================================
