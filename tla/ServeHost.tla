------------------------------- MODULE ServeHost -------------------------------
(***************************************************************************)
(* aserve: a process hosts one thread until a signal, the end of its       *)
(* initial cycle or a failed status poll, then tears thread, worker and    *)
(* client down and hands out the cycle's result.  Peers may terminate the  *)
(* thread and the connection to the coordinator may break at any time.     *)
(***************************************************************************)
EXTENDS Naturals

VARIABLES
    host,      \* where aserve stands
    listed,    \* whether the coordinator knows the thread
    connected, \* the connection to it
    signalled, \* shutdown.is_set()
    handlers,  \* the signal handlers are installed
    cycle,     \* the initial cycle
    poll,      \* the _wait_until_terminal task
    marked,    \* a TERMINATE marker is in the thread's queue
    raised,    \* what _wait_for_shutdown raised
    outcome    \* how aserve ended

vars == <<host, listed, connected, signalled, handlers, cycle, poll, marked, raised, outcome>>

Cycles == {"unwanted", "running", "done", "failed", "cancelled"}
CycleOver == cycle \in {"done", "failed", "cancelled"}

TypeOK ==
    /\ host \in {"waiting", "drained", "terminating", "closing", "disconnecting", "ended"}
    /\ {listed, connected, signalled, handlers, marked} \subseteq BOOLEAN
    /\ cycle \in Cycles /\ poll \in {"asking", "failed", "stopped"}
    /\ raised \in {"nothing", "poll", "cycle"} /\ outcome \in {"none", "clean", "result", "poll", "cycle"}

Init ==
    /\ host = "waiting" /\ listed = TRUE /\ connected = TRUE
    /\ signalled = FALSE /\ handlers = TRUE /\ cycle \in {"unwanted", "running"}
    /\ poll = "asking" /\ marked = FALSE /\ raised = "nothing" /\ outcome = "none"

----------------------------------------------------------------------------
Signal ==
    /\ handlers /\ ~signalled /\ signalled' = TRUE
    /\ UNCHANGED <<host, listed, connected, handlers, cycle, poll, marked, raised, outcome>>

\* A peer terminates the thread: its marker is queued, or it goes at once.
PeerTerminates ==
    /\ listed /\ connected /\ host # "ended"
    /\ \/ ~marked /\ marked' = TRUE /\ UNCHANGED <<listed, cycle>>
       \/ listed' = FALSE /\ cycle' = (IF cycle = "running" THEN "cancelled" ELSE cycle) /\ UNCHANGED marked
    /\ UNCHANGED <<host, connected, signalled, handlers, poll, raised, outcome>>

\* The dispatcher reaches the marker: the thread is deregistered.
MarkerReached ==
    /\ marked /\ listed /\ cycle # "running" /\ listed' = FALSE
    /\ UNCHANGED <<host, connected, signalled, handlers, cycle, poll, marked, raised, outcome>>

ConnectionDrops ==
    /\ connected /\ host # "ended" /\ connected' = FALSE
    /\ UNCHANGED <<host, listed, signalled, handlers, cycle, poll, marked, raised, outcome>>

CycleEnds(how) ==
    /\ cycle = "running" /\ listed /\ cycle' = how
    /\ UNCHANGED <<host, listed, connected, signalled, handlers, poll, marked, raised, outcome>>

\* Mutant: a poll that fails is taken for a terminal status.
PollSwallows ==
    /\ host = "waiting" /\ poll = "asking" /\ ~(connected /\ listed) /\ poll' = "stopped"
    /\ UNCHANGED <<host, listed, connected, signalled, handlers, cycle, marked, raised, outcome>>

\* get_thread_info raises: the thread is not registered or the link is down.
\* No status the runtime sets while the host is up is a terminal one.
PollFails ==
    /\ host = "waiting" /\ poll = "asking" /\ ~(connected /\ listed) /\ poll' = "failed"
    /\ UNCHANGED <<host, listed, connected, signalled, handlers, cycle, marked, raised, outcome>>

\* Mutant: the wait is for every waiter that can still finish.
WaitForCycle ==
    /\ host = "waiting" /\ (signalled \/ poll # "asking" \/ CycleOver) /\ cycle # "running"
    /\ host' = "drained" /\ poll' = IF poll = "asking" THEN "stopped" ELSE poll
    /\ raised' = IF poll = "failed" /\ ~signalled THEN "poll"
                 ELSE IF cycle = "failed" THEN "cycle" ELSE "nothing"
    /\ UNCHANGED <<listed, connected, signalled, handlers, cycle, marked, outcome>>

\* _wait_for_shutdown: the first of the three waiters to finish ends the wait.
WaitReturns ==
    /\ host = "waiting" /\ (signalled \/ poll # "asking" \/ CycleOver)
    /\ host' = "drained" /\ poll' = IF poll = "asking" THEN "stopped" ELSE poll
    /\ raised' = IF poll = "failed" /\ ~signalled THEN "poll"
                 ELSE IF cycle = "failed" THEN "cycle" ELSE "nothing"
    /\ UNCHANGED <<listed, connected, signalled, handlers, cycle, marked, outcome>>

\* The finally block: handlers off, then terminate, worker.close and, leaving
\* connect, client.close; an exception in any of them is suppressed.
RemoveHandlers ==
    /\ host = "drained" /\ handlers' = FALSE /\ host' = "terminating"
    /\ UNCHANGED <<listed, connected, signalled, cycle, poll, marked, raised, outcome>>

Terminate ==
    /\ host = "terminating" /\ host' = "closing"
    /\ marked' = (marked \/ (connected /\ listed))
    /\ UNCHANGED <<listed, connected, signalled, handlers, cycle, poll, raised, outcome>>

\* worker.close terminates what it still hosts at once: a cycle is cancelled.
CloseWorker ==
    /\ host = "closing" /\ host' = "disconnecting"
    /\ listed' = FALSE /\ cycle' = IF cycle = "running" THEN "cancelled" ELSE cycle
    /\ UNCHANGED <<connected, signalled, handlers, poll, marked, raised, outcome>>

Leave ==
    /\ host = "disconnecting" /\ host' = "ended" /\ connected' = FALSE
    /\ outcome' = IF raised # "nothing" THEN raised
                  ELSE IF cycle = "done" THEN "result"
                  ELSE IF cycle = "failed" THEN "cycle" ELSE "clean"
    /\ UNCHANGED <<listed, signalled, handlers, cycle, poll, marked, raised>>

Next ==
    \/ Signal \/ PeerTerminates \/ MarkerReached \/ ConnectionDrops \/ PollFails
    \/ WaitReturns \/ RemoveHandlers \/ Terminate \/ CloseWorker \/ Leave
    \/ \E how \in {"done", "failed", "cancelled"} : CycleEnds(how)

Goes == PollFails \/ WaitReturns \/ RemoveHandlers \/ Terminate \/ CloseWorker \/ Leave
Spec == Init /\ [][Next]_vars /\ WF_vars(Goes) /\ WF_vars(MarkerReached)

----------------------------------------------------------------------------
\* A host that stops because its connection broke, or its thread went away,
\* says so: it ends cleanly only after a signal or the end of its cycle.
SilentEndWasAsked ==
    outcome \in {"clean", "result"} => signalled \/ CycleOver

\* aserve ends once it was asked to or lost its coordinator or its thread.
HostEnds == (signalled \/ ~connected \/ ~listed) ~> host = "ended"

\* "this returns None on clean shutdown": a thread that a peer terminates
\* brings its host down cleanly.
TerminatedIsClean == host = "drained" /\ raised = "poll" => ~connected
================================================================================
