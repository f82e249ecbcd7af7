----------------------- MODULE ThreadServiceRefinement -----------------------
(***************************************************************************)
(* The dispatcher and its queue implement the service a thread promises: a *)
(* cycle in flight is the head of the line, the queue is the rest of it.   *)
(***************************************************************************)
EXTENDS ThreadRuntime

Line(t) == IF current[t] = NoRequest THEN queue[t] ELSE <<current[t]>> \o queue[t]

Service == INSTANCE ThreadService
    WITH line <- [t \in Threads |-> Line(t)],
         busy <- {t \in Threads : current[t] # NoRequest}

\* handle.run is first in, first out on every thread and settles each future
\* once: no cancel, crash of a cycle, pause, terminate, terminate_now, close
\* or loss of the worker makes a request overtake another or be answered
\* without having been served.
ServesInOrder == Service!Spec
=============================================================================
