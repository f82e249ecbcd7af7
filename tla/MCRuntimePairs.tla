--------------------------- MODULE MCRuntimePairs ---------------------------
(***************************************************************************)
(* Two instances of ThreadRuntime side by side, each over its own small    *)
(* set of threads and requests: "closing" has two threads and one request, *)
(* for a close() that meets threads at different points; "serving" has one *)
(* thread and two requests, under ids that may be spawned again.           *)
(***************************************************************************)
EXTENDS TLC

CONSTANTS Pair, Single,        \* threads of "closing"
          Alone, Couple,       \* threads and requests of "serving"
          TerminateAfterIdle, NoRequest

\* The marker and the empty place are no requests, in either instance.
ASSUME PairsAssumption ==
    /\ {TerminateAfterIdle, NoRequest} \cap (Single \cup Couple) = {}
    /\ TerminateAfterIdle # NoRequest

VARIABLES which,
          pool, info, log, joined, minted, hosted, queue, disp, kill, current, cycle,
          signal, paused, reap, hard, hardTask, closing, closeWait, fut, asked

vars == <<pool, info, log, joined, minted, hosted, queue, disp, kill, current, cycle,
          signal, paused, reap, hard, hardTask, closing, closeWait, fut, asked>>

Closing == INSTANCE ThreadRuntime
    WITH Threads <- Pair, Requests <- Single, QueueBound <- 2, ReapBound <- 1,
         ReuseIds <- TRUE, HonoursCancel <- FALSE, SinkFails <- FALSE

Serving == INSTANCE ThreadServiceRefinement
    WITH Threads <- Alone, Requests <- Couple, QueueBound <- 3, ReapBound <- 2,
         ReuseIds <- TRUE, HonoursCancel <- FALSE, SinkFails <- FALSE

Init == \/ which = "closing" /\ Closing!Init
        \/ which = "serving" /\ Serving!Init

Next == \/ which = "closing" /\ Closing!Next /\ UNCHANGED which
        \/ which = "serving" /\ Serving!Next /\ UNCHANGED which

Spec == Init /\ [][Next]_<<which, vars>>

\* No definition tells two threads, or two requests, of an instance apart.
Symmetry == Permutations(Pair) \cup Permutations(Couple)

\* ThreadRuntime.CloseFailsNoClosedThread: what close() has torn down, the
\* deregistration of its worker never publishes as failed.
CloseFailsNoClosedThread ==
    [][which = "closing" /\ closing = "reaping" /\ closing' = "open" =>
         \A t \in closeWait : info'[t] # "failed"]_vars

\* ThreadRuntime.RunningMeansInFlight: a published RUNNING means exactly that
\* the dispatcher awaits a cycle, under either instance.
RunningMeansInFlight == /\ which = "closing" => Closing!RunningMeansInFlight
                        /\ which = "serving" => Serving!RunningMeansInFlight

\* ThreadRuntime.FailedIsFinal: nothing brings a failed thread back.
FailedIsFinal ==
    [][which = "serving" /\ info # info' =>
         \A t \in Alone : info[t] = "failed" => info'[t] \in {"failed", "absent", "not_started"}]_vars

\* ThreadServiceRefinement.ServesInOrder, the formula Service!Spec taken apart
\* so that it speaks of one instance: the runtime implements the service a
\* thread promises, first in, first out.
ServesInOrder ==
    /\ which = "serving" => Serving!Service!Init
    /\ [][which = "serving" =>
            Serving!Service!Next \/ UNCHANGED Serving!Service!vars]_vars
=============================================================================
