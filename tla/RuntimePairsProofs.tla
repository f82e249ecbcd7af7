--------------------------- MODULE RuntimePairsProofs ---------------------------
(***************************************************************************)
(* The properties of MCRuntimePairs, from the invariants that              *)
(* ThreadRuntimeProofs has for a runtime of any size: each instance keeps  *)
(* its own while it is the one that runs.  First, that what MCRuntimePairs *)
(* instantiates is what those proofs speak of.                             *)
(***************************************************************************)
EXTENDS MCRuntimePairs, TLAPS

Drained == INSTANCE ThreadRuntimeProofs
    WITH Threads <- Pair, Requests <- Single, QueueBound <- 2, ReapBound <- 1,
         ReuseIds <- TRUE, HonoursCancel <- FALSE, SinkFails <- FALSE

Served == INSTANCE ThreadRuntimeProofs
    WITH Threads <- Alone, Requests <- Couple, QueueBound <- 3, ReapBound <- 2,
         ReuseIds <- TRUE, HonoursCancel <- FALSE, SinkFails <- FALSE

LEMMA ClosingSame ==
    /\ Closing!Init <=> Drained!Init
    /\ Closing!Next <=> Drained!Next
    /\ Closing!RunningMeansInFlight <=> Drained!RunningMeansInFlight
<1>1. Closing!Init <=> Drained!Init
  BY DEF Closing!Init, Drained!Init
<1>2. Closing!Next <=> Drained!Next
  BY DEF Closing!registryVars, Closing!hostVars, Closing!taskVars, Closing!callVars, Closing!futVars,
         Closing!Undone, Closing!TaskDone, Closing!Queued, Closing!Pending, Closing!Routable,
         Closing!InFlight, Closing!AfterEvent, Closing!Ev, Closing!Emit, Closing!Settle, Closing!DropWorker,
         Closing!Admit, Closing!Spawn, Closing!SpawnFails, Closing!Submit, Closing!Withdraw, Closing!Cancel,
         Closing!Pause, Closing!Resume, Closing!Terminate, Closing!Teardown, Closing!Reap, Closing!Ready,
         Closing!BeginCycle, Closing!TakeMarker, Closing!CycleEnds, Closing!CycleGivesUp, Closing!Resumes,
         Closing!EndCycle, Closing!Completes, Closing!CompletesTooLate, Closing!Fails, Closing!Cancels,
         Closing!DispatcherCancelled, Closing!CrashOnStarted, Closing!CrashOnTerminal, Closing!FailQueued,
         Closing!KillDispatcher, Closing!HardStop, Closing!TerminateNow, Closing!TerminateNowCycleGone,
         Closing!TerminateNowEnds, Closing!CloseBegins, Closing!CloseDrained, Closing!CloseEnds,
         Closing!LoseWorker, Closing!Dispatcher, Closing!Execute, Closing!HardTermination, Closing!Call,
         Closing!Next, Drained!registryVars, Drained!hostVars, Drained!taskVars, Drained!callVars,
         Drained!futVars, Drained!Undone, Drained!TaskDone, Drained!Queued, Drained!Pending, Drained!Routable,
         Drained!InFlight, Drained!AfterEvent, Drained!Ev, Drained!Emit, Drained!Settle, Drained!DropWorker,
         Drained!Admit, Drained!Spawn, Drained!SpawnFails, Drained!Submit, Drained!Withdraw, Drained!Cancel,
         Drained!Pause, Drained!Resume, Drained!Terminate, Drained!Teardown, Drained!Reap, Drained!Ready,
         Drained!BeginCycle, Drained!TakeMarker, Drained!CycleEnds, Drained!CycleGivesUp, Drained!Resumes,
         Drained!EndCycle, Drained!Completes, Drained!CompletesTooLate, Drained!Fails, Drained!Cancels,
         Drained!DispatcherCancelled, Drained!CrashOnStarted, Drained!CrashOnTerminal, Drained!FailQueued,
         Drained!KillDispatcher, Drained!HardStop, Drained!TerminateNow, Drained!TerminateNowCycleGone,
         Drained!TerminateNowEnds, Drained!CloseBegins, Drained!CloseDrained, Drained!CloseEnds,
         Drained!LoseWorker, Drained!Dispatcher, Drained!Execute, Drained!HardTermination, Drained!Call,
         Drained!Next
<1>3. Closing!RunningMeansInFlight <=> Drained!RunningMeansInFlight
  BY DEF Closing!RunningMeansInFlight, Drained!RunningMeansInFlight
<1> QED
  BY <1>1, <1>2, <1>3

LEMMA ServingSame ==
    /\ Serving!Init <=> Served!Init
    /\ Serving!Next <=> Served!Next
    /\ Serving!RunningMeansInFlight <=> Served!RunningMeansInFlight
<1>1. Serving!Init <=> Served!Init
  BY DEF Serving!Init, Served!Init
<1>2. Serving!Next <=> Served!Next
  BY DEF Serving!registryVars, Serving!hostVars, Serving!taskVars, Serving!callVars, Serving!futVars,
         Serving!Undone, Serving!TaskDone, Serving!Queued, Serving!Pending, Serving!Routable,
         Serving!InFlight, Serving!AfterEvent, Serving!Ev, Serving!Emit, Serving!Settle, Serving!DropWorker,
         Serving!Admit, Serving!Spawn, Serving!SpawnFails, Serving!Submit, Serving!Withdraw, Serving!Cancel,
         Serving!Pause, Serving!Resume, Serving!Terminate, Serving!Teardown, Serving!Reap, Serving!Ready,
         Serving!BeginCycle, Serving!TakeMarker, Serving!CycleEnds, Serving!CycleGivesUp, Serving!Resumes,
         Serving!EndCycle, Serving!Completes, Serving!CompletesTooLate, Serving!Fails, Serving!Cancels,
         Serving!DispatcherCancelled, Serving!CrashOnStarted, Serving!CrashOnTerminal, Serving!FailQueued,
         Serving!KillDispatcher, Serving!HardStop, Serving!TerminateNow, Serving!TerminateNowCycleGone,
         Serving!TerminateNowEnds, Serving!CloseBegins, Serving!CloseDrained, Serving!CloseEnds,
         Serving!LoseWorker, Serving!Dispatcher, Serving!Execute, Serving!HardTermination, Serving!Call,
         Serving!Next, Served!registryVars, Served!hostVars, Served!taskVars, Served!callVars, Served!futVars,
         Served!Undone, Served!TaskDone, Served!Queued, Served!Pending, Served!Routable, Served!InFlight,
         Served!AfterEvent, Served!Ev, Served!Emit, Served!Settle, Served!DropWorker, Served!Admit,
         Served!Spawn, Served!SpawnFails, Served!Submit, Served!Withdraw, Served!Cancel, Served!Pause,
         Served!Resume, Served!Terminate, Served!Teardown, Served!Reap, Served!Ready, Served!BeginCycle,
         Served!TakeMarker, Served!CycleEnds, Served!CycleGivesUp, Served!Resumes, Served!EndCycle,
         Served!Completes, Served!CompletesTooLate, Served!Fails, Served!Cancels, Served!DispatcherCancelled,
         Served!CrashOnStarted, Served!CrashOnTerminal, Served!FailQueued, Served!KillDispatcher,
         Served!HardStop, Served!TerminateNow, Served!TerminateNowCycleGone, Served!TerminateNowEnds,
         Served!CloseBegins, Served!CloseDrained, Served!CloseEnds, Served!LoseWorker, Served!Dispatcher,
         Served!Execute, Served!HardTermination, Served!Call, Served!Next
<1>3. Serving!RunningMeansInFlight <=> Served!RunningMeansInFlight
  BY DEF Serving!RunningMeansInFlight, Served!RunningMeansInFlight
<1> QED
  BY <1>1, <1>2, <1>3

LEMMA ServiceSame ==
    /\ Serving!Service!Init <=> Served!Service!Init
    /\ (Serving!Service!Next \/ UNCHANGED Serving!Service!vars) <=> Served!Serves
<1>1. Serving!Service!Init <=> Served!Service!Init
  BY DEF Serving!Line, Served!Line, Serving!Service!Init, Served!Service!Init
<1>2. Serving!Service!Next <=> Served!Service!Next
  BY DEF Serving!Line, Served!Line, Serving!Service!Pending, Serving!Service!InLine, Serving!Service!Accept,
         Serving!Service!AcceptMarker, Serving!Service!Withdraw, Serving!Service!Begin,
         Serving!Service!Answer, Serving!Service!Drop, Serving!Service!Next, Served!Service!Pending,
         Served!Service!InLine, Served!Service!Accept, Served!Service!AcceptMarker, Served!Service!Withdraw,
         Served!Service!Begin, Served!Service!Answer, Served!Service!Drop, Served!Service!Next
<1>3. Serving!Service!vars = Served!Service!vars
  BY DEF Serving!Line, Served!Line, Serving!Service!vars, Served!Service!vars
<1>4. (Serving!Service!vars)' = (Served!Service!vars)'
  BY DEF Serving!Line, Served!Line, Serving!Service!vars, Served!Service!vars
<1> QED
  BY <1>1, <1>2, <1>3, <1>4 DEF Served!Serves

----------------------------------------------------------------------------
(* What each instance keeps, while it is the one that runs.                *)

PairsInv ==
    /\ which = "closing" =>
           Drained!TypeOK /\ Drained!HostTables /\ Drained!RunningMeansInFlight /\ Drained!ReapsDue
    /\ which = "serving" => Served!TypeOK /\ Served!HostTables /\ Served!RunningMeansInFlight

LEMMA PairsStart == ASSUME Init PROVE PairsInv
<1>1. CASE which = "closing" /\ Closing!Init
  <2>1. Drained!Init
    BY <1>1, ClosingSame
  <2> QED
    BY <1>1, <2>1, PairsAssumption, Drained!InitHolds DEF Drained!Init, Drained!RunningMeansInFlight, Drained!ReapsDue, PairsInv
<1>2. CASE which = "serving" /\ Serving!Init
  <2>1. Served!Init
    BY <1>2, ServingSame
  <2> QED
    BY <1>2, <2>1, PairsAssumption, Served!InitHolds DEF Served!Init, Served!RunningMeansInFlight, PairsInv
<1> QED
  BY <1>1, <1>2 DEF Init

\* A step is one of the instance that runs, or none at all.
LEMMA OneMoves ==
    ASSUME [Next]_<<which, vars>>
    PROVE  /\ which' = which
           /\ which = "closing" => [Drained!Next]_(Drained!vars)
           /\ which = "serving" => [Served!Next]_(Served!vars)
<1>1. UNCHANGED <<which, vars>> => which' = which /\ UNCHANGED Drained!vars /\ UNCHANGED Served!vars
  BY DEF vars, Drained!vars, Drained!registryVars, Drained!hostVars, Drained!taskVars, Drained!callVars,
         Drained!futVars, Served!vars, Served!registryVars, Served!hostVars, Served!taskVars, Served!callVars,
         Served!futVars
<1> QED
  BY <1>1, ClosingSame, ServingSame DEF Next

LEMMA PairsGoOn == ASSUME PairsInv, [Next]_<<which, vars>> PROVE PairsInv'
<1> USE DEF PairsInv
<1>1. which = "closing" =>
          (Drained!TypeOK /\ Drained!HostTables /\ Drained!RunningMeansInFlight /\ Drained!ReapsDue)'
  BY PairsAssumption, OneMoves, Drained!TypeStep, Drained!TablesStep, Drained!RunningStep, Drained!ReapsDueStep
<1>2. which = "serving" => (Served!TypeOK /\ Served!HostTables /\ Served!RunningMeansInFlight)'
  BY PairsAssumption, OneMoves, Served!TypeStep, Served!TablesStep, Served!RunningStep
<1> QED
  BY <1>1, <1>2, OneMoves

LEMMA PairsHold == Spec => []PairsInv
BY PairsStart, PairsGoOn, PTL DEF Spec

\* While its event sink works, the coordinator publishes RUNNING of a thread
\* exactly while the dispatcher of its worker awaits a cycle.
THEOREM PairsRunInFlight == Spec => []RunningMeansInFlight
<1>1. PairsInv => RunningMeansInFlight
  BY ClosingSame, ServingSame DEF PairsInv, RunningMeansInFlight
<1> QED
  BY <1>1, PairsHold, PTL

\* The deregistration of the worker at the end of close() finds none of the
\* threads that close() tore down: it publishes none of them as failed.
THEOREM PairsCloseFailsNone == Spec => CloseFailsNoClosedThread
<1>1. PairsInv /\ [Next]_<<which, vars>> =>
          [which = "closing" /\ closing = "reaping" /\ closing' = "open" =>
               \A t \in closeWait : info'[t] # "failed"]_vars
  BY PairsAssumption, OneMoves, Drained!CloseFailsNone DEF PairsInv
<1> QED
  BY <1>1, PairsHold, PTL DEF Spec, CloseFailsNoClosedThread

\* Once a thread is published as failed it is deregistered, or spawned again
\* under its id, before it is anything else.
THEOREM PairsFailedAlwaysFinal == Spec => FailedIsFinal
<1>1. PairsInv /\ [Next]_<<which, vars>> =>
          [which = "serving" /\ info # info' =>
               \A t \in Alone : info[t] = "failed" => info'[t] \in {"failed", "absent", "not_started"}]_vars
  <2> SUFFICES ASSUME PairsInv, [Next]_<<which, vars>>, which = "serving", NEW t \in Alone, info[t] = "failed"
               PROVE  info'[t] \in {"failed", "absent", "not_started"}
    OBVIOUS
  <2>1. Served!GoesOn(t)
    BY PairsAssumption, OneMoves, Served!EveryStepGoesOn DEF PairsInv
  <2> QED
    BY <2>1 DEF Served!GoesOn
<1> QED
  BY <1>1, PairsHold, PTL DEF Spec, FailedIsFinal

\* The worker serves the callers of handle.run in the order in which it took
\* their requests: each of its steps is one of ThreadService, or none.
THEOREM PairsServeInOrder == Spec => ServesInOrder
<1>1. Init => (which = "serving" => Serving!Service!Init)
  <2>1. Init /\ which = "serving" => Served!Init
    BY ServingSame DEF Init
  <2> QED
    BY <2>1, PairsAssumption, Served!ServiceStarts, ServiceSame
<1>2. PairsInv /\ [Next]_<<which, vars>> =>
          [which = "serving" => Serving!Service!Next \/ UNCHANGED Serving!Service!vars]_vars
  <2>1. PairsInv /\ [Next]_<<which, vars>> /\ which = "serving" => Served!Serves
    BY PairsAssumption, OneMoves, Served!EveryStepServes DEF PairsInv
  <2> QED
    BY <2>1, ServiceSame
<1> QED
  BY <1>1, <1>2, PairsHold, PTL DEF Spec, ServesInOrder
================================================================================
