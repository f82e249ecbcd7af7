------------------------ MODULE ThreadRuntimeProofs ------------------------
(***************************************************************************)
(* Theorems about ThreadRuntime, for any number of threads and requests:   *)
(* type correctness and the tables of a worker; no orphaned future (the    *)
(* safety half of I12) when the event sink does not fail; what the runtime *)
(* reports of a thread, its event log and its status, agrees with what its *)
(* callers got and its dispatcher does; and the runtime implements the     *)
(* service a thread promises: each step of it is, seen through Line, a     *)
(* step of ThreadService or none.                                          *)
(***************************************************************************)
EXTENDS ThreadServiceRefinement, SequenceTheorems, TLAPS

USE RuntimeAssumption

(* What the helpers of ThreadRuntime preserve.                             *)

\* A lifecycle event leaves a status behind, never anything else.
LEMMA AfterEventType ==
    ASSUME NEW status \in Statuses, NEW kind \in Kinds
    PROVE  AfterEvent(status, kind) \in Statuses
  BY DEF AfterEvent, Statuses, Kinds

\* Emitting one event, or two, keeps the registry well typed.
LEMMA EmitOneType ==
    ASSUME TypeOK, NEW t \in Threads, NEW e \in Event, Emit(t, <<e>>)
    PROVE  info' \in [Threads -> Statuses] /\ log' \in [Threads -> Seq(Event)] /\ pool' = pool
  <1>1. e.kind \in Kinds
    BY DEF Event
  <1>2. AfterEvent(info[t], e.kind) \in Statuses
    BY <1>1, AfterEventType DEF TypeOK
  <1> QED
    BY <1>2 DEF Emit, TypeOK

LEMMA EmitTwoType ==
    ASSUME TypeOK, NEW t \in Threads, NEW d \in Event, NEW e \in Event, Emit(t, <<d, e>>)
    PROVE  info' \in [Threads -> Statuses] /\ log' \in [Threads -> Seq(Event)] /\ pool' = pool
  <1>1. e.kind \in Kinds
    BY DEF Event
  <1>2. AfterEvent(info[t], e.kind) \in Statuses
    BY <1>1, AfterEventType DEF TypeOK
  <1> QED
    BY <1>2 DEF Emit, TypeOK

\* The events a step emits about a request are events.
LEMMA EvType ==
    ASSUME NEW kind \in Kinds, NEW r \in Requests
    PROVE  Ev(kind, r) \in Event
  BY DEF Ev, Event

\* Settling futures keeps them futures.
LEMMA SettleType ==
    ASSUME TypeOK, NEW S, NEW outcome \in {"result", "error", "cancelled"}, Settle(S, outcome)
    PROVE  fut' \in [Requests -> {"new", "pending", "result", "error", "cancelled"}]
  BY DEF Settle, TypeOK

\* Teardown keeps every table it touches well typed.
LEMMA TeardownType ==
    ASSUME TypeOK, NEW t \in Threads, Teardown(t),
           hard' \in [Threads -> {"none", "task", "dispatcher"}],
           hardTask' \in [Threads -> Requests \cup {NoRequest}],
           UNCHANGED <<closing, closeWait>>
    PROVE  TypeOK'
  <1>1. fut' \in [Requests -> {"new", "pending", "result", "error", "cancelled"}]
    BY SettleType DEF Teardown
  <1>2. asked' \in SUBSET Requests
    BY DEF Teardown, TypeOK, Queued
  <1>3. reap' \in [Threads -> Nat]
    BY DEF Teardown, TypeOK
  <1>4. queue' \in [Threads -> Seq(Requests \cup {TerminateAfterIdle})]
    BY DEF Teardown, TypeOK
  <1> QED
    BY <1>1, <1>2, <1>3, <1>4 DEF Teardown, TypeOK, registryVars

\* ... and so does killing a dispatcher.
LEMMA KillType ==
    ASSUME TypeOK, NEW t \in Threads, KillDispatcher(t)
    PROVE  TypeOK'
  <1>1. cycle' \in [Threads -> {"none", "running", "cancelling", "ok", "raised", "cancelled"}]
    BY DEF KillDispatcher, TypeOK
  <1>2. kill' \in [Threads -> {"no", "counted", "thrown"}]
    BY DEF KillDispatcher, TypeOK
  <1>3. asked' \in SUBSET Requests
    BY DEF KillDispatcher, TypeOK
  <1> QED
    BY <1>1, <1>2, <1>3 DEF KillDispatcher, TypeOK, registryVars, hostVars

LEMMA HardStopType ==
    ASSUME TypeOK, NEW t \in Threads, HardStop(t)
    PROVE  TypeOK'
  <1>1. CASE KillDispatcher(t)
    BY <1>1, KillType
  <1>2. CASE Teardown(t) /\ hard' = [hard EXCEPT ![t] = "none"]
               /\ hardTask' = [hardTask EXCEPT ![t] = NoRequest] /\ UNCHANGED <<closing, closeWait>>
    BY <1>2, TeardownType DEF TypeOK
  <1> QED
    BY <1>1, <1>2 DEF HardStop

----------------------------------------------------------------------------
(* Type correctness, which needs the worker's tables to agree: the events  *)
(* a dispatcher emits name the request in current[t].                      *)

\* A cycle in flight is the cycle of a request.
LEMMA InFlightHasRequest ==
    ASSUME TypeOK, HostTables, NEW t \in Threads, disp[t] = "running"
    PROVE  current[t] \in Requests
  BY DEF TypeOK, HostTables

LEMMA CallType ==
    ASSUME TypeOK, HostTables, NEW t \in Threads, Call(t)
    PROVE  TypeOK'
  <1>1. CASE Spawn(t)
    BY <1>1 DEF Spawn, Admit, TypeOK, Statuses, callVars, futVars
  <1>2. CASE SpawnFails(t)
    BY <1>2 DEF SpawnFails, Admit, TypeOK, Statuses, callVars, futVars, taskVars
  <1>3. CASE \E r \in Requests : Submit(t, r)
    BY <1>3 DEF Submit, TypeOK, registryVars, hostVars, callVars
  <1>4. CASE Cancel(t)
    <2>1. asked' \in SUBSET Requests
      BY <1>4, InFlightHasRequest DEF Cancel, InFlight, TypeOK
    <2>2. cycle' \in [Threads -> {"none", "running", "cancelling", "ok", "raised", "cancelled"}]
      BY <1>4 DEF Cancel, TypeOK
    <2>3. signal' \in SUBSET Threads
      BY <1>4 DEF Cancel, TypeOK
    <2> QED
      BY <1>4, <2>1, <2>2, <2>3 DEF Cancel, TypeOK, registryVars, hostVars, callVars
  <1>5. CASE Pause(t)
    BY <1>5 DEF Pause, TypeOK, Statuses, taskVars, callVars, futVars
  <1>6. CASE Resume(t)
    BY <1>6 DEF Resume, TypeOK, Statuses, taskVars, callVars, futVars
  <1>7. CASE Terminate(t)
    BY <1>7 DEF Terminate, TypeOK, registryVars, hostVars, callVars, futVars
  <1>8. CASE TerminateNow(t)
    <2>1. CASE HardStop(t)
      BY <2>1, HardStopType
    <2>2. CASE ~HardStop(t)
      <3>1. current[t] \in Requests
        BY <1>8, <2>2, InFlightHasRequest DEF TerminateNow, InFlight
      <3>2. asked' \in SUBSET Requests
        BY <1>8, <2>2, <3>1 DEF TerminateNow, TypeOK
      <3>3. hardTask' \in [Threads -> Requests \cup {NoRequest}]
        BY <1>8, <2>2, <3>1 DEF TerminateNow, TypeOK
      <3>4. cycle' \in [Threads -> {"none", "running", "cancelling", "ok", "raised", "cancelled"}]
        BY <1>8, <2>2 DEF TerminateNow, TypeOK
      <3>5. hard' = [hard EXCEPT ![t] = "task"]
        BY <1>8, <2>2 DEF TerminateNow
      <3>6. hard' \in [Threads -> {"none", "task", "dispatcher"}]
        BY <3>5 DEF TypeOK
      <3> QED
        BY <1>8, <2>2, <3>2, <3>3, <3>4, <3>6 DEF TerminateNow, TypeOK, registryVars, hostVars
    <2> QED
      BY <2>1, <2>2
  <1> QED
    BY <1>1, <1>2, <1>3, <1>4, <1>5, <1>6, <1>7, <1>8 DEF Call

\* The end of a cycle, whatever is emitted and settled with it.
LEMMA EndCycleType ==
    ASSUME TypeOK, NEW t \in Threads, NEW next \in {"idle", "dead", "crashed"}, EndCycle(t, next),
           pool' \in BOOLEAN, info' \in [Threads -> Statuses], log' \in [Threads -> Seq(Event)],
           fut' \in [Requests -> {"new", "pending", "result", "error", "cancelled"}],
           signal' \in SUBSET Threads
    PROVE  TypeOK'
  <1>1. disp' \in [Threads -> {"none", "idle", "running", "crashed", "dead"}]
    BY DEF EndCycle, TypeOK
  <1> QED
    BY <1>1 DEF EndCycle, TypeOK, hostVars, callVars

LEMMA DispatcherType ==
    ASSUME TypeOK, HostTables, NEW t \in Threads, Dispatcher(t)
    PROVE  TypeOK'
  <1> DEFINE r == current[t]
  <1>0. disp[t] = "running" => r \in Requests
    BY InFlightHasRequest
  <1>1. CASE BeginCycle(t)
    <2> DEFINE h == Head(queue[t])
    <2>1. h \in Requests /\ queue' \in [Threads -> Seq(Requests \cup {TerminateAfterIdle})]
      BY <1>1 DEF BeginCycle, Ready, TypeOK
    <2>2. Ev("started", h) \in Event
      BY <2>1, EvType DEF Kinds
    <2>3. info' \in [Threads -> Statuses] /\ log' \in [Threads -> Seq(Event)] /\ pool' = pool
      BY <1>1, <2>2, EmitOneType DEF BeginCycle
    <2> QED
      BY <1>1, <2>1, <2>3 DEF BeginCycle, TypeOK, hostVars, callVars, futVars
  <1>2. CASE TakeMarker(t)
    BY <1>2, TeardownType DEF TakeMarker, TypeOK, callVars
  <1>3. CASE Completes(t)
    <2>1. Ev("result", r) \in Event /\ Ev("completed", r) \in Event
      BY <1>0, <1>3, EvType DEF Completes, Resumes, Kinds
    <2>2. info' \in [Threads -> Statuses] /\ log' \in [Threads -> Seq(Event)] /\ pool' = pool
      BY <1>3, <2>1, EmitTwoType DEF Completes
    <2>3. fut' \in [Requests -> {"new", "pending", "result", "error", "cancelled"}]
      BY <1>3, SettleType DEF Completes
    <2> QED
      BY <1>3, <2>2, <2>3, EndCycleType DEF Completes, TypeOK
  <1>4. CASE CompletesTooLate(t)
    <2>1. Ev("result", r) \in Event /\ Ev("failed", r) \in Event
      BY <1>0, <1>4, EvType DEF CompletesTooLate, Resumes, Kinds
    <2>2. info' \in [Threads -> Statuses] /\ log' \in [Threads -> Seq(Event)] /\ pool' = pool
      BY <1>4, <2>1, EmitTwoType DEF CompletesTooLate
    <2> QED
      BY <1>4, <2>2, EndCycleType DEF CompletesTooLate, TypeOK
  <1>5. CASE Fails(t)
    <2>1. Ev("failed", r) \in Event
      BY <1>0, <1>5, EvType DEF Fails, Resumes, Kinds
    <2>2. info' \in [Threads -> Statuses] /\ log' \in [Threads -> Seq(Event)] /\ pool' = pool
      BY <1>5, <2>1, EmitOneType DEF Fails
    <2>3. fut' \in [Requests -> {"new", "pending", "result", "error", "cancelled"}]
      BY <1>5, SettleType DEF Fails
    <2> QED
      BY <1>5, <2>2, <2>3, EndCycleType DEF Fails, TypeOK
  <1>6. CASE Cancels(t)
    <2>1. Ev("cancelled", r) \in Event
      BY <1>0, <1>6, EvType DEF Cancels, Resumes, Kinds
    <2>2. info' \in [Threads -> Statuses] /\ log' \in [Threads -> Seq(Event)] /\ pool' = pool
      BY <1>6, <2>1, EmitOneType DEF Cancels
    <2>3. fut' \in [Requests -> {"new", "pending", "result", "error", "cancelled"}]
      BY <1>6, SettleType DEF Cancels
    <2>4. signal' \in SUBSET Threads
      BY <1>6 DEF Cancels, TypeOK
    <2>5. PICK next \in {"idle", "dead"} : EndCycle(t, next)
      BY <1>6 DEF Cancels
    <2>6. pool' \in BOOLEAN
      BY <2>2 DEF TypeOK
    <2> QED
      BY <2>2, <2>3, <2>4, <2>5, <2>6, EndCycleType
  <1>7. CASE DispatcherCancelled(t)
    BY <1>7 DEF DispatcherCancelled, TypeOK, registryVars, hostVars, callVars, futVars
  <1>8. CASE CrashOnStarted(t)
    <2>1. queue' \in [Threads -> Seq(Requests \cup {TerminateAfterIdle})]
      BY <1>8 DEF CrashOnStarted, Ready, TypeOK
    <2> QED
      BY <1>8, <2>1 DEF CrashOnStarted, TypeOK, registryVars, hostVars, callVars, futVars
  <1>9. CASE CrashOnTerminal(t)
    <2>1. fut' \in [Requests -> {"new", "pending", "result", "error", "cancelled"}]
      BY <1>9, SettleType DEF CrashOnTerminal
    <2>2. signal' \in SUBSET Threads
      BY <1>9 DEF CrashOnTerminal, TypeOK
    <2> QED
      BY <1>9, <2>1, <2>2, EndCycleType DEF CrashOnTerminal, TypeOK, registryVars
  <1>10. CASE FailQueued(t)
    <2>1. fut' \in [Requests -> {"new", "pending", "result", "error", "cancelled"}]
      BY <1>10, SettleType DEF FailQueued
    <2> QED
      BY <1>10, <2>1 DEF FailQueued, TypeOK, registryVars, hostVars, callVars
  <1> QED
    BY <1>1, <1>2, <1>3, <1>4, <1>5, <1>6, <1>7, <1>8, <1>9, <1>10 DEF Dispatcher

\* Every other step of a thread.
LEMMA OtherType ==
    ASSUME TypeOK, HostTables, NEW t \in Threads,
           Execute(t) \/ Reap(t) \/ HardTermination(t)
    PROVE  TypeOK'
  <1>1. CASE \E o \in {"ok", "raised", "cancelled"} : CycleEnds(t, o)
    BY <1>1 DEF CycleEnds, TypeOK, registryVars, hostVars, callVars, futVars
  <1>2. CASE CycleGivesUp(t)
    <2>1. asked' \in SUBSET Requests
      BY <1>2, InFlightHasRequest DEF CycleGivesUp, InFlight, TypeOK
    <2> QED
      BY <1>2, <2>1 DEF CycleGivesUp, TypeOK, registryVars, hostVars, callVars
  <1>3. CASE Reap(t)
    BY <1>3 DEF Reap, TypeOK, Statuses, taskVars, callVars, futVars
  <1>4. CASE TerminateNowCycleGone(t)
    BY <1>4, HardStopType DEF TerminateNowCycleGone
  <1>5. CASE TerminateNowEnds(t)
    BY <1>5, TeardownType DEF TerminateNowEnds, TypeOK
  <1> QED
    BY <1>1, <1>2, <1>3, <1>4, <1>5 DEF Execute, HardTermination

\* The steps that are no single thread's.
LEMMA SharedType ==
    ASSUME TypeOK,
           (\E r \in Requests : Withdraw(r)) \/ CloseBegins \/ CloseDrained \/ CloseEnds \/ LoseWorker
    PROVE  TypeOK'
  <1>1. CASE \E r \in Requests : Withdraw(r)
    BY <1>1 DEF Withdraw, TypeOK, registryVars, hostVars, taskVars, callVars
  <1>2. CASE CloseBegins
    <2>1. queue' \in [Threads -> Seq(Requests \cup {TerminateAfterIdle})]
      BY <1>2 DEF CloseBegins, TypeOK
    <2> QED
      BY <1>2, <2>1 DEF CloseBegins, TypeOK, registryVars, hostVars, futVars
  <1>3. CASE CloseDrained
    BY <1>3 DEF CloseDrained, TypeOK, registryVars, hostVars, taskVars, futVars
  <1>4. CASE CloseEnds
    <2>1. info' \in [Threads -> Statuses]
      BY <1>4 DEF CloseEnds, DropWorker, TypeOK, Statuses, registryVars
    <2>2. pool' \in BOOLEAN /\ log' = log
      BY <1>4 DEF CloseEnds, DropWorker, TypeOK, registryVars
    <2> QED
      BY <1>4, <2>1, <2>2 DEF CloseEnds, TypeOK, taskVars, futVars
  <1>5. CASE LoseWorker
    BY <1>5 DEF LoseWorker, DropWorker, TypeOK, Statuses, hostVars, taskVars, callVars, futVars
  <1> QED
    BY <1>1, <1>2, <1>3, <1>4, <1>5

\* Every step keeps every variable well typed.
LEMMA TypeStep ==
    ASSUME TypeOK, HostTables, [Next]_vars
    PROVE  TypeOK'
  <1>1. CASE UNCHANGED vars
    BY <1>1 DEF vars, registryVars, hostVars, taskVars, callVars, futVars, TypeOK
  <1>2. CASE Next
    BY <1>2, CallType, DispatcherType, OtherType, SharedType DEF Next
  <1> QED
    BY <1>1, <1>2

----------------------------------------------------------------------------
(* The tables of the worker agree.                                         *)

\* HostTables, for one thread.
Agrees(t) ==
    /\ disp[t] = "running" <=> current[t] # NoRequest
    /\ t \in hosted <=> disp[t] # "none"
    /\ t \notin hosted => queue[t] = <<>> /\ kill[t] = "no"
    /\ kill[t] # "no" => hard[t] = "dispatcher"
    /\ ~SinkFails => disp[t] # "crashed" /\ (disp[t] = "dead" => kill[t] # "no")

LEMMA AgreesOne == HostTables <=> \A t \in Threads : Agrees(t)
  BY DEF HostTables, Agrees

\* A torn-down thread is gone from every table.
LEMMA TeardownAgrees ==
    ASSUME TypeOK, HostTables, NEW t \in Threads, Teardown(t),
           hard' = hard \/ hard' = [hard EXCEPT ![t] = "none"]
    PROVE  HostTables'
  <1> SUFFICES ASSUME NEW s \in Threads
               PROVE  Agrees(s)'
    BY AgreesOne DEF HostTables, Agrees
  <1>1. CASE s = t
    BY <1>1 DEF Teardown, Agrees, TypeOK
  <1>2. CASE s # t
    BY <1>2 DEF Teardown, Agrees, HostTables, TypeOK
  <1> QED
    BY <1>1, <1>2

LEMMA HardStopAgrees ==
    ASSUME TypeOK, HostTables, NEW t \in Threads, t \in hosted \/ hard[t] = "task", HardStop(t)
    PROVE  HostTables'
  <1>1. CASE KillDispatcher(t) /\ disp[t] \notin TaskDone
    <2> SUFFICES ASSUME NEW s \in Threads
                 PROVE  Agrees(s)'
      BY DEF HostTables, Agrees
    <2>1. Agrees(s) /\ Agrees(t)
      BY DEF HostTables, Agrees
    <2>2. hosted' = hosted /\ queue' = queue /\ disp' = disp /\ current' = current
      BY <1>1 DEF KillDispatcher, hostVars
    <2>3. kill'[s] # kill[s] => s = t
      BY <1>1 DEF KillDispatcher, TypeOK
    <2>4. hard' = [hard EXCEPT ![t] = "dispatcher"]
      BY <1>1 DEF KillDispatcher
    <2>5. s = t => disp[s] \notin {"none", "dead"}
      BY <1>1 DEF TaskDone
    <2> QED
      BY <2>1, <2>2, <2>3, <2>4, <2>5 DEF Agrees, TypeOK
  <1>2. CASE Teardown(t) /\ hard' = [hard EXCEPT ![t] = "none"]
    BY <1>2, TeardownAgrees
  <1> QED
    BY <1>1, <1>2 DEF HardStop

\* The end of a cycle: the dispatcher's state and its task move together.
LEMMA EndCycleAgrees ==
    ASSUME TypeOK, HostTables, NEW t \in Threads, NEW next \in {"idle", "dead", "crashed"},
           disp[t] = "running", EndCycle(t, next),
           next = "dead" => kill[t] # "no",
           next = "crashed" => SinkFails
    PROVE  HostTables'
  <1> SUFFICES ASSUME NEW s \in Threads
               PROVE  Agrees(s)'
    BY DEF HostTables, Agrees
  <1>1. Agrees(s)
    BY DEF HostTables, Agrees
  <1> QED
    BY <1>1 DEF EndCycle, Agrees, TypeOK, hostVars, callVars

LEMMA CallAgrees ==
    ASSUME TypeOK, HostTables, NEW t \in Threads, Call(t)
    PROVE  HostTables'
  <1> SUFFICES ASSUME NEW s \in Threads
               PROVE  Agrees(s)'
    BY DEF HostTables, Agrees
  <1>0. Agrees(s) /\ Agrees(t)
    BY DEF HostTables, Agrees
  <1>1. CASE Spawn(t)
    BY <1>0, <1>1 DEF Spawn, Admit, Agrees, TypeOK, callVars
  <1>2. CASE SpawnFails(t)
    BY <1>0, <1>2 DEF SpawnFails, Admit, Agrees, taskVars, callVars
  <1>3. CASE \E r \in Requests : Submit(t, r)
    BY <1>0, <1>3 DEF Submit, Routable, Agrees, TypeOK, hostVars, callVars
  <1>4. CASE Cancel(t)
    BY <1>0, <1>4 DEF Cancel, Agrees, hostVars, callVars
  <1>5. CASE Pause(t)
    BY <1>0, <1>5 DEF Pause, Agrees, taskVars, callVars
  <1>6. CASE Resume(t)
    BY <1>0, <1>6 DEF Resume, Agrees, taskVars, callVars
  <1>7. CASE Terminate(t)
    BY <1>0, <1>7 DEF Terminate, Routable, Agrees, TypeOK, hostVars, callVars
  <1>8. CASE TerminateNow(t) /\ HardStop(t)
    BY <1>8, HardStopAgrees DEF TerminateNow, Routable, HostTables, Agrees
  <1>9. CASE TerminateNow(t) /\ ~HardStop(t)
    BY <1>0, <1>9 DEF TerminateNow, Agrees, TypeOK, hostVars
  <1> QED
    BY <1>1, <1>2, <1>3, <1>4, <1>5, <1>6, <1>7, <1>8, <1>9 DEF Call

LEMMA DispatcherAgrees ==
    ASSUME TypeOK, HostTables, NEW t \in Threads, Dispatcher(t)
    PROVE  HostTables'
  <1>1. CASE TakeMarker(t)
    BY <1>1, TeardownAgrees DEF TakeMarker, callVars
  <1>2. CASE Completes(t)
    BY <1>2, EndCycleAgrees DEF Completes, Resumes
  <1>3. CASE CompletesTooLate(t)
    BY <1>3, EndCycleAgrees DEF CompletesTooLate, Resumes
  <1>4. CASE Fails(t)
    BY <1>4, EndCycleAgrees DEF Fails, Resumes
  <1>5. CASE Cancels(t)
    BY <1>5, EndCycleAgrees DEF Cancels, Resumes
  <1>6. CASE CrashOnTerminal(t)
    BY <1>6, EndCycleAgrees DEF CrashOnTerminal, Resumes
  <1>7. CASE BeginCycle(t) \/ DispatcherCancelled(t) \/ CrashOnStarted(t) \/ FailQueued(t)
    <2> SUFFICES ASSUME NEW s \in Threads
                 PROVE  Agrees(s)'
      BY DEF HostTables, Agrees
    <2>0. Agrees(s) /\ Agrees(t)
      BY DEF HostTables, Agrees
    <2>1. CASE BeginCycle(t)
      BY <2>0, <2>1 DEF BeginCycle, Ready, Agrees, TypeOK, hostVars, callVars
    <2>2. CASE DispatcherCancelled(t)
      BY <2>0, <2>2 DEF DispatcherCancelled, Agrees, TypeOK, hostVars, callVars
    <2>3. CASE CrashOnStarted(t)
      BY <2>0, <2>3 DEF CrashOnStarted, Ready, Agrees, TypeOK, hostVars, callVars
    <2>4. CASE FailQueued(t)
      BY <2>0, <2>4 DEF FailQueued, Agrees, TypeOK, hostVars, callVars
    <2> QED
      BY <1>7, <2>1, <2>2, <2>3, <2>4
  <1> QED
    BY <1>1, <1>2, <1>3, <1>4, <1>5, <1>6, <1>7 DEF Dispatcher

\* The remaining steps of a thread, and the steps that are no single thread's.
LEMMA OtherAgrees ==
    ASSUME TypeOK, HostTables, NEW t \in Threads,
           Execute(t) \/ Reap(t) \/ HardTermination(t)
    PROVE  HostTables'
  <1>1. CASE Execute(t)
    BY <1>1 DEF Execute, CycleEnds, CycleGivesUp, HostTables, hostVars, callVars
  <1>2. CASE Reap(t)
    BY <1>2 DEF Reap, HostTables, taskVars, callVars
  <1>3. CASE TerminateNowCycleGone(t)
    BY <1>3, HardStopAgrees DEF TerminateNowCycleGone
  <1>4. CASE TerminateNowEnds(t)
    BY <1>4, TeardownAgrees DEF TerminateNowEnds
  <1> QED
    BY <1>1, <1>2, <1>3, <1>4 DEF HardTermination

LEMMA SharedAgrees ==
    ASSUME TypeOK, HostTables,
           (\E r \in Requests : Withdraw(r)) \/ CloseBegins \/ CloseDrained \/ CloseEnds \/ LoseWorker
    PROVE  HostTables'
  <1>1. CASE \E r \in Requests : Withdraw(r)
    BY <1>1 DEF Withdraw, HostTables, hostVars, taskVars, callVars
  <1>2. CASE CloseBegins
    BY <1>2 DEF CloseBegins, HostTables, hostVars
  <1>3. CASE CloseDrained
    BY <1>3 DEF CloseDrained, HostTables, hostVars, taskVars
  <1>4. CASE CloseEnds
    BY <1>4 DEF CloseEnds, HostTables, taskVars
  <1>5. CASE LoseWorker
    BY <1>5 DEF LoseWorker, HostTables, hostVars, taskVars, callVars
  <1> QED
    BY <1>1, <1>2, <1>3, <1>4, <1>5

LEMMA TablesStep ==
    ASSUME TypeOK, HostTables, [Next]_vars
    PROVE  HostTables'
  <1>1. CASE UNCHANGED vars
    BY <1>1 DEF vars, hostVars, taskVars, callVars, HostTables
  <1>2. CASE Next
    BY <1>2, CallAgrees, DispatcherAgrees, OtherAgrees, SharedAgrees DEF Next
  <1> QED
    BY <1>1, <1>2

\* Nothing is registered, hosted or pending at the start.
LEMMA InitHolds == Init => TypeOK /\ HostTables /\ NoOrphan
  <1> SUFFICES ASSUME Init
               PROVE  TypeOK /\ HostTables /\ NoOrphan
    OBVIOUS
  <1>1. log \in [Threads -> Seq(Event)] /\ queue \in [Threads -> Seq(Requests \cup {TerminateAfterIdle})]
    BY DEF Init
  <1>2. TypeOK
    BY <1>1 DEF Init, TypeOK, Statuses
  <1>3. HostTables
    BY DEF Init, HostTables
  <1>4. NoOrphan
    BY DEF Init, NoOrphan, Pending
  <1> QED
    BY <1>2, <1>3, <1>4

\* Every variable of the runtime keeps its type, for any number of threads and
\* requests, any bounds, and whatever the cycles and the event sink do.
THEOREM TypeCorrect == Spec => []TypeOK
  <1>1. Init => TypeOK /\ HostTables
    BY InitHolds
  <1>2. TypeOK /\ HostTables /\ [Next]_vars => (TypeOK /\ HostTables)'
    BY TypeStep, TablesStep
  <1> QED
    BY <1>1, <1>2, PTL DEF Spec

\* LocalWorker's parallel dictionaries never disagree about a thread, whatever
\* combination of spawns, cancels, terminations, closes and crashes ran.
LEMMA HostTablesAlways == Spec => [](TypeOK /\ HostTables)
  <1>1. Init => TypeOK /\ HostTables
    BY InitHolds
  <1>2. TypeOK /\ HostTables /\ [Next]_vars => (TypeOK /\ HostTables)'
    BY TypeStep, TablesStep
  <1> QED
    BY <1>1, <1>2, PTL DEF Spec

----------------------------------------------------------------------------
(* The registry lists what the worker hosts, as long as no id is reused: a *)
(* deregistration is scheduled by the teardown that unhosts the thread,    *)
(* and an id once minted is never hosted again.                            *)

ListedInv ==
    \A t \in Threads :
        /\ t \in hosted \/ hard[t] # "none" \/ reap[t] # 0 => t \in minted
        /\ ~ReuseIds /\ t \in hosted => reap[t] = 0 /\ info[t] # "absent"

\* A step that hosts no new thread, deregisters none and schedules the
\* deregistration only of a thread it unhosts, keeps ListedInv.
LEMMA ListedKept ==
    ASSUME ListedInv, hosted' \subseteq hosted, minted' = minted,
           \A t \in Threads : hard'[t] \in {hard[t], "none"} \/ t \in minted,
           \A t \in Threads : reap'[t] = reap[t] \/ t \in minted \ hosted',
           \A t \in hosted' : info[t] # "absent" => info'[t] # "absent"
    PROVE  ListedInv'
  BY DEF ListedInv

\* A lifecycle event removes nobody from the registry.
LEMMA EmitLists ==
    ASSUME TypeOK, NEW t \in Threads, NEW events, Emit(t, events)
    PROVE  \A s \in Threads : info[s] # "absent" => info'[s] # "absent"
  BY DEF Emit, AfterEvent, TypeOK

LEMMA TeardownLists ==
    ASSUME TypeOK, ListedInv, NEW t \in Threads, t \in hosted \/ hard[t] # "none", Teardown(t),
           hard' = hard \/ hard' = [hard EXCEPT ![t] = "none"]
    PROVE  ListedInv'
  <1>1. t \in minted
    BY DEF ListedInv
  <1>2. /\ hosted' \subseteq hosted /\ minted' = minted /\ t \notin hosted'
        /\ info' = info
        /\ \A s \in Threads : hard'[s] \in {hard[s], "none"}
        /\ \A s \in Threads \ {t} : reap'[s] = reap[s]
    BY DEF Teardown, registryVars, TypeOK
  <1> QED
    BY <1>1, <1>2, ListedKept

LEMMA HardStopLists ==
    ASSUME TypeOK, ListedInv, NEW t \in Threads, t \in hosted \/ hard[t] = "task", HardStop(t)
    PROVE  ListedInv'
  <1>1. CASE KillDispatcher(t)
    <2>1. t \in minted
      BY DEF ListedInv
    <2>2. /\ UNCHANGED <<info, hosted, minted, reap>>
          /\ \A s \in Threads \ {t} : hard'[s] = hard[s]
      BY <1>1 DEF KillDispatcher, registryVars, hostVars, TypeOK
    <2> QED
      BY <2>1, <2>2, ListedKept
  <1>2. CASE Teardown(t) /\ hard' = [hard EXCEPT ![t] = "none"]
    BY <1>2, TeardownLists
  <1> QED
    BY <1>1, <1>2 DEF HardStop

LEMMA CallLists ==
    ASSUME TypeOK, ListedInv, NEW t \in Threads, Call(t)
    PROVE  ListedInv'
  <1>1. CASE Spawn(t)
    BY <1>1 DEF Spawn, Admit, ListedInv, TypeOK, callVars
  <1>2. CASE SpawnFails(t)
    BY <1>2 DEF SpawnFails, Admit, ListedInv, TypeOK, taskVars, callVars
  <1>3. CASE \E r \in Requests : Submit(t, r)
    BY <1>3, ListedKept DEF Submit, registryVars, hostVars, callVars
  <1>4. CASE Cancel(t)
    BY <1>4, ListedKept DEF Cancel, registryVars, hostVars, callVars
  <1>5. CASE Pause(t)
    BY <1>5, ListedKept DEF Pause, callVars, TypeOK
  <1>6. CASE Resume(t)
    BY <1>6, ListedKept DEF Resume, callVars, TypeOK
  <1>7. CASE Terminate(t)
    BY <1>7, ListedKept DEF Terminate, registryVars, hostVars, callVars
  <1>8. CASE TerminateNow(t)
    <2>1. CASE InFlight(t)
      <3>1. t \in minted
        BY <1>8 DEF TerminateNow, Routable, ListedInv
      <3>2. /\ UNCHANGED <<info, hosted, minted, reap>>
            /\ \A s \in Threads \ {t} : hard'[s] = hard[s]
        BY <1>8, <2>1 DEF TerminateNow, HardStop, registryVars, hostVars, TypeOK
      <3> QED
        BY <3>1, <3>2, ListedKept
    <2>2. CASE ~InFlight(t)
      BY <1>8, <2>2, HardStopLists DEF TerminateNow, Routable
    <2> QED
      BY <2>1, <2>2
  <1> QED
    BY <1>1, <1>2, <1>3, <1>4, <1>5, <1>6, <1>7, <1>8 DEF Call

LEMMA DispatcherLists ==
    ASSUME TypeOK, HostTables, ListedInv, NEW t \in Threads, Dispatcher(t)
    PROVE  ListedInv'
  <1> USE DEF hostVars, callVars
  <1> hosted \subseteq Threads
    BY DEF TypeOK
  <1>1. CASE BeginCycle(t)
    <2> DEFINE started == <<Ev("started", Head(queue[t]))>>
    <2>1. Emit(t, started)
      BY <1>1 DEF BeginCycle
    <2>2. \A s \in Threads : info[s] # "absent" => info'[s] # "absent"
      BY <2>1, EmitLists
    <2> QED
      BY <1>1, <2>2, ListedKept DEF BeginCycle
  <1>2. CASE CrashOnStarted(t) \/ CrashOnTerminal(t) \/ DispatcherCancelled(t) \/ FailQueued(t)
    BY <1>2, ListedKept
    DEF CrashOnStarted, CrashOnTerminal, EndCycle, DispatcherCancelled, FailQueued, registryVars
  <1>3. CASE TakeMarker(t)
    BY <1>3, TeardownLists DEF TakeMarker, Ready, HostTables
  <1>4. CASE Completes(t) \/ CompletesTooLate(t) \/ Cancels(t) \/ Fails(t)
    <2>1. PICK events : Emit(t, events)
      BY <1>4 DEF Completes, CompletesTooLate, Cancels, Fails
    <2>2. \A s \in Threads : info[s] # "absent" => info'[s] # "absent"
      BY <2>1, EmitLists
    <2> QED
      BY <1>4, <2>2, ListedKept DEF Completes, CompletesTooLate, Cancels, Fails, EndCycle
  <1> QED
    BY <1>1, <1>2, <1>3, <1>4 DEF Dispatcher

LEMMA OtherLists ==
    ASSUME TypeOK, ListedInv, NEW t \in Threads, Execute(t) \/ Reap(t) \/ HardTermination(t)
    PROVE  ListedInv'
  <1>1. CASE Execute(t)
    BY <1>1, ListedKept DEF Execute, CycleEnds, CycleGivesUp, registryVars, hostVars, callVars
  <1>2. CASE Reap(t)
    BY <1>2 DEF Reap, ListedInv, TypeOK, callVars
  <1>3. CASE TerminateNowCycleGone(t)
    BY <1>3, HardStopLists DEF TerminateNowCycleGone
  <1>4. CASE TerminateNowEnds(t)
    BY <1>4, TeardownLists DEF TerminateNowEnds
  <1> QED
    BY <1>1, <1>2, <1>3, <1>4 DEF HardTermination

LEMMA SharedLists ==
    ASSUME TypeOK, ListedInv,
           (\E r \in Requests : Withdraw(r)) \/ CloseBegins \/ CloseDrained \/ CloseEnds \/ LoseWorker
    PROVE  ListedInv'
  <1> hosted \subseteq Threads
    BY DEF TypeOK
  <1>1. CASE (\E r \in Requests : Withdraw(r)) \/ CloseBegins \/ CloseDrained
    BY <1>1, ListedKept DEF Withdraw, CloseBegins, CloseDrained, registryVars, hostVars, callVars
  <1>2. CASE CloseEnds
    BY <1>2, ListedKept DEF CloseEnds, DropWorker, registryVars
  <1>3. CASE LoseWorker
    BY <1>3, ListedKept DEF LoseWorker, DropWorker, hostVars, callVars
  <1> QED
    BY <1>1, <1>2, <1>3

LEMMA ListedStep ==
    ASSUME TypeOK, HostTables, ListedInv, [Next]_vars
    PROVE  ListedInv'
  <1>1. CASE UNCHANGED vars
    BY <1>1, ListedKept DEF vars, registryVars, hostVars, callVars
  <1>2. CASE Next
    BY <1>2, CallLists, DispatcherLists, OtherLists, SharedLists DEF Next
  <1> QED
    BY <1>1, <1>2

\* No teardown, close, loss of the worker or scheduled deregistration, in any
\* order, leaves a hosted thread that the registry cannot route to, and the
\* worker's own dictionaries never disagree about a thread: for any number of
\* threads and requests, with or without a failing event sink.
THEOREM TablesAlwaysAgree == Spec => []TablesAgree
  <1>1. Init => ListedInv
    BY DEF Init, ListedInv
  <1>2. TypeOK /\ HostTables /\ ListedInv /\ [Next]_vars => ListedInv'
    BY ListedStep
  <1>3. TypeOK /\ HostTables /\ ListedInv => TablesAgree
    BY DEF TablesAgree, HostedIsListed, ListedInv, TypeOK
  <1> QED
    BY <1>1, <1>2, <1>3, HostTablesAlways, PTL DEF Spec

----------------------------------------------------------------------------
(* No orphans: the safety half of I12, when the event sink does not fail.  *)

\* Without a failing sink every hosted thread answers for what it holds: its
\* dispatcher lives, or a terminate_now is on its way to tear it down.
LEMMA HostedIsServed ==
    ASSUME TypeOK, HostTables, ~SinkFails, NEW t \in hosted
    PROVE  disp[t] \in {"idle", "running"} \/ hard[t] = "dispatcher"
  BY DEF TypeOK, HostTables

\* So a pending request is an orphan only if no hosted thread holds it.
HeldBy(t, r) == t \in hosted /\ (r = current[t] \/ r \in Queued(t))

Held == \A r \in Requests : Pending(r) => \E t \in Threads : HeldBy(t, r)

LEMMA HeldIsNoOrphan ==
    ASSUME TypeOK, HostTables, ~SinkFails
    PROVE  NoOrphan <=> Held
  <1>1. NoOrphan => Held
    BY DEF NoOrphan, Held, HeldBy, TypeOK
  <1>2. Held => NoOrphan
    BY HostedIsServed DEF NoOrphan, Held, HeldBy
  <1> QED
    BY <1>1, <1>2

\* The contents of a work queue.
Item == Requests \cup {TerminateAfterIdle}

Elems(q) == {q[i] : i \in DOMAIN q}

\* Enqueueing adds its item and keeps the rest.
LEMMA AppendKeeps ==
    ASSUME NEW q \in Seq(Item), NEW x \in Item
    PROVE  x \in Elems(Append(q, x)) /\ Elems(q) \subseteq Elems(Append(q, x))
  <1>1. Len(q) + 1 \in DOMAIN Append(q, x) /\ Append(q, x)[Len(q) + 1] = x
    OBVIOUS
  <1>2. \A i \in DOMAIN q : i \in DOMAIN Append(q, x) /\ Append(q, x)[i] = q[i]
    OBVIOUS
  <1> QED
    BY <1>1, <1>2 DEF Elems

\* Taking the head of a queue loses nothing else.
LEMMA TailKeeps ==
    ASSUME NEW q \in Seq(Item), q # <<>>
    PROVE  Elems(q) \subseteq Elems(Tail(q)) \cup {Head(q)}
  <1> SUFFICES ASSUME NEW i \in DOMAIN q, q[i] # Head(q)
               PROVE  q[i] \in Elems(Tail(q))
    BY DEF Elems
  <1>1. i # 1 /\ i \in 2 .. Len(q)
    OBVIOUS
  <1>2. i - 1 \in DOMAIN Tail(q) /\ Tail(q)[i - 1] = q[i]
    BY <1>1
  <1> QED
    BY <1>2 DEF Elems

\* A step that holds on to every request keeps every pending one held.
LEMMA HeldStep ==
    ASSUME Held,
           \A r \in Requests : Pending(r)' => Pending(r),
           \A r \in Requests, t \in Threads : Pending(r)' /\ HeldBy(t, r) => HeldBy(t, r)'
    PROVE  Held'
  BY DEF Held

\* Settling futures makes none pending, and leaves none of its own pending.
LEMMA SettleSettles ==
    ASSUME TypeOK, NEW S, NEW outcome \in {"result", "error", "cancelled"}, Settle(S, outcome)
    PROVE  \A r \in Requests : Pending(r)' => Pending(r) /\ r \notin S
  BY DEF Settle, Pending, TypeOK

\* Teardown settles all that the thread held, once no cycle is in flight.
LEMMA TeardownHeld ==
    ASSUME TypeOK, HostTables, Held, NEW t \in Threads, disp[t] # "running", Teardown(t)
    PROVE  Held'
  <1>1. \A r \in Requests : Pending(r)' => Pending(r) /\ r \notin Queued(t)
    BY SettleSettles DEF Teardown
  <1>2. current[t] = NoRequest
    BY DEF HostTables
  <1>3. ASSUME NEW r \in Requests, NEW s \in Threads, Pending(r)', HeldBy(s, r)
        PROVE  HeldBy(s, r)'
    <2>1. s # t
      BY <1>1, <1>2, <1>3 DEF HeldBy
    <2>2. queue'[s] = queue[s] /\ current'[s] = current[s] /\ (s \in hosted')
      BY <1>3, <2>1 DEF Teardown, HeldBy, TypeOK
    <2> QED
      BY <1>3, <2>2 DEF HeldBy, Queued
  <1> QED
    BY <1>1, <1>3, HeldStep

\* A step that touches none of the tables that hold requests.
LEMMA StillHeld ==
    ASSUME Held, hosted \subseteq hosted', UNCHANGED <<queue, current>>,
           \A r \in Requests : Pending(r)' => Pending(r)
    PROVE  Held'
  BY DEF Held, HeldBy, Queued

LEMMA HardStopHeld ==
    ASSUME TypeOK, HostTables, Held, NEW t \in Threads, HardStop(t)
    PROVE  Held'
  <1>1. CASE KillDispatcher(t)
    BY <1>1, StillHeld DEF KillDispatcher, hostVars, Pending
  <1>2. CASE disp[t] \in TaskDone /\ Teardown(t)
    BY <1>2, TeardownHeld DEF TaskDone
  <1> QED
    BY <1>1, <1>2 DEF HardStop

\* The end of a cycle, once its own future is settled.
LEMMA EndCycleHeld ==
    ASSUME TypeOK, HostTables, Held, NEW t \in Threads, NEW next, EndCycle(t, next),
           \A r \in Requests : Pending(r)' => Pending(r) /\ r # current[t]
    PROVE  Held'
  <1>1. ASSUME NEW r \in Requests, NEW s \in Threads, Pending(r)', HeldBy(s, r)
        PROVE  HeldBy(s, r)'
    BY <1>1 DEF EndCycle, HeldBy, Queued, TypeOK, hostVars
  <1> QED
    BY <1>1, HeldStep

LEMMA CallHeld ==
    ASSUME TypeOK, HostTables, Held, NEW t \in Threads, Call(t)
    PROVE  Held'
  <1>1. CASE Spawn(t)
    BY <1>1, StillHeld DEF Spawn, Admit, futVars, Pending
  <1>2. CASE SpawnFails(t)
    BY <1>2, StillHeld DEF SpawnFails, Admit, taskVars, futVars, Pending
  <1>3. CASE \E r \in Requests : Submit(t, r)
    <2>1. PICK r \in Requests : Submit(t, r)
      BY <1>3
    <2> DEFINE q == queue[t]
    <2>2. q \in Seq(Item) /\ r \in Item
      BY DEF TypeOK, Item
    <2>3. r \in Queued(t)' /\ \A s \in Threads : Queued(s) \subseteq Queued(s)'
      <3>1. queue' = [queue EXCEPT ![t] = Append(q, r)]
        BY <2>1 DEF Submit
      <3>2. r \in Elems(Append(q, r)) /\ Elems(q) \subseteq Elems(Append(q, r))
        BY <2>2, AppendKeeps
      <3>3. queue'[t] = Append(q, r) /\ \A s \in Threads : s # t => queue'[s] = queue[s]
        BY <3>1 DEF TypeOK
      <3> QED
        BY <3>2, <3>3 DEF Queued, Elems
    <2>4. hosted' = hosted /\ current' = current /\ t \in hosted
      BY <2>1 DEF Submit, Routable, hostVars
    <2>5. \A x \in Requests : Pending(x)' => Pending(x) \/ x = r
      BY <2>1 DEF Submit, Pending, TypeOK
    <2> QED
      BY <2>3, <2>4, <2>5 DEF Held, HeldBy
  <1>4. CASE Cancel(t)
    BY <1>4, StillHeld DEF Cancel, hostVars, Pending
  <1>5. CASE Pause(t)
    BY <1>5, StillHeld DEF Pause, taskVars, futVars, Pending
  <1>6. CASE Resume(t)
    BY <1>6, StillHeld DEF Resume, taskVars, futVars, Pending
  <1>7. CASE Terminate(t)
    <2> DEFINE q == queue[t]
    <2>1. q \in Seq(Item) /\ TerminateAfterIdle \in Item
      BY DEF TypeOK, Item
    <2>2. Elems(q) \subseteq Elems(Append(q, TerminateAfterIdle))
      BY <2>1, AppendKeeps
    <2>3. queue'[t] = Append(q, TerminateAfterIdle) /\ \A s \in Threads : s # t => queue'[s] = queue[s]
      BY <1>7 DEF Terminate, TypeOK
    <2>4. \A s \in Threads : Queued(s) \subseteq Queued(s)'
      BY <2>2, <2>3 DEF Queued, Elems
    <2>5. hosted' = hosted /\ current' = current /\ fut' = fut
      BY <1>7 DEF Terminate, hostVars, futVars
    <2> QED
      BY <2>4, <2>5 DEF Held, HeldBy, Pending
  <1>8. CASE TerminateNow(t) /\ HardStop(t)
    BY <1>8, HardStopHeld
  <1>9. CASE TerminateNow(t) /\ ~HardStop(t)
    BY <1>9, StillHeld DEF TerminateNow, hostVars, Pending
  <1> QED
    BY <1>1, <1>2, <1>3, <1>4, <1>5, <1>6, <1>7, <1>8, <1>9 DEF Call

LEMMA DispatcherHeld ==
    ASSUME TypeOK, HostTables, ~SinkFails, Held, NEW t \in Threads, Dispatcher(t)
    PROVE  Held'
  <1>1. CASE BeginCycle(t)
    <2> DEFINE q == queue[t]
    <2>1. q \in Seq(Item) /\ q # <<>>
      BY <1>1 DEF BeginCycle, Ready, TypeOK, Item
    <2>2. /\ queue'[t] = Tail(q) /\ current'[t] = Head(q)
          /\ \A s \in Threads : s # t => queue'[s] = queue[s] /\ current'[s] = current[s]
      BY <1>1 DEF BeginCycle, TypeOK
    <2>3. Elems(q) \subseteq Elems(Tail(q)) \cup {Head(q)}
      BY <2>1, TailKeeps
    <2>4. current[t] = NoRequest
      BY <1>1 DEF BeginCycle, Ready, HostTables
    <2>5. hosted' = hosted /\ fut' = fut
      BY <1>1 DEF BeginCycle, hostVars, futVars
    <2>6. ASSUME NEW r \in Requests, NEW s \in Threads, HeldBy(s, r)
          PROVE  HeldBy(s, r)'
      <3>1. CASE s = t
        <4>1. r \in Elems(q) /\ t \in hosted
          BY <2>4, <2>6, <3>1 DEF HeldBy, Queued, Elems
        <4>2. r = current'[t] \/ r \in Elems(queue'[t])
          BY <2>2, <2>3, <4>1
        <4> QED
          BY <2>5, <3>1, <4>1, <4>2 DEF HeldBy, Queued, Elems
      <3>2. CASE s # t
        BY <2>2, <2>5, <2>6, <3>2 DEF HeldBy, Queued
      <3> QED
        BY <3>1, <3>2
    <2> QED
      BY <2>5, <2>6, HeldStep DEF Pending
  <1>2. CASE TakeMarker(t)
    BY <1>2, TeardownHeld DEF TakeMarker, Ready
  <1>3. CASE Completes(t)
    BY <1>3, SettleSettles, EndCycleHeld DEF Completes
  <1>4. CASE CompletesTooLate(t)
    BY <1>4, EndCycleHeld DEF CompletesTooLate, Pending
  <1>5. CASE Fails(t)
    BY <1>5, SettleSettles, EndCycleHeld DEF Fails
  <1>6. CASE Cancels(t)
    BY <1>6, SettleSettles, EndCycleHeld DEF Cancels
  <1>7. CASE DispatcherCancelled(t)
    BY <1>7, StillHeld DEF DispatcherCancelled, hostVars, futVars, Pending
  <1>8. ~CrashOnStarted(t) /\ ~CrashOnTerminal(t) /\ ~FailQueued(t)
    BY DEF CrashOnStarted, CrashOnTerminal, FailQueued, HostTables
  <1> QED
    BY <1>1, <1>2, <1>3, <1>4, <1>5, <1>6, <1>7, <1>8 DEF Dispatcher

LEMMA OtherHeld ==
    ASSUME TypeOK, HostTables, ~SinkFails, Held, NEW t \in Threads,
           Execute(t) \/ Reap(t) \/ HardTermination(t)
    PROVE  Held'
  <1>1. CASE Execute(t)
    BY <1>1, StillHeld DEF Execute, CycleEnds, CycleGivesUp, hostVars, futVars, Pending
  <1>2. CASE Reap(t)
    BY <1>2, StillHeld DEF Reap, taskVars, futVars, Pending
  <1>3. CASE TerminateNowCycleGone(t)
    BY <1>3, HardStopHeld DEF TerminateNowCycleGone
  <1>4. CASE TerminateNowEnds(t)
    BY <1>4, TeardownHeld DEF TerminateNowEnds, TaskDone
  <1> QED
    BY <1>1, <1>2, <1>3, <1>4 DEF HardTermination

LEMMA SharedHeld ==
    ASSUME TypeOK, HostTables, Held,
           (\E r \in Requests : Withdraw(r)) \/ CloseBegins \/ CloseDrained \/ CloseEnds \/ LoseWorker
    PROVE  Held'
  <1>1. CASE \E r \in Requests : Withdraw(r)
    BY <1>1, StillHeld DEF Withdraw, hostVars, taskVars, Pending, TypeOK
  <1>2. CASE CloseBegins
    <2>1. TerminateAfterIdle \in Item /\ \A s \in Threads : queue[s] \in Seq(Item)
      BY DEF TypeOK, Item
    <2>2. \A s \in Threads : queue'[s] = queue[s] \/ queue'[s] = Append(queue[s], TerminateAfterIdle)
      BY <1>2 DEF CloseBegins
    <2>3. \A s \in Threads : Elems(queue[s]) \subseteq Elems(queue'[s])
      BY <2>1, <2>2, AppendKeeps
    <2>4. \A s \in Threads : Queued(s) \subseteq Queued(s)'
      BY <2>3 DEF Queued, Elems
    <2>5. hosted' = hosted /\ current' = current /\ fut' = fut
      BY <1>2 DEF CloseBegins, hostVars, futVars
    <2> QED
      BY <2>4, <2>5 DEF Held, HeldBy, Pending
  <1>3. CASE CloseDrained
    BY <1>3, StillHeld DEF CloseDrained, hostVars, taskVars, futVars, Pending
  <1>4. CASE CloseEnds
    BY <1>4, StillHeld DEF CloseEnds, taskVars, futVars, Pending
  <1>5. CASE LoseWorker
    BY <1>5, StillHeld DEF LoseWorker, hostVars, taskVars, futVars, Pending
  <1> QED
    BY <1>1, <1>2, <1>3, <1>4, <1>5

LEMMA HeldStays ==
    ASSUME TypeOK, HostTables, ~SinkFails, Held, [Next]_vars
    PROVE  Held'
  <1>1. CASE UNCHANGED vars
    BY <1>1, StillHeld DEF vars, hostVars, taskVars, futVars, Pending
  <1>2. CASE Next
    BY <1>2, CallHeld, DispatcherHeld, OtherHeld, SharedHeld DEF Next
  <1> QED
    BY <1>1, <1>2

\* As long as append_event does not raise, no step of callers, dispatchers,
\* hard terminations or closes leaves a pending future that no hosted thread
\* is going to settle: for any number of threads and requests.
THEOREM NoOrphanEver ==
    ASSUME ~SinkFails
    PROVE  Spec => []NoOrphan
  <1> DEFINE IInv == TypeOK /\ HostTables /\ Held
  <1>1. Init => IInv
    BY InitHolds, HeldIsNoOrphan
  <1>2. IInv /\ [Next]_vars => IInv'
    BY TypeStep, TablesStep, HeldStays
  <1>3. IInv => NoOrphan
    BY HeldIsNoOrphan
  <1> QED
    BY <1>1, <1>2, <1>3, PTL DEF Spec

----------------------------------------------------------------------------
(* Whatever ends cancelled was asked to stop.                              *)

\* A cycle that is going to end in CancelledError, because it was cancelled,
\* because its dispatcher was, or because it may still find a cancel signal,
\* is the cycle of a request that something asked to cancel.
StopsAsked(t) ==
    disp[t] = "running" /\ (\/ kill[t] = "thrown"
                            \/ cycle[t] \in {"cancelling", "cancelled"}
                            \/ cycle[t] = "running" /\ t \in signal) => current[t] \in asked

AskedInv == CancelledWasAsked /\ \A t \in Threads : StopsAsked(t)

\* A step that cancels no future and touches the tasks of no thread.
LEMMA AskedKept ==
    ASSUME AskedInv, asked \subseteq asked', fut' = fut,
           UNCHANGED <<disp, kill, current, cycle, signal>>
    PROVE  AskedInv'
  BY DEF AskedInv, CancelledWasAsked, StopsAsked

\* Settling futures cancels only those it was told to cancel.
LEMMA SettleAsked ==
    ASSUME TypeOK, AskedInv, NEW S, NEW outcome \in {"result", "error", "cancelled"}, Settle(S, outcome),
           asked \subseteq asked', outcome = "cancelled" => S \cap Requests \subseteq asked'
    PROVE  CancelledWasAsked'
  BY DEF AskedInv, CancelledWasAsked, Settle, TypeOK

\* A dispatcher that awaits no cycle is asked for nothing.
LEMMA ParkedAsked ==
    ASSUME AskedInv, CancelledWasAsked', asked \subseteq asked', NEW t \in Threads,
           disp'[t] # "running" \/ StopsAsked(t)',
           \A s \in Threads \ {t} : /\ disp'[s] = disp[s] /\ kill'[s] = kill[s] /\ cycle'[s] = cycle[s]
                                    /\ current'[s] = current[s] /\ (s \in signal' => s \in signal)
    PROVE  AskedInv'
  BY DEF AskedInv, StopsAsked

LEMMA TeardownAsked ==
    ASSUME TypeOK, AskedInv, NEW t \in Threads, Teardown(t)
    PROVE  AskedInv'
  <1>1. CancelledWasAsked' /\ asked \subseteq asked'
    BY SettleAsked DEF Teardown
  <1>2. /\ disp' = [disp EXCEPT ![t] = "none"] /\ kill' = [kill EXCEPT ![t] = "no"]
        /\ cycle' = [cycle EXCEPT ![t] = "none"] /\ current' = [current EXCEPT ![t] = NoRequest]
        /\ signal' = signal \ {t}
    BY DEF Teardown
  <1> QED
    BY <1>1, <1>2, ParkedAsked DEF TypeOK

LEMMA KillAsked ==
    ASSUME TypeOK, HostTables, AskedInv, NEW t \in Threads, KillDispatcher(t)
    PROVE  AskedInv'
  <1>1. /\ disp' = disp /\ current' = current /\ signal' = signal /\ fut' = fut
        /\ asked' = asked \cup ({current[t]} \ {NoRequest})
    BY DEF KillDispatcher
  <1>2. \A s \in Threads \ {t} : kill'[s] = kill[s] /\ cycle'[s] = cycle[s]
    BY DEF KillDispatcher, TypeOK
  <1>3. CancelledWasAsked'
    BY <1>1 DEF AskedInv, CancelledWasAsked
  <1>4. disp'[t] # "running" \/ StopsAsked(t)'
    BY <1>1 DEF HostTables, StopsAsked
  <1> QED
    BY <1>1, <1>2, <1>3, <1>4, ParkedAsked

LEMMA HardStopAsked ==
    ASSUME TypeOK, HostTables, AskedInv, NEW t \in Threads, HardStop(t)
    PROVE  AskedInv'
  BY KillAsked, TeardownAsked DEF HardStop

\* The end of a cycle, once its future is settled as it should be.
LEMMA EndCycleAsked ==
    ASSUME TypeOK, AskedInv, CancelledWasAsked', NEW t \in Threads, NEW next, next # "running",
           EndCycle(t, next), signal' \subseteq signal, kill' = kill
    PROVE  AskedInv'
  <1>1. /\ disp' = [disp EXCEPT ![t] = next] /\ current' = [current EXCEPT ![t] = NoRequest]
        /\ cycle' = [cycle EXCEPT ![t] = "none"] /\ asked' = asked
    BY DEF EndCycle
  <1> QED
    BY <1>1, ParkedAsked DEF TypeOK

LEMMA CallAsked ==
    ASSUME TypeOK, HostTables, AskedInv, NEW t \in Threads, Call(t)
    PROVE  AskedInv'
  <1>1. CASE Spawn(t)
    <2>1. /\ disp' = [disp EXCEPT ![t] = "idle"] /\ fut' = fut /\ asked' = asked
          /\ UNCHANGED <<kill, current, cycle, signal>>
      BY <1>1 DEF Spawn, Admit, futVars
    <2> QED
      BY <2>1, ParkedAsked DEF TypeOK, AskedInv, CancelledWasAsked
  <1>2. CASE SpawnFails(t)
    BY <1>2, AskedKept DEF SpawnFails, Admit, taskVars, futVars
  <1>3. CASE \E r \in Requests : Submit(t, r)
    <2>1. asked' = asked /\ UNCHANGED <<disp, kill, current, cycle, signal>>
      BY <1>3 DEF Submit
    <2>2. \A r \in Requests : fut'[r] = "cancelled" => fut[r] = "cancelled"
      BY <1>3 DEF Submit, TypeOK
    <2> QED
      BY <2>1, <2>2 DEF AskedInv, CancelledWasAsked, StopsAsked
  <1>4. CASE Cancel(t)
    <2>1. /\ UNCHANGED <<disp, kill, current, fut>> /\ asked \subseteq asked'
          /\ \A s \in Threads \ {t} : cycle'[s] = cycle[s] /\ (s \in signal' => s \in signal)
      BY <1>4 DEF Cancel, TypeOK
    <2>2. CancelledWasAsked'
      BY <2>1 DEF AskedInv, CancelledWasAsked
    <2>3. disp'[t] # "running" \/ StopsAsked(t)'
      BY <1>4 DEF Cancel, InFlight, Undone, AskedInv, StopsAsked, TypeOK
    <2> QED
      BY <2>1, <2>2, <2>3, ParkedAsked
  <1>5. CASE Pause(t) \/ Resume(t)
    BY <1>5, AskedKept DEF Pause, Resume, taskVars, futVars
  <1>6. CASE Terminate(t)
    BY <1>6, AskedKept DEF Terminate, futVars
  <1>7. CASE TerminateNow(t)
    <2>1. CASE HardStop(t)
      BY <2>1, HardStopAsked
    <2>2. CASE ~HardStop(t)
      <3>1. /\ UNCHANGED <<disp, kill, current, signal, fut>> /\ asked' = asked \cup {current[t]}
            /\ \A s \in Threads \ {t} : cycle'[s] = cycle[s]
        BY <1>7, <2>2 DEF TerminateNow, TypeOK
      <3>2. CancelledWasAsked' /\ StopsAsked(t)'
        BY <3>1 DEF AskedInv, CancelledWasAsked, StopsAsked
      <3> QED
        BY <3>1, <3>2, ParkedAsked
    <2> QED
      BY <2>1, <2>2
  <1> QED
    BY <1>1, <1>2, <1>3, <1>4, <1>5, <1>6, <1>7 DEF Call

LEMMA DispatcherAsked ==
    ASSUME TypeOK, HostTables, AskedInv, NEW t \in Threads, Dispatcher(t)
    PROVE  AskedInv'
  <1>1. CASE BeginCycle(t)
    <2>1. /\ disp' = [disp EXCEPT ![t] = "running"] /\ cycle' = [cycle EXCEPT ![t] = "running"]
          /\ kill' = kill /\ kill[t] # "thrown" /\ signal' = signal \ {t}
          /\ \A s \in Threads \ {t} : current'[s] = current[s]
          /\ fut' = fut /\ asked' = asked
      BY <1>1 DEF BeginCycle, Ready, futVars, TypeOK
    <2>2. CancelledWasAsked' /\ StopsAsked(t)'
      BY <2>1 DEF AskedInv, CancelledWasAsked, StopsAsked, TypeOK
    <2> QED
      BY <2>1, <2>2, ParkedAsked DEF TypeOK
  <1>2. CASE TakeMarker(t)
    BY <1>2, TeardownAsked DEF TakeMarker
  <1>3. CASE Completes(t)
    BY <1>3, SettleAsked, EndCycleAsked DEF Completes, EndCycle
  <1>4. CASE CompletesTooLate(t)
    BY <1>4, EndCycleAsked DEF CompletesTooLate, EndCycle, AskedInv, CancelledWasAsked
  <1>5. CASE Fails(t)
    BY <1>5, SettleAsked, EndCycleAsked DEF Fails, EndCycle
  <1>6. CASE Cancels(t)
    <2>1. current[t] \in asked
      BY <1>6 DEF Cancels, Resumes, AskedInv, StopsAsked
    <2>2. CancelledWasAsked'
      BY <1>6, <2>1, SettleAsked DEF Cancels, EndCycle
    <2> QED
      BY <1>6, <2>2, EndCycleAsked DEF Cancels, EndCycle
  <1>7. CASE CrashOnTerminal(t)
    <2> DEFINE stopped == kill[t] = "thrown" \/ cycle[t] = "cancelled"
    <2>1. stopped => current[t] \in asked
      BY <1>7 DEF CrashOnTerminal, Resumes, AskedInv, StopsAsked
    <2>2. /\ Settle({current[t]}, IF stopped THEN "cancelled" ELSE "error")
          /\ asked' = asked /\ signal' \subseteq signal /\ kill' = kill /\ EndCycle(t, "crashed")
      BY <1>7 DEF CrashOnTerminal, EndCycle
    <2>3. CancelledWasAsked'
      BY <2>1, <2>2, SettleAsked
    <2> QED
      BY <2>2, <2>3, EndCycleAsked
  <1>8. CASE DispatcherCancelled(t) \/ CrashOnStarted(t) \/ FailQueued(t)
    <2>1. /\ disp'[t] # "running" /\ UNCHANGED <<kill, current, cycle, asked>> /\ signal' \subseteq signal
          /\ \A s \in Threads \ {t} : disp'[s] = disp[s]
      BY <1>8 DEF DispatcherCancelled, CrashOnStarted, FailQueued, futVars, TypeOK
    <2>2. CancelledWasAsked'
      <3>1. CASE fut' = fut
        BY <2>1, <3>1 DEF AskedInv, CancelledWasAsked
      <3>2. CASE FailQueued(t)
        BY <2>1, <3>2, SettleAsked DEF FailQueued
      <3> QED
        BY <1>8, <3>1, <3>2 DEF DispatcherCancelled, CrashOnStarted, futVars
    <2> QED
      BY <2>1, <2>2, ParkedAsked
  <1> QED
    BY <1>1, <1>2, <1>3, <1>4, <1>5, <1>6, <1>7, <1>8 DEF Dispatcher

LEMMA OtherAsked ==
    ASSUME TypeOK, HostTables, AskedInv, NEW t \in Threads, Execute(t) \/ Reap(t) \/ HardTermination(t)
    PROVE  AskedInv'
  <1>1. CASE Execute(t)
    <2>1. /\ UNCHANGED <<disp, kill, current, signal, fut>> /\ asked \subseteq asked'
          /\ \A s \in Threads \ {t} : cycle'[s] = cycle[s]
      BY <1>1 DEF Execute, CycleEnds, CycleGivesUp, futVars, TypeOK
    <2>2. CancelledWasAsked'
      BY <2>1 DEF AskedInv, CancelledWasAsked
    <2>3. StopsAsked(t)'
      <3>1. CASE CycleGivesUp(t)
        BY <3>1 DEF CycleGivesUp, StopsAsked
      <3>2. CASE \E o \in {"ok", "raised", "cancelled"} : CycleEnds(t, o)
        BY <2>1, <3>2 DEF CycleEnds, InFlight, Undone, AskedInv, StopsAsked, TypeOK
      <3> QED
        BY <1>1, <3>1, <3>2 DEF Execute
    <2> QED
      BY <2>1, <2>2, <2>3, ParkedAsked
  <1>2. CASE Reap(t)
    BY <1>2, AskedKept DEF Reap, taskVars, futVars
  <1>3. CASE TerminateNowCycleGone(t)
    BY <1>3, HardStopAsked DEF TerminateNowCycleGone
  <1>4. CASE TerminateNowEnds(t)
    BY <1>4, TeardownAsked DEF TerminateNowEnds
  <1> QED
    BY <1>1, <1>2, <1>3, <1>4 DEF HardTermination

LEMMA SharedAsked ==
    ASSUME TypeOK, AskedInv,
           (\E r \in Requests : Withdraw(r)) \/ CloseBegins \/ CloseDrained \/ CloseEnds \/ LoseWorker
    PROVE  AskedInv'
  <1>1. CASE \E r \in Requests : Withdraw(r)
    BY <1>1 DEF Withdraw, taskVars, AskedInv, CancelledWasAsked, StopsAsked, TypeOK
  <1>2. CASE CloseBegins \/ CloseDrained \/ CloseEnds \/ LoseWorker
    BY <1>2, AskedKept DEF CloseBegins, CloseDrained, CloseEnds, LoseWorker, taskVars, futVars
  <1> QED
    BY <1>1, <1>2

\* A request ends cancelled only if something asked for that very request to
\* stop: no cancel signal left over from one cycle, no cancellation of a
\* dispatcher and no teardown, in any order, reaches a request beyond those it
\* was meant for.  For any number of threads and requests, with or without a
\* failing event sink.
THEOREM CancelledAlwaysWasAsked == Spec => []CancelledWasAsked
  <1>1. Init => AskedInv
    BY DEF Init, AskedInv, CancelledWasAsked, StopsAsked
  <1>2. TypeOK /\ HostTables /\ AskedInv /\ [Next]_vars => AskedInv'
    <2>1. ASSUME AskedInv, UNCHANGED vars PROVE AskedInv'
      BY <2>1, AskedKept DEF vars, taskVars, futVars
    <2> QED
      BY <2>1, CallAsked, DispatcherAsked, OtherAsked, SharedAsked DEF Next
  <1>3. AskedInv => CancelledWasAsked
    BY DEF AskedInv
  <1> QED
    BY <1>1, <1>2, <1>3, HostTablesAlways, PTL DEF Spec

----------------------------------------------------------------------------
(* What the runtime reports of a thread.                                   *)

----------------------------------------------------------------------------
(* Sequences of events and of work items.                                  *)

\* What emitting one event, or two, does to the log of a thread.
LEMMA EmitOneLog ==
    ASSUME TypeOK, NEW t \in Threads, NEW e \in Event, Emit(t, <<e>>)
    PROVE  log' = [log EXCEPT ![t] = Append(log[t], e)]
  <1>1. log[t] \in Seq(Event)
    BY DEF TypeOK
  <1>2. log[t] \o <<e>> = Append(log[t], e)
    BY <1>1
  <1> QED
    BY <1>2 DEF Emit

LEMMA EmitTwoLog ==
    ASSUME TypeOK, NEW t \in Threads, NEW d \in Event, NEW e \in Event, Emit(t, <<d, e>>)
    PROVE  log' = [log EXCEPT ![t] = Append(Append(log[t], d), e)]
  <1>1. log[t] \in Seq(Event)
    BY DEF TypeOK
  <1>2. log[t] \o <<d, e>> = Append(Append(log[t], d), e)
    BY <1>1
  <1> QED
    BY <1>2 DEF Emit

\* No request stands in a queue twice.
Distinct(q) == \A i, j \in DOMAIN q : q[i] = q[j] /\ q[i] \in Requests => i = j

LEMMA TailDistinct ==
    ASSUME NEW q \in Seq(Item), q # <<>>, Distinct(q)
    PROVE  /\ Distinct(Tail(q)) /\ Elems(Tail(q)) \subseteq Elems(q) /\ Head(q) \in Elems(q)
           /\ Head(q) \in Requests => Head(q) \notin Elems(Tail(q))
  <1>1. \A i \in DOMAIN Tail(q) : i \in Nat /\ i # 0 /\ i + 1 \in DOMAIN q /\ Tail(q)[i] = q[i + 1]
    OBVIOUS
  <1>2. 1 \in DOMAIN q /\ Head(q) = q[1]
    OBVIOUS
  <1>3. Distinct(Tail(q))
    BY <1>1 DEF Distinct
  <1> QED
    BY <1>1, <1>2, <1>3 DEF Distinct, Elems

LEMMA AppendDistinct ==
    ASSUME NEW q \in Seq(Item), NEW x \in Item, Distinct(q), x \in Requests => x \notin Elems(q)
    PROVE  Distinct(Append(q, x)) /\ Elems(Append(q, x)) = Elems(q) \cup {x}
  <1> DEFINE p == Append(q, x)
  <1>1. Len(q) \in Nat /\ DOMAIN q = 1 .. Len(q) /\ DOMAIN p = 1 .. Len(q) + 1 /\ p[Len(q) + 1] = x
    OBVIOUS
  <1>2. \A i \in DOMAIN q : p[i] = q[i]
    OBVIOUS
  <1>3. \A i \in DOMAIN p : i = Len(q) + 1 \/ i \in DOMAIN q
    BY <1>1
  <1> HIDE DEF p
  <1>4. Distinct(p)
    BY <1>1, <1>2, <1>3 DEF Distinct, Elems
  <1>5. Elems(p) = Elems(q) \cup {x}
    BY <1>1, <1>2, <1>3 DEF Elems
  <1> QED
    BY <1>4, <1>5 DEF p

----------------------------------------------------------------------------
(* Each request is held once, and not settled with an answer while it is.  *)

Holds(t) == Queued(t) \cup ({current[t]} \cap Requests)

HeldOnce ==
    /\ \A t \in Threads : Distinct(queue[t]) /\ current[t] \notin Queued(t)
    /\ \A s, t \in Threads : s # t => Holds(s) \cap Holds(t) = {}

Unanswered == \A t \in Threads : \A r \in Holds(t) : fut[r] \in {"pending", "cancelled"}

\* A step that takes nothing new in hand.
LEMMA HoldsLess ==
    ASSUME HeldOnce, Unanswered,
           \A t \in Threads : /\ Holds(t)' \subseteq Holds(t)
                              /\ Distinct(queue'[t]) /\ current'[t] \notin Queued(t)'
                              /\ \A r \in Holds(t)' : fut'[r] \in {fut[r], "cancelled"}
    PROVE  HeldOnce' /\ Unanswered'
  BY DEF HeldOnce, Unanswered

\* A settled future never changes again, and a new one only becomes pending.
Settled == {"result", "error", "cancelled"}

FuturesGoOn ==
    \A r \in Requests : /\ fut[r] \in Settled => fut'[r] = fut[r]
                        /\ fut'[r] = "result" => fut[r] \in {"result", "pending"}

LEMMA SettleGoesOn ==
    ASSUME TypeOK, NEW S, NEW outcome \in Settled, Settle(S, outcome)
    PROVE  /\ FuturesGoOn
           /\ \A r \in Requests \ S : fut'[r] = fut[r]
           /\ \A r \in S \cap Requests : fut'[r] = IF fut[r] = "pending" THEN outcome ELSE fut[r]
  BY DEF Settle, Pending, FuturesGoOn, Settled, TypeOK

----------------------------------------------------------------------------
(* The log says what the callers got.                                      *)

EventIsTrue(e) ==
    /\ e.kind = "completed" => fut[e.req] = "result"
    /\ e.kind = "failed" => fut[e.req] \in {"error", "cancelled"}
    /\ e.kind = "cancelled" => fut[e.req] = "cancelled"

Completed(r) == \E t \in Threads : \E i \in DOMAIN log[t] : log[t][i] = Ev("completed", r)

LEMMA LogInTwo ==
    LogAgreesWithFutures <=> /\ \A t \in Threads : \A i \in DOMAIN log[t] : EventIsTrue(log[t][i])
                             /\ \A r \in Requests : fut[r] = "result" => Completed(r)
  BY DEF LogAgreesWithFutures, EventIsTrue, Completed

\* What an event says of a settled future stays true.
LEMMA EventStaysTrue ==
    ASSUME NEW e \in Event, EventIsTrue(e), FuturesGoOn
    PROVE  EventIsTrue(e)'
  BY DEF EventIsTrue, FuturesGoOn, Settled, Event

LEMMA LogKept ==
    ASSUME TypeOK, LogAgreesWithFutures, FuturesGoOn, log' = log,
           \A r \in Requests : fut'[r] = "result" => fut[r] = "result"
    PROVE  LogAgreesWithFutures'
  <1>1. ASSUME NEW t \in Threads, NEW i \in DOMAIN log[t] PROVE EventIsTrue(log[t][i])'
    <2>1. log[t][i] \in Event /\ EventIsTrue(log[t][i])
      BY LogInTwo DEF TypeOK
    <2>2. EventIsTrue(log[t][i])' <=> /\ log[t][i].kind = "completed" => fut'[log[t][i].req] = "result"
                                      /\ log[t][i].kind = "failed" => fut'[log[t][i].req] \in {"error", "cancelled"}
                                      /\ log[t][i].kind = "cancelled" => fut'[log[t][i].req] = "cancelled"
      BY DEF EventIsTrue
    <2> QED
      BY <2>1, <2>2 DEF EventIsTrue, FuturesGoOn, Settled, Event
  <1>2. \A r \in Requests : fut'[r] = "result" => Completed(r)'
    BY LogInTwo DEF Completed
  <1> QED
    BY <1>1, <1>2 DEF LogAgreesWithFutures, EventIsTrue, Completed

\* One more event, which is true, in the log of one thread.
LEMMA LogGrows ==
    ASSUME TypeOK, NEW q \in Seq(Event), NEW e \in Event, NEW p, p = Append(q, e)
    PROVE  /\ \A i \in DOMAIN q : i \in DOMAIN p /\ p[i] = q[i]
           /\ \A i \in DOMAIN p : (i \in DOMAIN q /\ p[i] = q[i]) \/ p[i] = e
           /\ \E i \in DOMAIN p : p[i] = e
           /\ p \in Seq(Event)
  <1>1. Len(q) + 1 \in DOMAIN p /\ p[Len(q) + 1] = e
    OBVIOUS
  <1>2. \A i \in DOMAIN q : i \in DOMAIN p /\ p[i] = q[i]
    OBVIOUS
  <1>3. \A i \in DOMAIN p : i \in DOMAIN q \/ i = Len(q) + 1
    OBVIOUS
  <1> QED
    BY <1>1, <1>2, <1>3

\* The log of thread t grew: what was in it stays, what is new is true.
LEMMA LogAgrees ==
    ASSUME TypeOK, LogAgreesWithFutures, FuturesGoOn, NEW t \in Threads,
           \A s \in Threads \ {t} : log'[s] = log[s],
           \A i \in DOMAIN log[t] : i \in DOMAIN log'[t] /\ log'[t][i] = log[t][i],
           \A i \in DOMAIN log'[t] :
               \/ i \in DOMAIN log[t] /\ log'[t][i] = log[t][i]
               \/ /\ log'[t][i].kind = "completed" => fut'[log'[t][i].req] = "result"
                  /\ log'[t][i].kind = "failed" => fut'[log'[t][i].req] \in {"error", "cancelled"}
                  /\ log'[t][i].kind = "cancelled" => fut'[log'[t][i].req] = "cancelled",
           \A r \in Requests : fut'[r] = "result" =>
               fut[r] = "result" \/ \E i \in DOMAIN log'[t] : log'[t][i] = Ev("completed", r)
    PROVE  LogAgreesWithFutures'
  <1>1. ASSUME NEW s \in Threads, NEW i \in DOMAIN log'[s]
        PROVE  /\ log'[s][i].kind = "completed" => fut'[log'[s][i].req] = "result"
               /\ log'[s][i].kind = "failed" => fut'[log'[s][i].req] \in {"error", "cancelled"}
               /\ log'[s][i].kind = "cancelled" => fut'[log'[s][i].req] = "cancelled"
    <2>1. CASE i \in DOMAIN log[s] /\ log'[s][i] = log[s][i]
      <3>1. log[s][i] \in Event /\ EventIsTrue(log[s][i])
        BY <2>1, LogInTwo DEF TypeOK
      <3> QED
        BY <2>1, <3>1 DEF EventIsTrue, FuturesGoOn, Settled, Event
    <2>2. CASE ~(i \in DOMAIN log[s] /\ log'[s][i] = log[s][i])
      BY <2>2
    <2> QED
      BY <2>1, <2>2
  <1>2. ASSUME NEW r \in Requests, fut'[r] = "result"
        PROVE  \E s \in Threads : \E i \in DOMAIN log'[s] : log'[s][i] = Ev("completed", r)
    <2>1. CASE fut[r] = "result"
      <3>1. PICK s \in Threads : \E i \in DOMAIN log[s] : log[s][i] = Ev("completed", r)
        BY <2>1, LogInTwo DEF Completed
      <3> QED
        BY <3>1
    <2> QED
      BY <1>2, <2>1
  <1>3. \A r : Ev("completed", r)' = Ev("completed", r)
    BY DEF Ev
  <1> QED
    BY <1>1, <1>2, <1>3 DEF LogAgreesWithFutures
\* One event more, or two, of which the last names a request that is settled
\* accordingly, and only it may have got a result.
Fits(e, r) ==
    /\ e.kind = "completed" => fut'[r] = "result"
    /\ e.kind = "failed" => fut'[r] \in {"error", "cancelled"}
    /\ e.kind = "cancelled" => fut'[r] = "cancelled"

LEMMA LogGrowsOne ==
    ASSUME TypeOK, LogAgreesWithFutures, FuturesGoOn, NEW t \in Threads, NEW e \in Event,
           log' = [log EXCEPT ![t] = Append(log[t], e)], Fits(e, e.req),
           \A q \in Requests : fut'[q] = "result" => fut[q] = "result"
    PROVE  LogAgreesWithFutures'
  <1> DEFINE p == Append(log[t], e)
  <1>1. log[t] \in Seq(Event)
    BY DEF TypeOK
  <1>2. /\ \A i \in DOMAIN log[t] : i \in DOMAIN p /\ p[i] = log[t][i]
        /\ \A i \in DOMAIN p : (i \in DOMAIN log[t] /\ p[i] = log[t][i]) \/ p[i] = e
    BY <1>1, LogGrows
  <1> HIDE DEF p
  <1>3. log'[t] = p /\ \A u \in Threads \ {t} : log'[u] = log[u]
    BY DEF p, TypeOK
  <1>4. \A i \in DOMAIN p : \/ i \in DOMAIN log[t] /\ p[i] = log[t][i]
                            \/ /\ p[i].kind = "completed" => fut'[p[i].req] = "result"
                               /\ p[i].kind = "failed" => fut'[p[i].req] \in {"error", "cancelled"}
                               /\ p[i].kind = "cancelled" => fut'[p[i].req] = "cancelled"
    BY <1>2 DEF Fits
  <1> QED
    BY <1>2, <1>3, <1>4, LogAgrees

LEMMA LogGrowsTwo ==
    ASSUME TypeOK, LogAgreesWithFutures, FuturesGoOn, NEW t \in Threads, NEW d \in Event, NEW e \in Event,
           log' = [log EXCEPT ![t] = Append(Append(log[t], d), e)], d.kind = "result", Fits(e, e.req),
           \A q \in Requests : fut'[q] = "result" => fut[q] = "result" \/ e = Ev("completed", q)
    PROVE  LogAgreesWithFutures'
  <1> DEFINE p == Append(log[t], d)
  <1>1. log[t] \in Seq(Event)
    BY DEF TypeOK
  <1>2. /\ \A i \in DOMAIN log[t] : i \in DOMAIN p /\ p[i] = log[t][i]
        /\ \A i \in DOMAIN p : (i \in DOMAIN log[t] /\ p[i] = log[t][i]) \/ p[i] = d
        /\ p \in Seq(Event)
    BY <1>1, LogGrows
  <1> HIDE DEF p
  <1>0. PICK s : s = Append(p, e)
    OBVIOUS
  <1>3. /\ \A i \in DOMAIN p : i \in DOMAIN s /\ s[i] = p[i]
        /\ \A i \in DOMAIN s : (i \in DOMAIN p /\ s[i] = p[i]) \/ s[i] = e
        /\ \E i \in DOMAIN s : s[i] = e
    BY <1>0, <1>2, LogGrows
  <1>4. log'[t] = s /\ \A u \in Threads \ {t} : log'[u] = log[u]
    BY <1>0 DEF p, TypeOK
  <1>5. \A i \in DOMAIN log[t] : i \in DOMAIN s /\ s[i] = log[t][i]
    BY <1>2, <1>3
  <1>6. \A i \in DOMAIN s : \/ i \in DOMAIN log[t] /\ s[i] = log[t][i]
                            \/ /\ s[i].kind = "completed" => fut'[s[i].req] = "result"
                               /\ s[i].kind = "failed" => fut'[s[i].req] \in {"error", "cancelled"}
                               /\ s[i].kind = "cancelled" => fut'[s[i].req] = "cancelled"
    <2> SUFFICES ASSUME NEW i \in DOMAIN s, ~(i \in DOMAIN log[t] /\ s[i] = log[t][i])
                 PROVE  s[i] = d \/ s[i] = e
      BY DEF Fits
    <2> QED
      BY <1>2, <1>3
  <1>7. \A q \in Requests : fut'[q] = "result" =>
            fut[q] = "result" \/ \E i \in DOMAIN s : s[i] = Ev("completed", q)
    BY <1>3
  <1> QED
    BY <1>4, <1>5, <1>6, <1>7, LogAgrees

----------------------------------------------------------------------------
(* The steps, one lemma per group of actions.                              *)

LogInv == HeldOnce /\ Unanswered /\ LogAgreesWithFutures

\* A step that only lets callers withdraw, if anything.
LEMMA LogUntouched ==
    ASSUME TypeOK, LogInv, UNCHANGED <<queue, current, log>>,
           \A r \in Requests : \/ fut'[r] = fut[r]
                               \/ fut[r] = "pending" /\ fut'[r] = "cancelled"
    PROVE  LogInv'
  <1>1. \A t \in Threads : Queued(t)' = Queued(t) /\ Holds(t)' = Holds(t)
    BY DEF Queued, Holds
  <1>2. \A t \in Threads : /\ Distinct(queue'[t]) /\ current'[t] \notin Queued(t)'
                           /\ \A r \in Holds(t)' : fut'[r] \in {fut[r], "cancelled"}
    BY <1>1 DEF LogInv, HeldOnce, Holds, Queued
  <1>3. HeldOnce' /\ Unanswered'
    BY <1>1, <1>2, HoldsLess DEF LogInv
  <1>4. FuturesGoOn
    BY DEF FuturesGoOn, Settled
  <1> QED
    BY <1>3, <1>4, LogKept DEF LogInv

\* A step that settles what thread t holds, and takes it out of its hands.
LEMMA SettleHolds ==
    ASSUME TypeOK, HeldOnce, Unanswered, NEW t \in Threads, NEW S, NEW outcome \in Settled,
           Settle(S, outcome), S \cap Requests \subseteq Holds(t),
           Holds(t)' \subseteq Holds(t) \ S, Distinct(queue'[t]), current'[t] \notin Queued(t)',
           \A s \in Threads \ {t} : queue'[s] = queue[s] /\ current'[s] = current[s]
    PROVE  HeldOnce' /\ Unanswered'
  <1>1. \A s \in Threads \ {t} : Queued(s)' = Queued(s) /\ Holds(s)' = Holds(s)
    BY DEF Queued, Holds
  <1>2. \A s \in Threads : Holds(s) \subseteq Requests
    BY DEF Holds, Queued
  <1>3. \A s \in Threads \ {t} : \A r \in Holds(s) : r \notin S
    BY <1>2 DEF HeldOnce
  <1>4. \A r \in Requests \ S : fut'[r] = fut[r]
    BY SettleGoesOn
  <1>5. \A s \in Threads : \A r \in Holds(s)' : fut'[r] = fut[r]
    BY <1>1, <1>2, <1>3, <1>4
  <1>6. \A s \in Threads : /\ Holds(s)' \subseteq Holds(s)
                           /\ Distinct(queue'[s]) /\ current'[s] \notin Queued(s)'
    BY <1>1 DEF HeldOnce
  <1> QED
    BY <1>5, <1>6, HoldsLess

LEMMA NothingHeld ==
    ASSUME NEW t \in Threads, queue'[t] = <<>>, current'[t] = NoRequest
    PROVE  Holds(t)' = {} /\ Distinct(queue'[t]) /\ current'[t] \notin Queued(t)'
  <1>1. DOMAIN <<>> = {}
    OBVIOUS
  <1> QED
    BY <1>1 DEF Holds, Queued, Distinct

LEMMA TeardownLogs ==
    ASSUME TypeOK, LogInv, NEW t \in Threads, Teardown(t)
    PROVE  LogInv'
  <1>1. /\ Settle(Queued(t), "cancelled") /\ log' = log
        /\ queue' = [queue EXCEPT ![t] = <<>>] /\ current' = [current EXCEPT ![t] = NoRequest]
    BY DEF Teardown, registryVars
  <1>2. HeldOnce' /\ Unanswered'
    <2>1. Queued(t) \cap Requests \subseteq Holds(t)
      BY DEF Holds
    <2>2. Holds(t)' = {} /\ Distinct(queue'[t]) /\ current'[t] \notin Queued(t)'
      BY <1>1, NothingHeld DEF TypeOK
    <2> QED
      BY <1>1, <2>1, <2>2, SettleHolds DEF LogInv, TypeOK, Settled
  <1>3. FuturesGoOn
    BY <1>1, SettleGoesOn DEF Settled
  <1>4. \A r \in Requests : fut'[r] = "result" => fut[r] = "result"
    BY <1>1 DEF Settle
  <1> QED
    BY <1>1, <1>2, <1>3, <1>4, LogKept DEF LogInv

LEMMA HardStopLogs ==
    ASSUME TypeOK, LogInv, NEW t \in Threads, HardStop(t)
    PROVE  LogInv'
  <1>1. CASE KillDispatcher(t)
    BY <1>1, LogUntouched DEF KillDispatcher, registryVars
  <1> QED
    BY <1>1, TeardownLogs DEF HardStop

\* One more item at the end of the queue of a thread.
LEMMA QueueGrows ==
    ASSUME TypeOK, HeldOnce, NEW t \in Threads, NEW x \in Item,
           \A s \in Threads : x \in Requests => x \notin Holds(s),
           queue'[t] = Append(queue[t], x), current'[t] = current[t]
    PROVE  /\ Holds(t)' = Holds(t) \cup ({x} \cap Requests)
           /\ Distinct(queue'[t]) /\ current'[t] \notin Queued(t)'
  <1>1. queue[t] \in Seq(Item) /\ Distinct(queue[t])
    BY DEF TypeOK, Item, HeldOnce
  <1>2. Queued(t) = Elems(queue[t]) \cap Requests /\ Queued(t)' = Elems(queue'[t]) \cap Requests
    BY DEF Queued, Elems
  <1>3. x \in Requests => x \notin Elems(queue[t]) /\ x # current[t]
    BY <1>2 DEF Holds
  <1>4. Distinct(queue'[t]) /\ Elems(queue'[t]) = Elems(queue[t]) \cup {x}
    BY <1>1, <1>3, AppendDistinct
  <1>5. Queued(t)' = Queued(t) \cup ({x} \cap Requests)
    BY <1>2, <1>4
  <1> QED
    BY <1>3, <1>4, <1>5 DEF Holds, HeldOnce

LEMMA CallLogs ==
    ASSUME TypeOK, HostTables, LogInv, NEW t \in Threads, Call(t)
    PROVE  LogInv'
  <1>1. CASE Spawn(t) \/ SpawnFails(t)
    BY <1>1, LogUntouched DEF Spawn, SpawnFails, Admit, taskVars, futVars
  <1>2. CASE \E r \in Requests : Submit(t, r)
    <2>1. PICK r \in Requests : Submit(t, r)
      BY <1>2
    <2>2. /\ fut[r] = "new" /\ fut' = [fut EXCEPT ![r] = "pending"]
          /\ queue' = [queue EXCEPT ![t] = Append(queue[t], r)] /\ current' = current /\ log' = log
      BY <2>1 DEF Submit, registryVars
    <2>3. \A s \in Threads : r \notin Holds(s)
      BY <2>2 DEF LogInv, Unanswered
    <2>4. /\ Holds(t)' = Holds(t) \cup {r}
          /\ Distinct(queue'[t]) /\ current'[t] \notin Queued(t)'
      <3>1. queue'[t] = Append(queue[t], r) /\ current'[t] = current[t]
        BY <2>2 DEF TypeOK
      <3>2. r \in Item
        BY DEF Item
      <3>3. Holds(t)' = Holds(t) \cup ({r} \cap Requests)
        BY <2>3, <3>1, <3>2, QueueGrows DEF LogInv
      <3> QED
        BY <2>3, <3>1, <3>2, <3>3, QueueGrows DEF LogInv
    <2>5. \A s \in Threads \ {t} : Queued(s)' = Queued(s) /\ Holds(s)' = Holds(s) /\ queue'[s] = queue[s]
      BY <2>2 DEF Holds, Queued, TypeOK
    <2>6. HeldOnce'
      BY <2>2, <2>3, <2>4, <2>5 DEF LogInv, HeldOnce
    <2>7. Unanswered'
      BY <2>2, <2>4, <2>5 DEF LogInv, Unanswered, TypeOK, Holds, Queued
    <2>8. FuturesGoOn /\ \A q \in Requests : fut'[q] = "result" => fut[q] = "result"
      BY <2>2 DEF FuturesGoOn, Settled, TypeOK
    <2> QED
      BY <2>2, <2>6, <2>7, <2>8, LogKept DEF LogInv
  <1>3. CASE Cancel(t) \/ Pause(t) \/ Resume(t)
    BY <1>3, LogUntouched DEF Cancel, Pause, Resume, registryVars, taskVars, futVars
  <1>4. CASE Terminate(t)
    <2>1. /\ queue' = [queue EXCEPT ![t] = Append(queue[t], TerminateAfterIdle)]
          /\ UNCHANGED <<current, log, fut>>
      BY <1>4 DEF Terminate, registryVars, futVars
    <2>2. /\ Holds(t)' = Holds(t)
          /\ Distinct(queue'[t]) /\ current'[t] \notin Queued(t)'
      <3>1. queue'[t] = Append(queue[t], TerminateAfterIdle) /\ current'[t] = current[t]
        BY <2>1 DEF TypeOK
      <3>2. TerminateAfterIdle \in Item /\ TerminateAfterIdle \notin Requests
        BY DEF Item
      <3>3. {TerminateAfterIdle} \cap Requests = {} /\ HeldOnce
        BY <3>2 DEF LogInv
      <3>4. /\ Holds(t)' = Holds(t) \cup ({TerminateAfterIdle} \cap Requests)
            /\ Distinct(queue'[t]) /\ current'[t] \notin Queued(t)'
        BY <3>1, <3>2, <3>3, QueueGrows
      <3> QED
        BY <3>3, <3>4
    <2>3. \A s \in Threads \ {t} : Queued(s)' = Queued(s) /\ Holds(s)' = Holds(s) /\ queue'[s] = queue[s]
      BY <2>1 DEF Holds, Queued, TypeOK
    <2>4. HeldOnce' /\ Unanswered'
      BY <2>1, <2>2, <2>3, HoldsLess DEF LogInv, HeldOnce
    <2> QED
      BY <2>1, <2>4, LogKept DEF LogInv, FuturesGoOn, Settled
  <1>5. CASE TerminateNow(t)
    <2>1. CASE HardStop(t)
      BY <2>1, HardStopLogs
    <2>2. CASE ~HardStop(t)
      BY <1>5, <2>2, LogUntouched DEF TerminateNow, registryVars
    <2> QED
      BY <2>1, <2>2
  <1> QED
    BY <1>1, <1>2, <1>3, <1>4, <1>5 DEF Call

\* The head of the queue is taken off, to be the current request or to be lost.
LEMMA HeadTaken ==
    ASSUME TypeOK, HostTables, LogInv, NEW t \in Threads, Ready(t), Head(queue[t]) \in Requests,
           queue' = [queue EXCEPT ![t] = Tail(queue[t])], fut' = fut,
           current' = [current EXCEPT ![t] = Head(queue[t])] \/ current' = current
    PROVE  HeldOnce' /\ Unanswered'
  <1>1. queue[t] \in Seq(Item) /\ queue[t] # <<>> /\ Distinct(queue[t])
    BY DEF TypeOK, Item, LogInv, HeldOnce, Ready
  <1>2. /\ Distinct(Tail(queue[t])) /\ Elems(Tail(queue[t])) \subseteq Elems(queue[t])
        /\ Head(queue[t]) \in Elems(queue[t]) /\ Head(queue[t]) \notin Elems(Tail(queue[t]))
    BY <1>1, TailDistinct
  <1>3. current[t] = NoRequest
    BY DEF HostTables, Ready
  <1>4. queue'[t] = Tail(queue[t]) /\ current'[t] \in {Head(queue[t]), NoRequest}
    BY <1>3 DEF TypeOK
  <1>5. Queued(t) = Elems(queue[t]) \cap Requests /\ Queued(t)' = Elems(queue'[t]) \cap Requests
    BY DEF Queued, Elems
  <1>6. /\ Holds(t)' \subseteq Holds(t) /\ Distinct(queue'[t]) /\ current'[t] \notin Queued(t)'
    BY <1>2, <1>4, <1>5 DEF Holds
  <1>7. \A s \in Threads \ {t} : /\ Queued(s)' = Queued(s) /\ Holds(s)' = Holds(s)
                                 /\ queue'[s] = queue[s] /\ current'[s] = current[s]
    BY DEF Holds, Queued, TypeOK
  <1> QED
    BY <1>6, <1>7, HoldsLess DEF LogInv, HeldOnce

\* A cycle ends: its request leaves the hands of t, settled as it may be.
LEMMA EndCycleHolds ==
    ASSUME TypeOK, HostTables, LogInv, NEW t \in Threads, Resumes(t), NEW next, EndCycle(t, next),
           \/ fut' = fut
           \/ \E outcome \in Settled : Settle({current[t]}, outcome)
    PROVE  HeldOnce' /\ Unanswered'
  <1>1. queue' = queue /\ current' = [current EXCEPT ![t] = NoRequest]
    BY DEF EndCycle
  <1>2. /\ Queued(t)' = Queued(t) /\ Holds(t)' = Queued(t)
        /\ \A s \in Threads \ {t} : Queued(s)' = Queued(s) /\ Holds(s)' = Holds(s) /\ current'[s] = current[s]
    BY <1>1 DEF Queued, Holds, TypeOK
  <1>3. current[t] \in Requests
    BY InFlightHasRequest DEF Resumes
  <1>4. Holds(t)' \subseteq Holds(t) \ {current[t]}
    BY <1>2 DEF Holds, LogInv, HeldOnce
  <1>5. current'[t] \notin Queued(t)'
    BY <1>1 DEF Queued, TypeOK
  <1>6. CASE fut' = fut
    BY <1>1, <1>2, <1>4, <1>5, <1>6, HoldsLess DEF LogInv, HeldOnce
  <1>7. CASE \E outcome \in Settled : Settle({current[t]}, outcome)
    BY <1>1, <1>2, <1>3, <1>4, <1>5, <1>7, SettleHolds DEF LogInv, HeldOnce, Holds
  <1> QED
    BY <1>6, <1>7

\* The request of a cycle is one that was neither answered nor refused.
LEMMA CurrentUnanswered ==
    ASSUME TypeOK, HostTables, LogInv, NEW t \in Threads, Resumes(t)
    PROVE  current[t] \in Requests /\ fut[current[t]] \in {"pending", "cancelled"}
  BY InFlightHasRequest DEF Resumes, LogInv, Unanswered, Holds
LEMMA DispatcherLogs ==
    ASSUME TypeOK, HostTables, LogInv, NEW t \in Threads, Dispatcher(t)
    PROVE  LogInv'
  <1> DEFINE r == current[t]
  <1>1. CASE BeginCycle(t)
    <2> DEFINE e == Ev("started", Head(queue[t]))
    <2>1. /\ Ready(t) /\ Head(queue[t]) \in Requests /\ Emit(t, <<e>>) /\ fut' = fut
          /\ queue' = [queue EXCEPT ![t] = Tail(queue[t])]
          /\ current' = [current EXCEPT ![t] = Head(queue[t])]
      BY <1>1 DEF BeginCycle, futVars
    <2>2. HeldOnce' /\ Unanswered'
      BY <2>1, HeadTaken
    <2>3. e \in Event /\ e.kind = "started"
      BY <2>1, EvType DEF Kinds, Ev
    <2>4. log' = [log EXCEPT ![t] = Append(log[t], e)]
      BY <2>1, <2>3, EmitOneLog
    <2>5. FuturesGoOn
      BY <2>1 DEF FuturesGoOn, Settled
    <2> HIDE DEF e
    <2>6. LogAgreesWithFutures'
      BY <2>1, <2>3, <2>4, <2>5, LogGrowsOne DEF LogInv, Fits
    <2> QED
      BY <2>2, <2>6 DEF LogInv
  <1>2. CASE TakeMarker(t)
    BY <1>2, TeardownLogs DEF TakeMarker
  <1>3. CASE Completes(t)
    <2> DEFINE d == Ev("result", r)
               e == Ev("completed", r)
    <2>1. /\ Resumes(t) /\ fut[r] = "pending" /\ Emit(t, <<d, e>>)
          /\ Settle({r}, "result") /\ EndCycle(t, "idle")
      BY <1>3 DEF Completes, Pending
    <2>2. HeldOnce' /\ Unanswered' /\ FuturesGoOn
      BY <2>1, EndCycleHolds, SettleGoesOn DEF Settled
    <2>3. r \in Requests
      BY <2>1, CurrentUnanswered
    <2>4. /\ d \in Event /\ d.kind = "result" /\ d.req = r
          /\ e \in Event /\ e.kind = "completed" /\ e.req = r
      BY <2>3, EvType DEF Kinds, Ev
    <2>5. fut'[r] = "result" /\ \A q \in Requests : fut'[q] = "result" => fut[q] = "result" \/ q = r
      BY <2>1, <2>3 DEF Settle, Pending
    <2>6. log' = [log EXCEPT ![t] = Append(Append(log[t], d), e)]
      BY <2>1, <2>4, EmitTwoLog
    <2>7. LogAgreesWithFutures'
      BY <2>2, <2>3, <2>4, <2>5, <2>6, LogGrowsTwo DEF LogInv, Fits
    <2> QED
      BY <2>2, <2>7 DEF LogInv
  <1>4. CASE CompletesTooLate(t)
    <2> DEFINE d == Ev("result", r)
               e == Ev("failed", r)
    <2>1. /\ Resumes(t) /\ fut[r] # "pending" /\ Emit(t, <<d, e>>)
          /\ fut' = fut /\ EndCycle(t, "idle")
      BY <1>4 DEF CompletesTooLate, Pending
    <2>2. HeldOnce' /\ Unanswered' /\ FuturesGoOn
      BY <2>1, EndCycleHolds DEF FuturesGoOn, Settled
    <2>3. r \in Requests /\ fut'[r] = "cancelled"
      BY <2>1, CurrentUnanswered
    <2>4. /\ d \in Event /\ d.kind = "result" /\ d.req = r
          /\ e \in Event /\ e.kind = "failed" /\ e.req = r
      BY <2>3, EvType DEF Kinds, Ev
    <2>5. log' = [log EXCEPT ![t] = Append(Append(log[t], d), e)]
      BY <2>1, <2>4, EmitTwoLog
    <2>6. LogAgreesWithFutures'
      BY <2>1, <2>2, <2>3, <2>4, <2>5, LogGrowsTwo DEF LogInv, Fits
    <2> QED
      BY <2>2, <2>6 DEF LogInv
  <1>5. CASE Fails(t) \/ Cancels(t)
    <2> DEFINE kind == IF Fails(t) THEN "failed" ELSE "cancelled"
               outcome == IF Fails(t) THEN "error" ELSE "cancelled"
    <2>1. PICK e, next : /\ Resumes(t) /\ e = Ev(kind, r) /\ Emit(t, <<e>>)
                         /\ Settle({r}, outcome) /\ EndCycle(t, next)
      BY <1>5 DEF Fails, Cancels
    <2>2. outcome \in {"error", "cancelled"} /\ outcome \in Settled /\ kind \in Kinds
      BY DEF Settled, Kinds
    <2>3. HeldOnce' /\ Unanswered' /\ FuturesGoOn
      BY <2>1, <2>2, EndCycleHolds, SettleGoesOn
    <2>4. r \in Requests /\ fut[r] \in {"pending", "cancelled"}
      BY <2>1, CurrentUnanswered
    <2>5. e \in Event /\ e.kind = kind /\ e.req = r
      BY <2>1, <2>2, <2>4, EvType DEF Ev
    <2>6. fut'[r] \in {outcome, "cancelled"} /\ \A q \in Requests : fut'[q] = "result" => fut[q] = "result"
      BY <2>1, <2>2, <2>4 DEF Settle, Pending
    <2>7. log' = [log EXCEPT ![t] = Append(log[t], e)]
      BY <2>1, <2>5, EmitOneLog
    <2>8. LogAgreesWithFutures'
      BY <2>3, <2>5, <2>6, <2>7, LogGrowsOne DEF LogInv, Fits
    <2> QED
      BY <2>3, <2>8 DEF LogInv
  <1>6. CASE CrashOnTerminal(t)
    <2>1. PICK outcome \in {"error", "cancelled"} :
              Resumes(t) /\ Settle({r}, outcome) /\ EndCycle(t, "crashed") /\ log' = log
      BY <1>6 DEF CrashOnTerminal, registryVars
    <2>2. HeldOnce' /\ Unanswered' /\ FuturesGoOn
      BY <2>1, EndCycleHolds, SettleGoesOn DEF Settled
    <2>3. \A q \in Requests : fut'[q] = "result" => fut[q] = "result"
      BY <2>1 DEF Settle
    <2> QED
      BY <2>1, <2>2, <2>3, LogKept DEF LogInv
  <1>7. CASE DispatcherCancelled(t)
    BY <1>7, LogUntouched DEF DispatcherCancelled, registryVars, futVars
  <1>8. CASE CrashOnStarted(t)
    <2>1. /\ Ready(t) /\ Head(queue[t]) \in Requests /\ fut' = fut /\ log' = log
          /\ queue' = [queue EXCEPT ![t] = Tail(queue[t])] /\ current' = current
      BY <1>8 DEF CrashOnStarted, registryVars, futVars
    <2>2. HeldOnce' /\ Unanswered'
      BY <2>1, HeadTaken
    <2> QED
      BY <2>1, <2>2, LogKept DEF LogInv, FuturesGoOn, Settled
  <1>9. CASE FailQueued(t)
    <2>1. /\ disp[t] = "crashed" /\ Settle(Queued(t), "error") /\ log' = log
          /\ queue' = [queue EXCEPT ![t] = <<>>] /\ current' = current
      BY <1>9 DEF FailQueued, registryVars
    <2>2. queue'[t] = <<>> /\ current'[t] = NoRequest
      BY <2>1 DEF HostTables, TypeOK
    <2>3. HeldOnce' /\ Unanswered'
      <3>1. Holds(t)' = {} /\ Distinct(queue'[t]) /\ current'[t] \notin Queued(t)'
        BY <2>2, NothingHeld
      <3>2. Queued(t) \cap Requests \subseteq Holds(t)
        BY DEF Holds
      <3> QED
        BY <2>1, <3>1, <3>2, SettleHolds DEF LogInv, TypeOK, Settled
    <2>4. FuturesGoOn /\ \A q \in Requests : fut'[q] = "result" => fut[q] = "result"
      BY <2>1, SettleGoesOn DEF Settled, Settle
    <2> QED
      BY <2>1, <2>3, <2>4, LogKept DEF LogInv
  <1> QED
    BY <1>1, <1>2, <1>3, <1>4, <1>5, <1>6, <1>7, <1>8, <1>9 DEF Dispatcher

LEMMA OtherLogs ==
    ASSUME TypeOK, HostTables, LogInv, NEW t \in Threads, Execute(t) \/ Reap(t) \/ HardTermination(t)
    PROVE  LogInv'
  <1>1. CASE Execute(t) \/ Reap(t)
    BY <1>1, LogUntouched DEF Execute, CycleEnds, CycleGivesUp, Reap, registryVars, taskVars, futVars
  <1>2. CASE TerminateNowCycleGone(t)
    BY <1>2, HardStopLogs DEF TerminateNowCycleGone
  <1>3. CASE TerminateNowEnds(t)
    BY <1>3, TeardownLogs DEF TerminateNowEnds
  <1> QED
    BY <1>1, <1>2, <1>3 DEF HardTermination

LEMMA SharedLogs ==
    ASSUME TypeOK, LogInv,
           (\E r \in Requests : Withdraw(r)) \/ CloseBegins \/ CloseDrained \/ CloseEnds \/ LoseWorker
    PROVE  LogInv'
  <1>1. CASE \E r \in Requests : Withdraw(r)
    BY <1>1, LogUntouched DEF Withdraw, Pending, registryVars, taskVars, TypeOK
  <1>2. CASE CloseBegins
    <2>1. UNCHANGED <<current, log, fut>>
      BY <1>2 DEF CloseBegins, registryVars, futVars
    <2>2. ASSUME NEW t \in Threads
          PROVE  Holds(t)' = Holds(t) /\ Distinct(queue'[t]) /\ current'[t] \notin Queued(t)'
      <3>1. queue'[t] = Append(queue[t], TerminateAfterIdle) \/ queue'[t] = queue[t]
        BY <1>2 DEF CloseBegins
      <3>2. TerminateAfterIdle \in Item /\ TerminateAfterIdle \notin Requests
        BY DEF Item
      <3>3. CASE queue'[t] = Append(queue[t], TerminateAfterIdle)
        <4>1. {TerminateAfterIdle} \cap Requests = {}
          BY <3>2
        <4>2. HeldOnce /\ current'[t] = current[t]
          BY <2>1 DEF LogInv
        <4>3. /\ Holds(t)' = Holds(t) \cup ({TerminateAfterIdle} \cap Requests)
              /\ Distinct(queue'[t]) /\ current'[t] \notin Queued(t)'
          BY <3>2, <3>3, <4>2, QueueGrows
        <4> QED
          BY <4>1, <4>3
      <3>4. CASE queue'[t] = queue[t]
        BY <2>1, <3>4 DEF LogInv, HeldOnce, Holds, Queued
      <3> QED
        BY <3>1, <3>3, <3>4
    <2>3. HeldOnce' /\ Unanswered'
      BY <2>1, <2>2, HoldsLess DEF LogInv
    <2> QED
      BY <2>1, <2>3, LogKept DEF LogInv, FuturesGoOn, Settled
  <1>3. CASE CloseDrained \/ CloseEnds \/ LoseWorker
    BY <1>3, LogUntouched DEF CloseDrained, CloseEnds, LoseWorker, DropWorker, registryVars, taskVars, futVars
  <1> QED
    BY <1>1, <1>2, <1>3

\* Whatever is asked of the threads, cancelled, withdrawn, terminated or
\* crashed, in any order: what the log says of a request is what its caller
\* got, and no caller has a result whose COMPLETED is not in the log.  A
\* request is in the hands of one thread at a time, in its queue or in its
\* cycle, and it is unanswered as long as it is.
THEOREM LogAlwaysAgrees == Spec => []LogAgreesWithFutures
  <1>1. Init => LogInv
    <2>1. DOMAIN <<>> = {}
      OBVIOUS
    <2> QED
      BY <2>1 DEF Init, LogInv, HeldOnce, Unanswered, Holds, Queued, Distinct, LogAgreesWithFutures
  <1>2. TypeOK /\ HostTables /\ LogInv /\ [Next]_vars => LogInv'
    <2>1. ASSUME TypeOK, LogInv, UNCHANGED vars PROVE LogInv'
      BY <2>1, LogUntouched DEF vars, registryVars, taskVars, futVars
    <2> QED
      BY <2>1, CallLogs, DispatcherLogs, OtherLogs, SharedLogs DEF Next
  <1>3. LogInv => LogAgreesWithFutures
    BY DEF LogInv
  <1> QED
    BY <1>1, <1>2, <1>3, HostTablesAlways, PTL DEF Spec
----------------------------------------------------------------------------
(* The published status.                                                   *)

StatusFits(t) == t \in hosted /\ info[t] \notin {"absent", "failed"} =>
                     (info[t] = "running" <=> disp[t] = "running")

\* A step that concerns one thread; a thread that ceases to be listed, or
\* alive, or hosted, makes no claim.
LEMMA StatusStep ==
    ASSUME RunningMeansInFlight, NEW t \in Threads, StatusFits(t)',
           \A s \in Threads \ {t} : /\ info'[s] \in {info[s], "absent", "failed"} /\ disp'[s] = disp[s]
                                    /\ s \in hosted' => s \in hosted,
           hosted' \subseteq Threads
    PROVE  RunningMeansInFlight'
  BY DEF RunningMeansInFlight, StatusFits

\* A step that touches no dispatcher and lets no status come back.
LEMMA StatusKept ==
    ASSUME TypeOK, RunningMeansInFlight, disp' = disp, hosted' = hosted,
           \A s \in Threads : info'[s] \in {info[s], "absent", "failed"}
    PROVE  RunningMeansInFlight'
  BY DEF RunningMeansInFlight, TypeOK

LEMMA TeardownStatus ==
    ASSUME TypeOK, RunningMeansInFlight, NEW t \in Threads, Teardown(t)
    PROVE  RunningMeansInFlight'
  BY StatusStep DEF Teardown, registryVars, StatusFits, TypeOK

LEMMA HardStopStatus ==
    ASSUME TypeOK, RunningMeansInFlight, NEW t \in Threads, HardStop(t)
    PROVE  RunningMeansInFlight'
  <1>1. CASE KillDispatcher(t)
    BY <1>1, StatusKept DEF KillDispatcher, registryVars, hostVars
  <1> QED
    BY <1>1, TeardownStatus DEF HardStop

\* The last event that is emitted decides the status.
LEMMA EmitsLast ==
    ASSUME NEW t \in Threads, NEW d, NEW kind, NEW r
    PROVE  /\ Emit(t, <<Ev(kind, r)>>) => info' = [info EXCEPT ![t] = AfterEvent(info[t], kind)]
           /\ Emit(t, <<d, Ev(kind, r)>>) => info' = [info EXCEPT ![t] = AfterEvent(info[t], kind)]
  BY DEF Emit, Ev

\* A lifecycle event and the move of the dispatcher that goes with it.
LEMMA EmitStatus ==
    ASSUME TypeOK, RunningMeansInFlight, NEW t \in Threads, hosted' = hosted,
           \A s \in Threads \ {t} : info'[s] = info[s] /\ disp'[s] = disp[s],
           \/ disp'[t] = "running" /\ info'[t] = AfterEvent(info[t], "started")
           \/ /\ disp'[t] # "running"
              /\ info'[t] \in {AfterEvent(info[t], k) : k \in {"completed", "failed", "cancelled"}}
    PROVE  RunningMeansInFlight'
  <1>1. StatusFits(t)'
    BY DEF StatusFits, AfterEvent
  <1> QED
    BY <1>1, StatusStep DEF TypeOK

LEMMA CallStatus ==
    ASSUME TypeOK, HostTables, RunningMeansInFlight, NEW t \in Threads, Call(t)
    PROVE  RunningMeansInFlight'
  <1>1. CASE Spawn(t)
    <2>1. /\ info' = [info EXCEPT ![t] = "not_started"] /\ disp' = [disp EXCEPT ![t] = "idle"]
          /\ hosted' = hosted \cup {t}
      BY <1>1 DEF Spawn, Admit
    <2> QED
      BY <2>1, StatusStep DEF StatusFits, TypeOK
  <1>2. CASE SpawnFails(t)
    <2>1. info' = [info EXCEPT ![t] = "not_started"] /\ disp' = disp /\ hosted' = hosted /\ t \notin hosted
      BY <1>2 DEF SpawnFails, Admit, taskVars
    <2> QED
      BY <2>1, StatusStep DEF StatusFits, TypeOK
  <1>3. CASE (\E r \in Requests : Submit(t, r)) \/ Cancel(t) \/ Terminate(t)
    BY <1>3, StatusKept DEF Submit, Cancel, Terminate, registryVars, hostVars
  <1>4. CASE Pause(t) \/ Resume(t)
    <2>1. /\ disp' = disp /\ hosted' = hosted /\ \A s \in Threads \ {t} : info'[s] = info[s]
          /\ info'[t] = info[t] \/ {info[t], info'[t]} \subseteq {"not_started", "idle", "paused", "cancelled"}
      BY <1>4 DEF Pause, Resume, Routable, taskVars, TypeOK, Statuses
    <2>2. StatusFits(t)'
      BY <2>1 DEF StatusFits, RunningMeansInFlight
    <2> QED
      BY <2>1, <2>2, StatusStep DEF TypeOK
  <1>5. CASE TerminateNow(t)
    <2>1. CASE HardStop(t)
      BY <2>1, HardStopStatus
    <2>2. CASE ~HardStop(t)
      BY <1>5, <2>2, StatusKept DEF TerminateNow, registryVars, hostVars
    <2> QED
      BY <2>1, <2>2
  <1> QED
    BY <1>1, <1>2, <1>3, <1>4, <1>5 DEF Call

LEMMA DispatcherStatus ==
    ASSUME ~SinkFails, TypeOK, HostTables, RunningMeansInFlight, NEW t \in Threads, Dispatcher(t)
    PROVE  RunningMeansInFlight'
  <1>1. CASE BeginCycle(t)
    <2>1. /\ info' = [info EXCEPT ![t] = AfterEvent(info[t], "started")]
          /\ disp' = [disp EXCEPT ![t] = "running"] /\ hosted' = hosted
      BY <1>1 DEF BeginCycle, Emit, Ev, hostVars
    <2> QED
      BY <2>1, EmitStatus DEF TypeOK
  <1>2. CASE TakeMarker(t)
    BY <1>2, TeardownStatus DEF TakeMarker
  <1>3. CASE Completes(t)
    <2>1. /\ info' = [info EXCEPT ![t] = AfterEvent(info[t], "completed")]
          /\ disp' = [disp EXCEPT ![t] = "idle"] /\ hosted' = hosted
      BY <1>3, EmitsLast DEF Completes, EndCycle, hostVars
    <2>2. /\ disp'[t] = "idle" /\ info'[t] = AfterEvent(info[t], "completed") /\ hosted' = hosted
          /\ \A s \in Threads \ {t} : info'[s] = info[s] /\ disp'[s] = disp[s]
      BY <2>1 DEF TypeOK
    <2> QED
      BY <2>2, EmitStatus
  <1>6. CASE CompletesTooLate(t) \/ Fails(t)
    <2>1. /\ info' = [info EXCEPT ![t] = AfterEvent(info[t], "failed")]
          /\ disp' = [disp EXCEPT ![t] = "idle"] /\ hosted' = hosted
      BY <1>6, EmitsLast DEF CompletesTooLate, Fails, EndCycle, hostVars
    <2>2. /\ disp'[t] = "idle" /\ info'[t] = AfterEvent(info[t], "failed") /\ hosted' = hosted
          /\ \A s \in Threads \ {t} : info'[s] = info[s] /\ disp'[s] = disp[s]
      BY <2>1 DEF TypeOK
    <2> QED
      BY <2>2, EmitStatus
  <1>7. CASE Cancels(t)
    <2>1. PICK next \in {"idle", "dead"} :
              /\ info' = [info EXCEPT ![t] = AfterEvent(info[t], "cancelled")]
              /\ disp' = [disp EXCEPT ![t] = next] /\ hosted' = hosted
      BY <1>7, EmitsLast DEF Cancels, EndCycle, hostVars
    <2> QED
      BY <2>1, EmitStatus DEF TypeOK
  <1>4. CASE DispatcherCancelled(t)
    <2>1. /\ disp[t] # "running" /\ disp' = [disp EXCEPT ![t] = "dead"]
          /\ hosted' = hosted /\ info' = info
      BY <1>4 DEF DispatcherCancelled, registryVars, hostVars
    <2> QED
      BY <2>1, StatusStep DEF StatusFits, TypeOK, RunningMeansInFlight
  <1>5. ~CrashOnStarted(t) /\ ~CrashOnTerminal(t) /\ ~FailQueued(t)
    BY DEF CrashOnStarted, CrashOnTerminal, FailQueued, HostTables
  <1> QED
    BY <1>1, <1>2, <1>3, <1>4, <1>5, <1>6, <1>7 DEF Dispatcher

LEMMA OtherStatus ==
    ASSUME TypeOK, RunningMeansInFlight, NEW t \in Threads, Execute(t) \/ Reap(t) \/ HardTermination(t)
    PROVE  RunningMeansInFlight'
  <1>1. CASE Execute(t)
    BY <1>1, StatusKept DEF Execute, CycleEnds, CycleGivesUp, registryVars, hostVars
  <1>2. CASE Reap(t)
    <2>1. info' = [info EXCEPT ![t] = "absent"] /\ disp' = disp /\ hosted' = hosted
      BY <1>2 DEF Reap, taskVars
    <2> QED
      BY <2>1, StatusKept DEF TypeOK
  <1>3. CASE TerminateNowCycleGone(t)
    BY <1>3, HardStopStatus DEF TerminateNowCycleGone
  <1>4. CASE TerminateNowEnds(t)
    BY <1>4, TeardownStatus DEF TerminateNowEnds
  <1> QED
    BY <1>1, <1>2, <1>3, <1>4 DEF HardTermination

LEMMA SharedStatus ==
    ASSUME TypeOK, RunningMeansInFlight,
           (\E r \in Requests : Withdraw(r)) \/ CloseBegins \/ CloseDrained \/ CloseEnds \/ LoseWorker
    PROVE  RunningMeansInFlight'
  <1>1. disp' = disp /\ hosted' = hosted
    BY DEF Withdraw, CloseBegins, CloseDrained, CloseEnds, LoseWorker, hostVars, taskVars
  <1>2. \A s \in Threads : info'[s] \in {info[s], "absent", "failed"}
    BY DEF Withdraw, CloseBegins, CloseDrained, CloseEnds, LoseWorker, DropWorker, registryVars
  <1> QED
    BY <1>1, <1>2, StatusKept

LEMMA RunningStep ==
    ASSUME ~SinkFails, TypeOK, HostTables, RunningMeansInFlight, [Next]_vars
    PROVE  RunningMeansInFlight'
  <1>1. ASSUME UNCHANGED vars PROVE RunningMeansInFlight'
    BY <1>1, StatusKept DEF vars, registryVars, hostVars, taskVars
  <1> QED
    BY <1>1, CallStatus, DispatcherStatus, OtherStatus, SharedStatus DEF Next

\* Unless the event sink fails, RUNNING is published of a thread that is alive
\* exactly while its dispatcher awaits a cycle, in whatever order pauses,
\* resumes, cancels, terminations and lifecycle events meet.
THEOREM RunningAlwaysMeansInFlight == ASSUME ~SinkFails PROVE Spec => []RunningMeansInFlight
  <1>1. Init => RunningMeansInFlight
    BY DEF Init, RunningMeansInFlight
  <1>2. TypeOK /\ HostTables /\ RunningMeansInFlight /\ [Next]_vars => RunningMeansInFlight'
    BY RunningStep
  <1> QED
    BY <1>1, <1>2, HostTablesAlways, PTL DEF Spec
---------------------------------------------------------------------------
(* The end of a thread, and of the worker.                                 *)

\* What may become of a status: FAILED is left only by a deregistration or a
\* new thread under the id, and that is refused while close() waits for it.
\* A deregistration that is due for thread s stays due until it happened.
GoesOn(s) ==
    /\ info[s] = "failed" => info'[s] \in {"failed", "absent", "not_started"}
    /\ s \in closeWait => /\ info[s] = "absent" => info'[s] = "absent"
                          /\ reap[s] > 0 => reap'[s] > 0 \/ info'[s] = "absent"

\* What every step but those of close() leaves alone.
CloseWaits == closing' = closing /\ closeWait' = closeWait

LEMMA EmitGoesOn ==
    ASSUME TypeOK, NEW t \in Threads, NEW kind, info' = [info EXCEPT ![t] = AfterEvent(info[t], kind)],
           reap' = reap, NEW s \in Threads
    PROVE  GoesOn(s)
  BY DEF GoesOn, AfterEvent, TypeOK

LEMMA TeardownGoesOn ==
    ASSUME TypeOK, NEW t \in Threads, Teardown(t), NEW s \in Threads
    PROVE  GoesOn(s)
  <1>1. info' = info /\ reap' = [reap EXCEPT ![t] = reap[t] + 1]
    BY DEF Teardown, registryVars
  <1> QED
    BY <1>1 DEF GoesOn, TypeOK

LEMMA HardStopGoesOn ==
    ASSUME TypeOK, NEW t \in Threads, HardStop(t), NEW s \in Threads
    PROVE  GoesOn(s) /\ CloseWaits
  <1>1. CASE KillDispatcher(t)
    BY <1>1 DEF KillDispatcher, registryVars, hostVars, GoesOn, CloseWaits
  <1> QED
    BY <1>1, TeardownGoesOn DEF HardStop, CloseWaits

LEMMA CallGoesOn ==
    ASSUME TypeOK, NEW t \in Threads, Call(t), NEW s \in Threads
    PROVE  GoesOn(s) /\ CloseWaits
  <1>1. CASE Spawn(t) \/ SpawnFails(t)
    <2>1. /\ info' = [info EXCEPT ![t] = "not_started"] /\ reap' = reap /\ t \notin closeWait
          /\ closing' = closing /\ closeWait' = closeWait
      BY <1>1 DEF Spawn, SpawnFails, Admit, callVars
    <2> QED
      BY <2>1 DEF GoesOn, CloseWaits, TypeOK
  <1>2. CASE (\E r \in Requests : Submit(t, r)) \/ Cancel(t) \/ Terminate(t)
    BY <1>2 DEF Submit, Cancel, Terminate, registryVars, hostVars, callVars, GoesOn, CloseWaits
  <1>3. CASE Pause(t) \/ Resume(t)
    <2>1. /\ reap' = reap /\ info[t] # "absent"
          /\ info' = [info EXCEPT ![t] = IF info[t] \in {"failed", "running"} THEN info[t] ELSE "paused"]
             \/ info' = [info EXCEPT ![t] = IF info[t] = "paused" THEN "idle" ELSE info[t]]
          /\ closing' = closing /\ closeWait' = closeWait
      BY <1>3 DEF Pause, Resume, Routable, callVars
    <2> QED
      BY <2>1 DEF GoesOn, CloseWaits, TypeOK
  <1>4. CASE TerminateNow(t)
    <2>1. CASE HardStop(t)
      BY <2>1, HardStopGoesOn
    <2>2. CASE ~HardStop(t)
      BY <1>4, <2>2 DEF TerminateNow, registryVars, hostVars, GoesOn, CloseWaits
    <2> QED
      BY <2>1, <2>2
  <1> QED
    BY <1>1, <1>2, <1>3, <1>4 DEF Call

LEMMA DispatcherGoesOn ==
    ASSUME TypeOK, NEW t \in Threads, Dispatcher(t), NEW s \in Threads
    PROVE  GoesOn(s) /\ CloseWaits
  <1>1. CASE BeginCycle(t)
    <2>1. info' = [info EXCEPT ![t] = AfterEvent(info[t], "started")]
      BY <1>1, EmitsLast DEF BeginCycle
    <2> QED
      BY <1>1, <2>1, EmitGoesOn DEF BeginCycle, hostVars, callVars, CloseWaits
  <1>2. CASE TakeMarker(t)
    BY <1>2, TeardownGoesOn DEF TakeMarker, callVars, CloseWaits
  <1>3. CASE Completes(t)
    <2>1. info' = [info EXCEPT ![t] = AfterEvent(info[t], "completed")]
      BY <1>3, EmitsLast DEF Completes
    <2> QED
      BY <1>3, <2>1, EmitGoesOn DEF Completes, EndCycle, hostVars, callVars, CloseWaits
  <1>4. CASE CompletesTooLate(t) \/ Fails(t)
    <2>1. info' = [info EXCEPT ![t] = AfterEvent(info[t], "failed")]
      BY <1>4, EmitsLast DEF CompletesTooLate, Fails
    <2> QED
      BY <1>4, <2>1, EmitGoesOn DEF CompletesTooLate, Fails, EndCycle, hostVars, callVars, CloseWaits
  <1>5. CASE Cancels(t)
    <2>1. info' = [info EXCEPT ![t] = AfterEvent(info[t], "cancelled")]
      BY <1>5, EmitsLast DEF Cancels
    <2> QED
      BY <1>5, <2>1, EmitGoesOn DEF Cancels, EndCycle, hostVars, callVars, CloseWaits
  <1>6. CASE CrashOnStarted(t) \/ CrashOnTerminal(t) \/ DispatcherCancelled(t) \/ FailQueued(t)
    BY <1>6 DEF CrashOnStarted, CrashOnTerminal, DispatcherCancelled, FailQueued, EndCycle,
                registryVars, hostVars, callVars, GoesOn, CloseWaits
  <1> QED
    BY <1>1, <1>2, <1>3, <1>4, <1>5, <1>6 DEF Dispatcher

LEMMA OtherGoesOn ==
    ASSUME TypeOK, NEW t \in Threads, Execute(t) \/ Reap(t) \/ HardTermination(t), NEW s \in Threads
    PROVE  GoesOn(s) /\ CloseWaits
  <1>1. CASE Execute(t)
    BY <1>1 DEF Execute, CycleEnds, CycleGivesUp, registryVars, hostVars, callVars, GoesOn, CloseWaits
  <1>2. CASE Reap(t)
    <2>1. /\ info' = [info EXCEPT ![t] = "absent"] /\ reap' = [reap EXCEPT ![t] = reap[t] - 1]
          /\ closing' = closing /\ closeWait' = closeWait
      BY <1>2 DEF Reap, callVars
    <2> QED
      BY <2>1 DEF GoesOn, CloseWaits, TypeOK
  <1>3. CASE TerminateNowCycleGone(t)
    BY <1>3, HardStopGoesOn DEF TerminateNowCycleGone
  <1>4. CASE TerminateNowEnds(t)
    BY <1>4, TeardownGoesOn DEF TerminateNowEnds, CloseWaits
  <1> QED
    BY <1>1, <1>2, <1>3, <1>4 DEF HardTermination

LEMMA SharedGoesOn ==
    ASSUME TypeOK, NEW s \in Threads,
           (\E r \in Requests : Withdraw(r)) \/ CloseBegins \/ CloseDrained \/ CloseEnds \/ LoseWorker
    PROVE  /\ GoesOn(s)
           /\ CloseWaits \/ CloseBegins \/ CloseDrained \/ CloseEnds
  <1>1. reap' = reap
    BY DEF Withdraw, CloseBegins, CloseDrained, CloseEnds, LoseWorker, hostVars
  <1>2. info'[s] = info[s] \/ (info[s] # "absent" /\ info'[s] = "failed")
    BY DEF Withdraw, CloseBegins, CloseDrained, CloseEnds, LoseWorker, DropWorker, registryVars
  <1>3. CloseWaits \/ CloseBegins \/ CloseDrained \/ CloseEnds
    BY DEF Withdraw, LoseWorker, callVars, CloseWaits
  <1> QED
    BY <1>1, <1>2, <1>3 DEF GoesOn

LEMMA EveryStepGoesOn ==
    ASSUME TypeOK, [Next]_vars, NEW s \in Threads
    PROVE  /\ GoesOn(s)
           /\ CloseWaits \/ CloseBegins \/ CloseDrained \/ CloseEnds
  <1>1. CASE UNCHANGED vars
    BY <1>1 DEF vars, registryVars, hostVars, callVars, GoesOn, CloseWaits
  <1> QED
    BY <1>1, CallGoesOn, DispatcherGoesOn, OtherGoesOn, SharedGoesOn DEF Next

\* Nothing brings a failed thread back: neither the cycle that was in flight
\* when its worker was lost, nor a pause or a resume, only its deregistration
\* and a new thread under its id.
THEOREM FailedAlwaysFinal == Spec => FailedIsFinal
  <1>1. TypeOK /\ [Next]_vars =>
            [\A t \in Threads : info[t] = "failed" => info'[t] \in {"failed", "absent", "not_started"}]_vars
    BY EveryStepGoesOn DEF GoesOn
  <1> QED
    BY <1>1, TypeCorrect, PTL DEF Spec, FailedIsFinal

\* While close() waits for the deregistrations of what it drained, each of
\* those threads is either still to be deregistered or already unlisted.
ReapsDue == closing = "reaping" => \A t \in closeWait : reap[t] > 0 \/ info[t] = "absent"

LEMMA ReapsDueStep ==
    ASSUME TypeOK, HostTables, ReapsDue, [Next]_vars
    PROVE  ReapsDue'
  <1> SUFFICES ASSUME closing' = "reaping", NEW t \in closeWait'
               PROVE  reap'[t] > 0 \/ info'[t] = "absent"
    BY DEF ReapsDue
  <1>1. t \in Threads
    BY TypeStep DEF TypeOK
  <1>2. GoesOn(t) /\ (CloseWaits \/ CloseBegins \/ CloseDrained \/ CloseEnds)
    BY <1>1, EveryStepGoesOn
  <1>3. CASE CloseWaits
    BY <1>1, <1>2, <1>3 DEF ReapsDue, GoesOn, CloseWaits
  <1>4. CASE CloseDrained
    BY <1>1, <1>4 DEF CloseDrained, hostVars
  <1> QED
    BY <1>2, <1>3, <1>4 DEF CloseBegins, CloseEnds

LEMMA CloseFailsNone ==
    ASSUME TypeOK, ReapsDue, [Next]_vars, closing = "reaping", closing' = "open", NEW t \in closeWait
    PROVE  info'[t] # "failed"
  <1>1. t \in Threads /\ (reap[t] > 0 \/ info[t] = "absent")
    BY DEF ReapsDue, TypeOK
  <1>2. GoesOn(t) /\ CloseEnds
    BY <1>1, EveryStepGoesOn DEF CloseWaits, CloseBegins, CloseDrained
  <1>3. info[t] = "absent"
    BY <1>1, <1>2 DEF CloseEnds, TypeOK
  <1> QED
    BY <1>2, <1>3 DEF GoesOn

\* A close() that ends has waited for every deregistration it had to wait for,
\* and the threads they were for are unlisted by then: the deregistration of
\* the worker, which fails whatever is still listed, publishes none of them
\* as failed.
THEOREM CloseFailsNoneItClosed == Spec => CloseFailsNoClosedThread
  <1>1. Init => ReapsDue
    BY DEF Init, ReapsDue
  <1>2. TypeOK /\ HostTables /\ ReapsDue /\ [Next]_vars => ReapsDue'
    BY ReapsDueStep
  <1>3. TypeOK /\ ReapsDue /\ [Next]_vars =>
            [closing = "reaping" /\ closing' = "open" => \A t \in closeWait : info'[t] # "failed"]_vars
    BY CloseFailsNone
  <1> QED
    BY <1>1, <1>2, <1>3, HostTablesAlways, PTL DEF Spec, CloseFailsNoClosedThread
----------------------------------------------------------------------------
(* The log is a sequence of whole cycles.                                  *)

Ending == {"completed", "failed", "cancelled"}

\* Event e may come right after event d; an ending event is followed by the
\* start of another cycle, every other one by an event of the same request.
Link(d, e) == e.kind \in Follows(d.kind) /\ (d.kind \in Ending \/ e.req = d.req)

\* Event e may come next in log q, the first of which is a start.
MayCome(q, e) == IF q = <<>> THEN e.kind = "started" ELSE Link(q[Len(q)], e)

Chain(q) == q # <<>> => /\ q[1].kind = "started"
                        /\ \A i \in 1 .. Len(q) - 1 : Link(q[i], q[i + 1])

\* The cycle of request r is open at the end of q, or none is.
OpenFor(q, r) == q # <<>> /\ q[Len(q)] = Ev("started", r)
Shut(q) == q # <<>> => q[Len(q)].kind \in Ending

Bracketed(t) == /\ Chain(log[t])
                /\ IF disp[t] = "running" THEN OpenFor(log[t], current[t]) ELSE Shut(log[t])

\* One more event keeps a chain a chain, if it may come next.
LEMMA ChainGrows ==
    ASSUME NEW q \in Seq(Event), NEW e \in Event, Chain(q), MayCome(q, e)
    PROVE  /\ Chain(Append(q, e)) /\ Append(q, e) # <<>> /\ Append(q, e) \in Seq(Event)
           /\ Append(q, e)[Len(Append(q, e))] = e
  <1> DEFINE p == Append(q, e)
  <1>1. /\ Len(q) \in Nat /\ Len(p) = Len(q) + 1 /\ p[Len(q) + 1] = e /\ p # <<>> /\ p \in Seq(Event)
        /\ \A i \in 1 .. Len(q) : p[i] = q[i]
        /\ q = <<>> <=> Len(q) = 0
    OBVIOUS
  <1> HIDE DEF p
  <1>2. p[1].kind = "started"
    <2>1. CASE q = <<>>
      BY <1>1, <2>1 DEF MayCome
    <2>2. CASE q # <<>>
      BY <1>1, <2>2 DEF Chain
    <2> QED
      BY <2>1, <2>2
  <1>3. ASSUME NEW i \in 1 .. Len(p) - 1 PROVE Link(p[i], p[i + 1])
    <2>1. CASE i = Len(q)
      BY <1>1, <2>1 DEF MayCome
    <2>2. CASE i # Len(q)
      <3>1. i \in 1 .. Len(q) - 1 /\ p[i] = q[i] /\ p[i + 1] = q[i + 1] /\ q # <<>>
        BY <1>1, <2>2
      <3> QED
        BY <3>1 DEF Chain
    <2> QED
      BY <2>1, <2>2
  <1>4. Chain(p) /\ p[Len(p)] = e
    BY <1>1, <1>2, <1>3 DEF Chain
  <1> QED
    BY <1>1, <1>4 DEF p

\* The start of a cycle, and its two ways to end, after a shut or open log.
LEMMA MayStart ==
    ASSUME NEW q \in Seq(Event), NEW r \in Requests, Shut(q)
    PROVE  MayCome(q, Ev("started", r))
  BY DEF MayCome, Shut, Link, Follows, Ending, Ev

LEMMA MayEnd ==
    ASSUME NEW q \in Seq(Event), NEW r \in Requests, OpenFor(q, r)
    PROVE  \A k \in {"result", "failed", "cancelled"} : MayCome(q, Ev(k, r))
  BY DEF MayCome, OpenFor, Link, Follows, Ev

LEMMA MayEndAfterResult ==
    ASSUME NEW q, NEW r \in Requests, q # <<>>, q[Len(q)] = Ev("result", r)
    PROVE  \A k \in {"completed", "failed"} : MayCome(q, Ev(k, r))
  BY DEF MayCome, Link, Follows, Ev

LEMMA BracketedIsBracketed ==
    ASSUME \A t \in Threads : Bracketed(t)
    PROVE  CyclesAreBracketed
  <1> SUFFICES ASSUME NEW t \in Threads, log[t] # <<>>
               PROVE  LET n == Len(log[t])
                          ends(e) == e.kind \in {"completed", "failed", "cancelled"}
                      IN /\ log[t][1].kind = "started"
                         /\ \A i \in 1 .. n - 1 :
                               /\ log[t][i + 1].kind \in Follows(log[t][i].kind)
                               /\ ends(log[t][i]) \/ log[t][i + 1].req = log[t][i].req
                         /\ IF disp[t] = "running" THEN log[t][n] = Ev("started", current[t])
                                                   ELSE ends(log[t][n])
    BY DEF CyclesAreBracketed
  <1>1. Bracketed(t)
    OBVIOUS
  <1> QED
    BY <1>1 DEF Bracketed, Chain, Link, OpenFor, Shut, Ending

\* A step that concerns the log and the dispatcher of no thread, or only stops
\* a dispatcher that does not await a cycle.
LEMMA BracketedKept ==
    ASSUME \A t \in Threads : Bracketed(t), log' = log,
           \A t \in Threads : \/ disp'[t] = disp[t] /\ current'[t] = current[t]
                              \/ disp[t] # "running" /\ disp'[t] # "running"
    PROVE  \A t \in Threads : Bracketed(t)'
  BY DEF Bracketed, Chain, OpenFor, Shut, Link, Follows, Ev

\* A step that appends to one log.
LEMMA BracketedStep ==
    ASSUME \A s \in Threads : Bracketed(s), NEW t \in Threads, Bracketed(t)',
           \A s \in Threads \ {t} : log'[s] = log[s] /\ disp'[s] = disp[s] /\ current'[s] = current[s]
    PROVE  \A s \in Threads : Bracketed(s)'
  <1> SUFFICES ASSUME NEW s \in Threads \ {t} PROVE Bracketed(s)'
    OBVIOUS
  <1>1. Bracketed(s) /\ log'[s] = log[s] /\ disp'[s] = disp[s] /\ current'[s] = current[s]
    OBVIOUS
  <1> QED
    BY <1>1 DEF Bracketed, Chain, OpenFor, Shut, Link, Follows, Ev

LEMMA HardStopBrackets ==
    ASSUME TypeOK, \A s \in Threads : Bracketed(s), NEW t \in Threads, HardStop(t)
    PROVE  \A s \in Threads : Bracketed(s)'
  <1>1. CASE KillDispatcher(t)
    BY <1>1, BracketedKept DEF KillDispatcher, registryVars
  <1>2. CASE disp[t] \in TaskDone /\ Teardown(t)
    <2>1. log' = log /\ disp' = [disp EXCEPT ![t] = "none"] /\ current' = [current EXCEPT ![t] = NoRequest]
      BY <1>2 DEF Teardown, registryVars
    <2> QED
      BY <1>2, <2>1, BracketedKept DEF TypeOK, TaskDone
  <1> QED
    BY <1>1, <1>2 DEF HardStop

LEMMA CallBrackets ==
    ASSUME TypeOK, HostTables, \A s \in Threads : Bracketed(s), NEW t \in Threads, Call(t)
    PROVE  \A s \in Threads : Bracketed(s)'
  <1>1. CASE Spawn(t)
    <2>1. log' = log /\ disp' = [disp EXCEPT ![t] = "idle"] /\ current' = current /\ disp[t] = "none"
      BY <1>1 DEF Spawn, Admit, HostTables
    <2> QED
      BY <2>1, BracketedKept DEF TypeOK
  <1>2. CASE SpawnFails(t)
    BY <1>2, BracketedKept DEF SpawnFails, Admit, taskVars
  <1>3. CASE \/ (\E r \in Requests : Submit(t, r)) \/ Cancel(t) \/ Terminate(t)
             \/ Pause(t) \/ Resume(t)
    BY <1>3, BracketedKept DEF Submit, Cancel, Terminate, Pause, Resume, registryVars, taskVars
  <1>4. CASE TerminateNow(t)
    <2>1. CASE HardStop(t)
      BY <2>1, HardStopBrackets
    <2>2. CASE ~HardStop(t)
      BY <1>4, <2>2, BracketedKept DEF TerminateNow, registryVars
    <2> QED
      BY <2>1, <2>2
  <1> QED
    BY <1>1, <1>2, <1>3, <1>4 DEF Call

\* A dispatcher that awaits the cycle of r emits how it ended, in one event or
\* after the result.
LEMMA EndBrackets ==
    ASSUME TypeOK, \A s \in Threads : Bracketed(s), NEW t \in Threads, disp[t] = "running",
           current[t] \in Requests, disp'[t] # "running",
           \A s \in Threads \ {t} : disp'[s] = disp[s] /\ current'[s] = current[s],
           \/ \E k \in {"failed", "cancelled"} : Emit(t, <<Ev(k, current[t])>>)
           \/ \E k \in {"completed", "failed"} : Emit(t, <<Ev("result", current[t]), Ev(k, current[t])>>)
    PROVE  \A s \in Threads : Bracketed(s)'
  <1> DEFINE r == current[t]
  <1>1. log[t] \in Seq(Event) /\ Chain(log[t]) /\ OpenFor(log[t], r)
    BY DEF TypeOK, Bracketed
  <1>2. \A k \in Kinds : Ev(k, r) \in Event
    BY DEF Ev, Event
  <1>3. CASE \E k \in {"failed", "cancelled"} : Emit(t, <<Ev(k, r)>>)
    <2>1. PICK k \in {"failed", "cancelled"} : Emit(t, <<Ev(k, r)>>)
      BY <1>3
    <2> DEFINE p == Append(log[t], Ev(k, r))
    <2>2. log' = [log EXCEPT ![t] = p]
      BY <2>1, <1>2, EmitOneLog DEF Kinds
    <2>3. Chain(p) /\ p[Len(p)] = Ev(k, r)
      BY <1>1, <1>2, MayEnd, ChainGrows DEF Kinds
    <2> HIDE DEF p
    <2>4. log'[t] = p /\ \A s \in Threads \ {t} : log'[s] = log[s]
      BY <2>2 DEF TypeOK
    <2>5. Bracketed(t)'
      BY <2>3, <2>4 DEF Bracketed, Chain, Shut, Link, Follows, Ending, Ev
    <2> QED
      BY <2>4, <2>5, BracketedStep
  <1>4. CASE \E k \in {"completed", "failed"} : Emit(t, <<Ev("result", r), Ev(k, r)>>)
    <2>1. PICK k \in {"completed", "failed"} : Emit(t, <<Ev("result", r), Ev(k, r)>>)
      BY <1>4
    <2> DEFINE d == Append(log[t], Ev("result", r))
               p == Append(d, Ev(k, r))
    <2>2. log' = [log EXCEPT ![t] = p]
      BY <2>1, <1>2, EmitTwoLog DEF Kinds
    <2>3. Chain(d) /\ d # <<>> /\ d \in Seq(Event) /\ d[Len(d)] = Ev("result", r)
      BY <1>1, <1>2, MayEnd, ChainGrows DEF Kinds
    <2> HIDE DEF d
    <2>4. Chain(p) /\ p[Len(p)] = Ev(k, r)
      BY <1>2, <2>3, MayEndAfterResult, ChainGrows DEF Kinds
    <2> HIDE DEF p
    <2>5. log'[t] = p /\ \A s \in Threads \ {t} : log'[s] = log[s]
      BY <2>2 DEF TypeOK
    <2>6. Bracketed(t)'
      BY <2>4, <2>5 DEF Bracketed, Chain, Shut, Link, Follows, Ending, Ev
    <2> QED
      BY <2>5, <2>6, BracketedStep
  <1> QED
    BY <1>3, <1>4

LEMMA DispatcherBrackets ==
    ASSUME ~SinkFails, TypeOK, HostTables, \A s \in Threads : Bracketed(s), NEW t \in Threads, Dispatcher(t)
    PROVE  \A s \in Threads : Bracketed(s)'
  <1>1. CASE BeginCycle(t)
    <2> DEFINE r == Head(queue[t])
               p == Append(log[t], Ev("started", r))
    <2>1. r \in Requests /\ Ev("started", r) \in Event /\ disp[t] # "running"
      BY <1>1 DEF BeginCycle, Ready, Ev, Event, Kinds
    <2>2. /\ log' = [log EXCEPT ![t] = p]
          /\ disp' = [disp EXCEPT ![t] = "running"] /\ current' = [current EXCEPT ![t] = r]
      BY <1>1, <2>1, EmitOneLog DEF BeginCycle
    <2>3. Chain(p) /\ p # <<>> /\ p[Len(p)] = Ev("started", r)
      <3>1. log[t] \in Seq(Event) /\ Chain(log[t]) /\ Shut(log[t])
        BY <2>1 DEF TypeOK, Bracketed
      <3> QED
        BY <2>1, <3>1, MayStart, ChainGrows
    <2> HIDE DEF p, r
    <2>4. log'[t] = p /\ disp'[t] = "running" /\ current'[t] = r
      BY <2>2 DEF TypeOK
    <2>5. \A s \in Threads \ {t} : log'[s] = log[s] /\ disp'[s] = disp[s] /\ current'[s] = current[s]
      BY <2>2 DEF TypeOK
    <2>6. Bracketed(t)'
      BY <2>3, <2>4 DEF Bracketed, Chain, OpenFor, Link, Follows, Ending, Ev
    <2> QED
      BY <2>5, <2>6, BracketedStep
  <1>2. CASE TakeMarker(t)
    <2>1. /\ log' = log /\ disp' = [disp EXCEPT ![t] = "none"] /\ disp[t] # "running"
          /\ current' = [current EXCEPT ![t] = NoRequest]
      BY <1>2 DEF TakeMarker, Ready, Teardown, registryVars
    <2> QED
      BY <2>1, BracketedKept DEF TypeOK
  <1>3. CASE Completes(t) \/ CompletesTooLate(t) \/ Fails(t) \/ Cancels(t)
    <2>1. disp[t] = "running" /\ current[t] \in Requests
      BY <1>3 DEF Completes, CompletesTooLate, Fails, Cancels, Resumes, HostTables, TypeOK
    <2>2. \/ \E k \in {"failed", "cancelled"} : Emit(t, <<Ev(k, current[t])>>)
          \/ \E k \in {"completed", "failed"} : Emit(t, <<Ev("result", current[t]), Ev(k, current[t])>>)
      BY <1>3 DEF Completes, CompletesTooLate, Fails, Cancels
    <2>3. EndCycle(t, "idle") \/ EndCycle(t, "dead")
      BY <1>3 DEF Completes, CompletesTooLate, Fails, Cancels
    <2>4. /\ disp'[t] # "running"
          /\ \A s \in Threads \ {t} : disp'[s] = disp[s] /\ current'[s] = current[s]
      BY <2>3 DEF EndCycle, TypeOK
    <2> QED
      BY <2>1, <2>2, <2>4, EndBrackets
  <1>4. CASE DispatcherCancelled(t)
    <2>1. log' = log /\ disp' = [disp EXCEPT ![t] = "dead"] /\ disp[t] # "running" /\ current' = current
      BY <1>4 DEF DispatcherCancelled, registryVars
    <2> QED
      BY <2>1, BracketedKept DEF TypeOK
  <1>5. ~CrashOnStarted(t) /\ ~CrashOnTerminal(t) /\ ~FailQueued(t)
    BY DEF CrashOnStarted, CrashOnTerminal, FailQueued, HostTables
  <1> QED
    BY <1>1, <1>2, <1>3, <1>4, <1>5 DEF Dispatcher

LEMMA OtherBrackets ==
    ASSUME TypeOK, \A s \in Threads : Bracketed(s), NEW t \in Threads,
           Execute(t) \/ Reap(t) \/ HardTermination(t)
    PROVE  \A s \in Threads : Bracketed(s)'
  <1>1. CASE Execute(t) \/ Reap(t)
    BY <1>1, BracketedKept DEF Execute, CycleEnds, CycleGivesUp, Reap, registryVars, taskVars
  <1>2. CASE TerminateNowCycleGone(t)
    BY <1>2, HardStopBrackets DEF TerminateNowCycleGone
  <1>3. CASE TerminateNowEnds(t)
    <2>1. /\ log' = log /\ disp' = [disp EXCEPT ![t] = "none"] /\ disp[t] # "running"
          /\ current' = [current EXCEPT ![t] = NoRequest]
      BY <1>3 DEF TerminateNowEnds, TaskDone, Teardown, registryVars
    <2> QED
      BY <2>1, BracketedKept DEF TypeOK
  <1> QED
    BY <1>1, <1>2, <1>3 DEF HardTermination

LEMMA SharedBrackets ==
    ASSUME \A s \in Threads : Bracketed(s),
           (\E r \in Requests : Withdraw(r)) \/ CloseBegins \/ CloseDrained \/ CloseEnds \/ LoseWorker
    PROVE  \A s \in Threads : Bracketed(s)'
  <1>1. log' = log /\ disp' = disp /\ current' = current
    BY DEF Withdraw, CloseBegins, CloseDrained, CloseEnds, LoseWorker, DropWorker, registryVars, taskVars
  <1> QED
    BY <1>1, BracketedKept

\* Unless the event sink fails, the log of a thread is a sequence of whole
\* cycles of one request each, over every termination and respawn of its id,
\* and the last one is open exactly while the dispatcher awaits it.
THEOREM CyclesAlwaysAreBracketed == ASSUME ~SinkFails PROVE Spec => []CyclesAreBracketed
  <1> DEFINE Inv == \A t \in Threads : Bracketed(t)
  <1>1. Init => Inv
    <2>1. ASSUME Init, NEW t \in Threads PROVE log[t] = <<>> /\ disp[t] # "running"
      <3>1. log = [s \in Threads |-> <<>>] /\ disp = [s \in Threads |-> "none"]
        BY <2>1 DEF Init
      <3> QED
        BY <3>1
    <2>2. ASSUME NEW t \in Threads, log[t] = <<>>, disp[t] # "running" PROVE Bracketed(t)
      BY <2>2 DEF Bracketed, Chain, Shut
    <2> QED
      BY <2>1, <2>2
  <1>2. TypeOK /\ HostTables /\ Inv /\ [Next]_vars => Inv'
    <2>1. ASSUME TypeOK, Inv, UNCHANGED vars PROVE Inv'
      BY <2>1, BracketedKept DEF vars, registryVars, taskVars
    <2> QED
      BY <2>1, CallBrackets, DispatcherBrackets, OtherBrackets, SharedBrackets DEF Next
  <1>3. Inv => CyclesAreBracketed
    BY BracketedIsBracketed
  <1> HIDE DEF Inv
  <1> QED
    BY <1>1, <1>2, <1>3, HostTablesAlways, PTL DEF Spec

----------------------------------------------------------------------------
(* The refinement.                                                         *)

\* The two sides of the mapping.
lines == [t \in Threads |-> Line(t)]
served == {t \in Threads : current[t] # NoRequest}

Serves == Service!Next \/ UNCHANGED Service!vars

----------------------------------------------------------------------------
(* Lines.                                                                  *)

LEMMA LineType ==
    ASSUME TypeOK, NEW t \in Threads
    PROVE  /\ queue[t] \in Seq(Item)
           /\ current[t] # NoRequest => current[t] \in Item /\ <<current[t]>> \in Seq(Item)
  BY DEF TypeOK, Item

\* The line of a thread that serves is its request, then its queue.
LEMMA LineOfServed ==
    ASSUME NEW r \in Item, NEW q \in Seq(Item)
    PROVE  /\ <<r>> \o q # <<>>
           /\ Head(<<r>> \o q) = r
           /\ Tail(<<r>> \o q) = q
           /\ \A x \in Item : <<r>> \o Append(q, x) = Append(<<r>> \o q, x)
  <1> DEFINE l == <<r>> \o q
  <1>1. <<r>> \in Seq(Item) /\ Len(<<r>>) = 1 /\ <<r>>[1] = r
    OBVIOUS
  <1>2. /\ l \in Seq(Item) /\ Len(l) = 1 + Len(q)
        /\ \A i \in 1 .. 1 + Len(q) : l[i] = IF i <= 1 THEN <<r>>[i] ELSE q[i - 1]
    BY <1>1, ConcatProperties
  <1>3. Len(q) \in Nat
    OBVIOUS
  <1>4. l # <<>> /\ Head(l) = r
    BY <1>1, <1>2, <1>3
  <1>5. Tail(l) = q
    <2>1. Tail(l) \in Seq(Item) /\ Len(Tail(l)) = Len(q) /\ \A i \in 1 .. Len(q) : Tail(l)[i] = l[i + 1]
      BY <1>2, <1>3, <1>4, HeadTailProperties
    <2>2. \A i \in 1 .. Len(q) : l[i + 1] = q[i]
      BY <1>2, <1>3
    <2> QED
      BY <2>1, <2>2, SeqEqual
  <1>6. ASSUME NEW x \in Item PROVE <<r>> \o Append(q, x) = Append(l, x)
    <2>1. Append(q, x) = q \o <<x>> /\ Append(l, x) = l \o <<x>> /\ <<x>> \in Seq(Item)
      BY <1>2, AppendIsConcat
    <2> QED
      BY <1>1, <2>1, ConcatAssociative
  <1> QED
    BY <1>4, <1>5, <1>6

\* Appending to a queue appends to the line.
LEMMA AppendToLine ==
    ASSUME TypeOK, NEW t \in Threads, NEW x \in Item, current' = current, queue'[t] = Append(queue[t], x)
    PROVE  Line(t)' = Append(Line(t), x)
  BY LineType, LineOfServed DEF Line

LEMMA SameLines ==
    ASSUME UNCHANGED <<queue, current>>
    PROVE  lines' = lines /\ served' = served
  BY DEF lines, served, Line

LEMMA Stutters ==
    ASSUME UNCHANGED <<queue, current, fut>>
    PROVE  Serves
  BY SameLines DEF Serves, Service!vars, lines, served

\* A step that changes the line of one thread.
LEMMA LinesChange ==
    ASSUME TypeOK, NEW t \in Threads, NEW l, Line(t)' = l,
           \A s \in Threads \ {t} : queue'[s] = queue[s] /\ current'[s] = current[s]
    PROVE  lines' = [lines EXCEPT ![t] = l]
  BY DEF lines, Line

----------------------------------------------------------------------------
(* The steps.                                                              *)

\* A teardown drops the line of a thread that serves nothing.
LEMMA TeardownServes ==
    ASSUME TypeOK, HostTables, NEW t \in Threads, disp[t] # "running", Teardown(t)
    PROVE  Serves
  <1>1. current[t] = NoRequest
    BY DEF HostTables
  <1>2. /\ queue' = [queue EXCEPT ![t] = <<>>] /\ current' = [current EXCEPT ![t] = NoRequest]
        /\ Settle(Queued(t), "cancelled")
    BY DEF Teardown
  <1>3. Line(t) = queue[t] /\ Line(t)' = <<>>
    BY <1>1, <1>2 DEF Line, TypeOK
  <1>4. lines' = [lines EXCEPT ![t] = <<>>]
    BY <1>2, <1>3, LinesChange DEF TypeOK
  <1>5. served' = served /\ t \notin served
    BY <1>1, <1>2 DEF served, TypeOK
  <1>6. fut' = [r \in Requests |-> IF r \in {lines[t][i] : i \in DOMAIN lines[t]} /\ fut[r] = "pending"
                                   THEN "cancelled" ELSE fut[r]]
    BY <1>2, <1>3 DEF lines, Settle, Queued, Pending
  <1>7. Service!Drop(t)
    BY <1>4, <1>5, <1>6 DEF Service!Drop, Service!InLine, Service!Pending, lines, served
  <1> QED
    BY <1>7 DEF Serves, Service!Next

LEMMA HardStopServes ==
    ASSUME TypeOK, HostTables, NEW t \in Threads, HardStop(t)
    PROVE  Serves
  <1>1. CASE KillDispatcher(t)
    BY <1>1, Stutters DEF KillDispatcher
  <1>2. CASE disp[t] \in TaskDone /\ Teardown(t)
    BY <1>2, TeardownServes DEF TaskDone
  <1> QED
    BY <1>1, <1>2 DEF HardStop

\* The end of a cycle is the answer to the head of the line.
LEMMA AnswerServes ==
    ASSUME TypeOK, HostTables, NEW t \in Threads, NEW next, disp[t] = "running", EndCycle(t, next),
           NEW outcome \in {"result", "error", "cancelled"}, Settle({current[t]}, outcome)
    PROVE  Serves
  <1> DEFINE r == current[t]
  <1>1. r \in Requests /\ r # NoRequest
    BY InFlightHasRequest, RuntimeAssumption
  <1>2. queue' = queue /\ current' = [current EXCEPT ![t] = NoRequest]
    BY DEF EndCycle
  <1>3. lines[t] = <<r>> \o queue[t] /\ Line(t)' = queue[t]
    BY <1>1, <1>2 DEF lines, Line, TypeOK
  <1>4. Head(lines[t]) = r /\ Tail(lines[t]) = queue[t]
    BY <1>1, <1>3, LineType, LineOfServed
  <1>5. lines' = [lines EXCEPT ![t] = Tail(@)]
    <2>1. lines' = [lines EXCEPT ![t] = queue[t]]
      BY <1>2, <1>3, LinesChange DEF TypeOK
    <2> QED
      BY <1>4, <2>1
  <1>6. served' = served \ {t} /\ t \in served
    BY <1>1, <1>2 DEF served, TypeOK
  <1>7. fut' = [fut EXCEPT ![Head(lines[t])] = IF @ = "pending" THEN outcome ELSE @]
    BY <1>1, <1>4 DEF Settle, Pending, TypeOK
  <1>8. Service!Answer(t, outcome)
    BY <1>5, <1>6, <1>7 DEF Service!Answer, lines, served
  <1> QED
    BY <1>8 DEF Serves, Service!Next

LEMMA CallServes ==
    ASSUME TypeOK, HostTables, NEW t \in Threads, Call(t)
    PROVE  Serves
  <1>1. CASE Spawn(t) \/ SpawnFails(t) \/ Cancel(t) \/ Pause(t) \/ Resume(t)
    BY <1>1, Stutters DEF Spawn, SpawnFails, Admit, Cancel, Pause, Resume, taskVars, futVars
  <1>2. CASE \E r \in Requests : Submit(t, r)
    <2>1. PICK r \in Requests : Submit(t, r)
      BY <1>2
    <2>2. /\ queue' = [queue EXCEPT ![t] = Append(@, r)] /\ current' = current
          /\ fut[r] = "new" /\ fut' = [fut EXCEPT ![r] = "pending"]
      BY <2>1 DEF Submit
    <2>3. Line(t)' = Append(Line(t), r)
      BY <2>2, AppendToLine DEF TypeOK, Item
    <2>4. lines' = [lines EXCEPT ![t] = Append(Line(t), r)]
      BY <2>2, <2>3, LinesChange DEF TypeOK
    <2>5. lines' = [lines EXCEPT ![t] = Append(@, r)] /\ served' = served
      BY <2>2, <2>4 DEF lines, served
    <2>6. Service!Accept(t, r)
      BY <2>2, <2>5 DEF Service!Accept, lines, served
    <2> QED
      BY <2>6 DEF Serves, Service!Next
  <1>3. CASE Terminate(t)
    <2>1. /\ queue' = [queue EXCEPT ![t] = Append(@, TerminateAfterIdle)]
          /\ current' = current /\ fut' = fut
      BY <1>3 DEF Terminate, futVars
    <2>2. Line(t)' = Append(Line(t), TerminateAfterIdle)
      BY <2>1, AppendToLine DEF TypeOK, Item
    <2>3. \A s \in Threads \ {t} : Line(s)' = Line(s)
      BY <2>1 DEF Line, TypeOK
    <2>4. /\ lines' = [s \in Threads |-> IF s \in {t} THEN Append(lines[s], TerminateAfterIdle) ELSE lines[s]]
          /\ served' = served
      BY <2>1, <2>2, <2>3 DEF lines, served
    <2>5. Service!AcceptMarker({t})
      BY <2>1, <2>4 DEF Service!AcceptMarker, lines, served
    <2> QED
      BY <2>5 DEF Serves, Service!Next
  <1>4. CASE TerminateNow(t)
    <2>1. CASE HardStop(t)
      BY <2>1, HardStopServes
    <2>2. CASE ~HardStop(t)
      BY <1>4, <2>2, Stutters DEF TerminateNow
    <2> QED
      BY <2>1, <2>2
  <1> QED
    BY <1>1, <1>2, <1>3, <1>4 DEF Call

LEMMA DispatcherServes ==
    ASSUME TypeOK, HostTables, ~SinkFails, NEW t \in Threads, Dispatcher(t)
    PROVE  Serves
  <1>1. CASE BeginCycle(t)
    <2> DEFINE q == queue[t]
    <2>1. /\ q # <<>> /\ Head(q) \in Requests /\ current[t] = NoRequest /\ fut' = fut
          /\ queue' = [queue EXCEPT ![t] = Tail(q)] /\ current' = [current EXCEPT ![t] = Head(q)]
      BY <1>1 DEF BeginCycle, Ready, HostTables, futVars
    <2>2. q \in Seq(Item)
      BY LineType
    <2>3. Tail(q) \in Seq(Item) /\ Head(q) \in Item
      BY <2>1, <2>2
    <2>4. <<Head(q)>> \o Tail(q) = q
      <3> DEFINE l == <<Head(q)>> \o Tail(q)
      <3>1. /\ l \in Seq(Item) /\ Len(l) = 1 + Len(Tail(q))
            /\ \A i \in 1 .. 1 + Len(Tail(q)) : l[i] = IF i <= 1 THEN Head(q) ELSE Tail(q)[i - 1]
        <4>1. <<Head(q)>> \in Seq(Item) /\ Len(<<Head(q)>>) = 1 /\ <<Head(q)>>[1] = Head(q)
          BY <2>3
        <4> QED
          BY <2>3, <4>1, ConcatProperties
      <3>2. /\ Len(q) \in Nat /\ Len(q) # 0 /\ Head(q) = q[1] /\ Len(Tail(q)) = Len(q) - 1
            /\ \A i \in 1 .. Len(q) - 1 : Tail(q)[i] = q[i + 1]
        BY <2>1, <2>2, HeadTailProperties
      <3>3. Len(l) = Len(q) /\ \A i \in 1 .. Len(q) : l[i] = q[i]
        BY <3>1, <3>2
      <3> QED
        BY <2>2, <3>1, <3>3, SeqEqual
    <2>5. Line(t)' = q /\ Line(t) = q
      BY <2>1, <2>4, RuntimeAssumption DEF Line, TypeOK
    <2>6. lines' = [lines EXCEPT ![t] = q]
      BY <2>1, <2>5, LinesChange DEF TypeOK
    <2>7. lines' = lines /\ lines[t] = q
      BY <2>5, <2>6 DEF lines
    <2>8. served' = served \cup {t} /\ t \notin served
      BY <2>1, RuntimeAssumption DEF served, TypeOK
    <2>9. Service!Begin(t)
      BY <2>1, <2>7, <2>8 DEF Service!Begin, lines, served
    <2> QED
      BY <2>9 DEF Serves, Service!Next
  <1>2. CASE TakeMarker(t)
    BY <1>2, TeardownServes DEF TakeMarker, Ready
  <1>3. CASE Completes(t) \/ Fails(t) \/ Cancels(t)
    BY <1>3, AnswerServes DEF Completes, Fails, Cancels, Resumes
  <1>4. CASE CompletesTooLate(t)
    <2>1. Settle({current[t]}, "result")
      BY <1>4 DEF CompletesTooLate, Settle, TypeOK
    <2> QED
      BY <1>4, <2>1, AnswerServes DEF CompletesTooLate, Resumes
  <1>5. CASE DispatcherCancelled(t)
    BY <1>5, Stutters DEF DispatcherCancelled, futVars
  <1>6. ~CrashOnStarted(t) /\ ~CrashOnTerminal(t) /\ ~FailQueued(t)
    BY DEF CrashOnStarted, CrashOnTerminal, FailQueued, HostTables
  <1> QED
    BY <1>1, <1>2, <1>3, <1>4, <1>5, <1>6 DEF Dispatcher

LEMMA OtherServes ==
    ASSUME TypeOK, HostTables, NEW t \in Threads, Execute(t) \/ Reap(t) \/ HardTermination(t)
    PROVE  Serves
  <1>1. CASE Execute(t) \/ Reap(t)
    BY <1>1, Stutters DEF Execute, CycleEnds, CycleGivesUp, Reap, taskVars, futVars
  <1>2. CASE TerminateNowCycleGone(t)
    BY <1>2, HardStopServes DEF TerminateNowCycleGone
  <1>3. CASE TerminateNowEnds(t)
    BY <1>3, TeardownServes DEF TerminateNowEnds, TaskDone
  <1> QED
    BY <1>1, <1>2, <1>3 DEF HardTermination

LEMMA SharedServes ==
    ASSUME TypeOK,
           (\E r \in Requests : Withdraw(r)) \/ CloseBegins \/ CloseDrained \/ CloseEnds \/ LoseWorker
    PROVE  Serves
  <1>1. CASE \E r \in Requests : Withdraw(r)
    <2>1. PICK r \in Requests : Withdraw(r)
      BY <1>1
    <2>2. /\ fut[r] = "pending" /\ fut' = [fut EXCEPT ![r] = "cancelled"]
          /\ lines' = lines /\ served' = served
      BY <2>1, SameLines DEF Withdraw, Pending, taskVars
    <2>3. Service!Withdraw(r)
      BY <2>2 DEF Service!Withdraw, Service!Pending, lines, served
    <2> QED
      BY <2>3 DEF Serves, Service!Next
  <1>2. CASE CloseBegins
    <2>1. /\ queue' = [t \in Threads |-> IF t \in hosted THEN Append(queue[t], TerminateAfterIdle) ELSE queue[t]]
          /\ current' = current /\ fut' = fut
      BY <1>2 DEF CloseBegins, futVars
    <2>2. \A t \in Threads : Line(t)' = IF t \in hosted THEN Append(Line(t), TerminateAfterIdle) ELSE Line(t)
      <3> SUFFICES ASSUME NEW t \in Threads
                   PROVE  Line(t)' = IF t \in hosted THEN Append(Line(t), TerminateAfterIdle) ELSE Line(t)
        OBVIOUS
      <3>1. CASE t \in hosted
        BY <2>1, <3>1, AppendToLine DEF Item
      <3>2. CASE t \notin hosted
        BY <2>1, <3>2 DEF Line
      <3> QED
        BY <3>1, <3>2
    <2>3. /\ lines' = [t \in Threads |-> IF t \in hosted THEN Append(lines[t], TerminateAfterIdle) ELSE lines[t]]
          /\ served' = served
      BY <2>1, <2>2 DEF lines, served
    <2>4. Service!AcceptMarker(hosted) /\ hosted \in SUBSET Threads
      BY <2>1, <2>3 DEF Service!AcceptMarker, lines, served, TypeOK
    <2> QED
      BY <2>4 DEF Serves, Service!Next
  <1>3. CASE CloseDrained \/ CloseEnds \/ LoseWorker
    BY <1>3, Stutters DEF CloseDrained, CloseEnds, LoseWorker, taskVars, futVars
  <1> QED
    BY <1>1, <1>2, <1>3

LEMMA ServiceStarts == Init => Service!Init
  BY RuntimeAssumption DEF Init, Service!Init, Line

LEMMA EveryStepServes ==
    ASSUME ~SinkFails, TypeOK, HostTables, [Next]_vars
    PROVE  Serves
  <1>1. ASSUME UNCHANGED vars PROVE Serves
    BY <1>1, Stutters DEF vars, taskVars, futVars
  <1> QED
    BY <1>1, CallServes, DispatcherServes, OtherServes, SharedServes DEF Next

\* As long as append_event does not raise, every behaviour of the runtime is,
\* for its callers, one of the abstract service: requests are served one at a
\* time in the order they were accepted, each is settled once, and what waits
\* is dropped only with its thread.
THEOREM RuntimeServesInOrder ==
    ASSUME ~SinkFails
    PROVE  Spec => ServesInOrder
  <1>1. TypeOK /\ HostTables /\ [Next]_vars => [Service!Next]_Service!vars
    BY EveryStepServes DEF Serves
  <1> QED
    BY <1>1, ServiceStarts, HostTablesAlways, PTL DEF Spec, Service!Spec, ServesInOrder
=============================================================================
