--------------------------- MODULE ThreadRuntime ---------------------------
(***************************************************************************)
(* One LocalWorker and the InMemoryCoordinator it is registered with: the  *)
(* registry of threads, the per-thread work queue and dispatcher task, the *)
(* cycles it runs, and the calls that cancel, pause, terminate and close.  *)
(* A step is what runs between two suspensions of the asyncio loop; which  *)
(* ready task runs next is left open.                                      *)
(***************************************************************************)
EXTENDS Naturals, Sequences

CONSTANTS Threads,            \* thread ids
          Requests,           \* PromptRequests, one per call of handle.run
          TerminateAfterIdle, \* the marker that closes a work queue
          NoRequest,
          QueueBound,         \* longest work queue explored
          ReapBound,          \* most deregistrations pending for one id
          ReuseIds,           \* may a caller spawn under an id used before?
          HonoursCancel,      \* a cycle told to stop lets CancelledError out
          SinkFails           \* may Coordinator.append_event raise?

ASSUME RuntimeAssumption ==
    /\ TerminateAfterIdle \notin Requests
    /\ NoRequest \notin Requests
    /\ TerminateAfterIdle # NoRequest
    /\ QueueBound \in Nat
    /\ ReapBound \in Nat
    /\ {ReuseIds, HonoursCancel, SinkFails} \subseteq BOOLEAN

VARIABLES
    \* the coordinator
    pool,      \* is the worker in _workers?
    info,      \* _infos: each thread's status, "absent" when not registered
    log,       \* the lifecycle events the dispatcher emitted, per thread
    \* the worker
    joined,    \* LocalWorker._registered
    minted,    \* ids handed to a spawn so far
    hosted,    \* keys of _records / _queues / _threads / _dispatchers
    queue,     \* _queues
    disp,      \* the dispatcher task
    kill,      \* Task.cancelling() of the dispatcher; "thrown": due at its next step
    current,   \* the request whose cycle is in flight
    cycle,     \* the in-flight cycle's task (_current_task)
    signal,    \* threads whose cancel_signal is set
    paused,    \* threads whose pause_signal is set
    reap,      \* pending deregister_thread tasks (_reaping), per thread
    \* calls in progress
    hard,      \* where terminate_now(t) is suspended
    hardTask,  \* the cycle that terminate_now(t) awaits
    closing,   \* where close() is suspended
    closeWait, \* the threads close() is waiting for
    \* callers
    fut,       \* the future of each request
    asked      \* history: requests that something asked to cancel

registryVars == <<pool, info, log>>
hostVars == <<joined, minted, hosted, paused, reap>>
taskVars == <<queue, disp, kill, current, cycle, signal>>
callVars == <<hard, hardTask, closing, closeWait>>
futVars == <<fut, asked>>
vars == <<registryVars, hostVars, taskVars, callVars, futVars>>

----------------------------------------------------------------------------
Statuses == {"absent", "not_started", "running", "idle", "paused", "cancelled", "failed"}
Kinds == {"started", "result", "completed", "failed", "cancelled"}
Event == [kind : Kinds, req : Requests]

Undone == {"running", "cancelling"}
TaskDone == {"none", "crashed", "dead"}

TypeOK ==
    /\ pool \in BOOLEAN
    /\ joined \in BOOLEAN
    /\ info \in [Threads -> Statuses]
    /\ log \in [Threads -> Seq(Event)]
    /\ minted \in SUBSET Threads
    /\ hosted \in SUBSET Threads
    /\ queue \in [Threads -> Seq(Requests \cup {TerminateAfterIdle})]
    /\ disp \in [Threads -> {"none", "idle", "running", "crashed", "dead"}]
    /\ kill \in [Threads -> {"no", "counted", "thrown"}]
    /\ current \in [Threads -> Requests \cup {NoRequest}]
    /\ cycle \in [Threads -> {"none", "running", "cancelling", "ok", "raised", "cancelled"}]
    /\ signal \in SUBSET Threads
    /\ paused \in SUBSET Threads
    /\ reap \in [Threads -> Nat]
    /\ hard \in [Threads -> {"none", "task", "dispatcher"}]
    /\ hardTask \in [Threads -> Requests \cup {NoRequest}]
    /\ closing \in {"open", "draining", "reaping"}
    /\ closeWait \in SUBSET Threads
    /\ fut \in [Requests -> {"new", "pending", "result", "error", "cancelled"}]
    /\ asked \in SUBSET Requests

Init ==
    /\ pool = FALSE /\ joined = FALSE
    /\ info = [t \in Threads |-> "absent"]
    /\ log = [t \in Threads |-> <<>>]
    /\ minted = {} /\ hosted = {} /\ signal = {} /\ paused = {}
    /\ queue = [t \in Threads |-> <<>>]
    /\ disp = [t \in Threads |-> "none"]
    /\ kill = [t \in Threads |-> "no"]
    /\ current = [t \in Threads |-> NoRequest]
    /\ cycle = [t \in Threads |-> "none"]
    /\ reap = [t \in Threads |-> 0]
    /\ hard = [t \in Threads |-> "none"]
    /\ hardTask = [t \in Threads |-> NoRequest]
    /\ closing = "open" /\ closeWait = {}
    /\ fut = [r \in Requests |-> "new"]
    /\ asked = {}

----------------------------------------------------------------------------
(* Helpers.                                                                *)

Queued(t) == {queue[t][i] : i \in DOMAIN queue[t]} \cap Requests

Pending(r) == fut[r] = "pending"

\* A routed call reaches the thread: registered, its worker known, hosted.
Routable(t) == pool /\ info[t] # "absent" /\ t \in hosted

InFlight(t) == disp[t] = "running" /\ cycle[t] \in Undone

\* Mutant: the terminal guard of _apply_lifecycle is missing.
AfterEventResurrects(status, kind) ==
    IF status = "absent" THEN status
    ELSE CASE kind = "started" -> "running"
           [] kind \in {"completed", "failed"} -> "idle"
           [] kind = "cancelled" -> "cancelled"
           [] OTHER -> status

\* The status a lifecycle event leaves behind; a terminal one is kept.
AfterEvent(status, kind) ==
    IF status \in {"absent", "failed"} THEN status
    ELSE CASE kind = "started" -> "running"
           [] kind \in {"completed", "failed"} -> "idle"
           [] kind = "cancelled" -> "cancelled"
           [] OTHER -> status

Ev(kind, r) == [kind |-> kind, req |-> r]

\* Emit `events` in order; the last one decides the status.
Emit(t, events) ==
    /\ log' = [log EXCEPT ![t] = @ \o events]
    /\ info' = [info EXCEPT ![t] = AfterEvent(@, events[Len(events)].kind)]
    /\ UNCHANGED pool

\* Settle every still-pending future of S with `outcome`.
Settle(S, outcome) ==
    fut' = [r \in Requests |-> IF r \in S /\ Pending(r) THEN outcome ELSE fut[r]]

\* The registry after deregister_worker: what is left has lost its host.
DropWorker ==
    /\ pool' = FALSE
    /\ info' = [t \in Threads |-> IF info[t] = "absent" THEN "absent" ELSE "failed"]
    /\ UNCHANGED log

----------------------------------------------------------------------------
(* Spawning.                                                               *)

\* register() and register_thread(): the id is published before any
\* per-thread state exists.  An id is not reused while terminate_now or
\* close still waits for its previous thread.
Admit(t) ==
    /\ t \notin hosted
    /\ t \in minted => ReuseIds
    /\ hard[t] = "none" /\ t \notin closeWait
    /\ reap[t] < ReapBound
    /\ joined => pool
    /\ joined' = TRUE /\ pool' = TRUE
    /\ minted' = minted \cup {t}
    /\ info' = [info EXCEPT ![t] = "not_started"]
    /\ UNCHANGED <<log, paused, reap, callVars, futVars>>

Spawn(t) ==
    /\ Admit(t)
    /\ hosted' = hosted \cup {t}
    /\ disp' = [disp EXCEPT ![t] = "idle"]
    /\ UNCHANGED <<queue, kill, current, cycle, signal>>

\* Spawnable.to_thread raises: the registration is not taken back.
SpawnFails(t) ==
    /\ Admit(t)
    /\ UNCHANGED <<hosted, taskVars>>

----------------------------------------------------------------------------
(* Calls of the users of a handle.                                         *)

\* Mutant: a new request is put in front of those that wait.
SubmitInFront(t, r) ==
    /\ Routable(t)
    /\ fut[r] = "new"
    /\ Len(queue[t]) < QueueBound
    /\ queue' = [queue EXCEPT ![t] = <<r>> \o @]
    /\ fut' = [fut EXCEPT ![r] = "pending"]
    /\ UNCHANGED <<registryVars, hostVars, disp, kill, current, cycle, signal, callVars, asked>>

Submit(t, r) ==
    /\ Routable(t)
    /\ fut[r] = "new"
    /\ Len(queue[t]) < QueueBound
    /\ queue' = [queue EXCEPT ![t] = Append(@, r)]
    /\ fut' = [fut EXCEPT ![r] = "pending"]
    /\ UNCHANGED <<registryVars, hostVars, disp, kill, current, cycle, signal, callVars, asked>>

\* The caller cancels the future it awaits (its own task was cancelled, a
\* wait_for expired); the work item stays where it is.
Withdraw(r) ==
    /\ Pending(r)
    /\ fut' = [fut EXCEPT ![r] = "cancelled"]
    /\ asked' = asked \cup {r}
    /\ UNCHANGED <<registryVars, hostVars, taskVars, callVars>>

Cancel(t) ==
    /\ Routable(t)
    /\ signal' = signal \cup {t}
    /\ \/ /\ InFlight(t)
          /\ cycle' = [cycle EXCEPT ![t] = "cancelling"]
          /\ asked' = asked \cup {current[t]}
       \/ /\ ~InFlight(t)
          /\ UNCHANGED <<cycle, asked>>
    /\ UNCHANGED <<registryVars, hostVars, queue, disp, kill, current, callVars, fut>>

\* Mutant: pause does not look at the status it overwrites.
PauseRunning(t) ==
    /\ Routable(t)
    /\ paused' = paused \cup {t}
    /\ info' = [info EXCEPT ![t] = IF @ = "failed" THEN @ ELSE "paused"]
    /\ UNCHANGED <<pool, log, joined, minted, hosted, reap, taskVars, callVars, futVars>>

Pause(t) ==
    /\ Routable(t)
    /\ paused' = paused \cup {t}
    /\ info' = [info EXCEPT ![t] = IF @ \in {"failed", "running"} THEN @ ELSE "paused"]
    /\ UNCHANGED <<pool, log, joined, minted, hosted, reap, taskVars, callVars, futVars>>

Resume(t) ==
    /\ Routable(t)
    /\ paused' = paused \ {t}
    /\ info' = [info EXCEPT ![t] = IF @ = "paused" THEN "idle" ELSE @]
    /\ UNCHANGED <<pool, log, joined, minted, hosted, reap, taskVars, callVars, futVars>>

Terminate(t) ==
    /\ Routable(t)
    /\ Len(queue[t]) < QueueBound
    /\ queue' = [queue EXCEPT ![t] = Append(@, TerminateAfterIdle)]
    /\ UNCHANGED <<registryVars, hostVars, disp, kill, current, cycle, signal, callVars, futVars>>

----------------------------------------------------------------------------
(* Teardown and the registry clean-up it schedules.                        *)

\* Mutant: the queue is thrown away with its futures.
TeardownForgets(t) ==
    /\ UNCHANGED futVars
    /\ reap' = [reap EXCEPT ![t] = @ + 1]
    /\ hosted' = hosted \ {t}
    /\ queue' = [queue EXCEPT ![t] = <<>>]
    /\ disp' = [disp EXCEPT ![t] = "none"]
    /\ kill' = [kill EXCEPT ![t] = "no"]
    /\ current' = [current EXCEPT ![t] = NoRequest]
    /\ cycle' = [cycle EXCEPT ![t] = "none"]
    /\ signal' = signal \ {t}
    /\ paused' = paused \ {t}
    /\ UNCHANGED <<registryVars, joined, minted>>

Teardown(t) ==
    /\ Settle(Queued(t), "cancelled")
    /\ asked' = asked \cup Queued(t)
    /\ reap' = [reap EXCEPT ![t] = @ + 1]
    /\ hosted' = hosted \ {t}
    /\ queue' = [queue EXCEPT ![t] = <<>>]
    /\ disp' = [disp EXCEPT ![t] = "none"]
    /\ kill' = [kill EXCEPT ![t] = "no"]
    /\ current' = [current EXCEPT ![t] = NoRequest]
    /\ cycle' = [cycle EXCEPT ![t] = "none"]
    /\ signal' = signal \ {t}
    /\ paused' = paused \ {t}
    /\ UNCHANGED <<registryVars, joined, minted>>

\* The scheduled coordinator.deregister_thread(t) runs.
Reap(t) ==
    /\ reap[t] > 0
    /\ reap' = [reap EXCEPT ![t] = @ - 1]
    /\ info' = [info EXCEPT ![t] = "absent"]
    /\ UNCHANGED <<pool, log, joined, minted, hosted, paused, taskVars, callVars, futVars>>

----------------------------------------------------------------------------
(* The dispatcher.                                                         *)

\* Mutant: pausing stops the dispatcher, the terminate marker included.
ReadyUnlessPaused(t) ==
    disp[t] = "idle" /\ kill[t] # "thrown" /\ queue[t] # <<>> /\ t \notin paused

\* Blocked in q.get() and free to take an item.
Ready(t) == disp[t] = "idle" /\ kill[t] # "thrown" /\ queue[t] # <<>>

\* Mutant: the cancel signal of the last cycle is not cleared.
BeginCycleStaleSignal(t) ==
    /\ Ready(t)
    /\ Head(queue[t]) \in Requests
    /\ queue' = [queue EXCEPT ![t] = Tail(@)]
    /\ Emit(t, <<Ev("started", Head(queue[t]))>>)
    /\ disp' = [disp EXCEPT ![t] = "running"]
    /\ current' = [current EXCEPT ![t] = Head(queue[t])]
    /\ cycle' = [cycle EXCEPT ![t] = "running"]
    /\ UNCHANGED <<hostVars, kill, signal, callVars, futVars>>

\* Mutant: the marker is taken for a request.
BeginCycleOnMarker(t) ==
    /\ Ready(t)
    /\ queue' = [queue EXCEPT ![t] = Tail(@)]
    /\ signal' = signal \ {t}
    /\ Emit(t, <<Ev("started", Head(queue[t]))>>)
    /\ disp' = [disp EXCEPT ![t] = "running"]
    /\ current' = [current EXCEPT ![t] = Head(queue[t])]
    /\ cycle' = [cycle EXCEPT ![t] = "running"]
    /\ UNCHANGED <<hostVars, kill, callVars, futVars>>

BeginCycle(t) ==
    /\ Ready(t)
    /\ Head(queue[t]) \in Requests
    /\ queue' = [queue EXCEPT ![t] = Tail(@)]
    /\ signal' = signal \ {t}
    /\ Emit(t, <<Ev("started", Head(queue[t]))>>)
    /\ disp' = [disp EXCEPT ![t] = "running"]
    /\ current' = [current EXCEPT ![t] = Head(queue[t])]
    /\ cycle' = [cycle EXCEPT ![t] = "running"]
    /\ UNCHANGED <<hostVars, kill, callVars, futVars>>

TakeMarker(t) ==
    /\ Ready(t)
    /\ Head(queue[t]) = TerminateAfterIdle
    /\ Teardown(t)
    /\ UNCHANGED callVars

\* The thread's execute() ends.  It lets out CancelledError when its task was
\* cancelled, or when it finds the cancel signal set at a work boundary.
CycleEnds(t, outcome) ==
    /\ InFlight(t)
    /\ \/ outcome \in {"ok", "raised"} /\ (cycle[t] = "running" \/ ~HonoursCancel)
       \/ outcome = "cancelled" /\ (cycle[t] = "cancelling" \/ t \in signal)
    /\ cycle' = [cycle EXCEPT ![t] = outcome]
    /\ UNCHANGED <<registryVars, hostVars, queue, disp, kill, current, signal, callVars, futVars>>

\* execute() raises CancelledError of its own accord: what it awaited was
\* cancelled under it.
CycleGivesUp(t) ==
    /\ InFlight(t)
    /\ cycle' = [cycle EXCEPT ![t] = "cancelled"]
    /\ asked' = asked \cup {current[t]}
    /\ UNCHANGED <<registryVars, hostVars, queue, disp, kill, current, signal, callVars, fut>>

\* The dispatcher resumes from `await task`.
Resumes(t) == disp[t] = "running" /\ cycle[t] \notin Undone

\* Mutant: _current_task is not popped.
EndCycleKeepsTask(t, next) ==
    /\ cycle' = [cycle EXCEPT ![t] = "none"]
    /\ disp' = [disp EXCEPT ![t] = next]
    /\ UNCHANGED <<hostVars, queue, kill, current, callVars, asked>>

\* After a cycle: the task reference is dropped, the dispatcher goes to `next`.
EndCycle(t, next) ==
    /\ current' = [current EXCEPT ![t] = NoRequest]
    /\ cycle' = [cycle EXCEPT ![t] = "none"]
    /\ disp' = [disp EXCEPT ![t] = next]
    /\ UNCHANGED <<hostVars, queue, kill, callVars, asked>>

Completes(t) ==
    /\ Resumes(t) /\ kill[t] # "thrown" /\ cycle[t] = "ok"
    /\ Pending(current[t])
    /\ Emit(t, <<Ev("result", current[t]), Ev("completed", current[t])>>)
    /\ Settle({current[t]}, "result")
    /\ EndCycle(t, "idle")
    /\ UNCHANGED signal

\* Mutant: a result nobody waits for any more counts as completed.
CompletesAnyway(t) ==
    /\ Resumes(t) /\ kill[t] # "thrown" /\ cycle[t] = "ok"
    /\ ~Pending(current[t])
    /\ Emit(t, <<Ev("result", current[t]), Ev("completed", current[t])>>)
    /\ EndCycle(t, "idle")
    /\ UNCHANGED <<signal, fut>>

\* set_result on a future its caller cancelled raises InvalidStateError,
\* which the same try block reports as the failure of the cycle.
CompletesTooLate(t) ==
    /\ Resumes(t) /\ kill[t] # "thrown" /\ cycle[t] = "ok"
    /\ ~Pending(current[t])
    /\ Emit(t, <<Ev("result", current[t]), Ev("failed", current[t])>>)
    /\ EndCycle(t, "idle")
    /\ UNCHANGED <<signal, fut>>

Fails(t) ==
    /\ Resumes(t) /\ kill[t] # "thrown" /\ cycle[t] = "raised"
    /\ Emit(t, <<Ev("failed", current[t])>>)
    /\ Settle({current[t]}, "error")
    /\ EndCycle(t, "idle")
    /\ UNCHANGED signal

\* Mutant: a dispatcher that is cancelled itself re-raises before it emits.
CancelsSilently(t) ==
    /\ Resumes(t) /\ (kill[t] = "thrown" \/ cycle[t] = "cancelled")
    /\ IF kill[t] = "no" THEN Emit(t, <<Ev("cancelled", current[t])>>) ELSE UNCHANGED registryVars
    /\ Settle({current[t]}, "cancelled")
    /\ signal' = signal \ {t}
    /\ EndCycle(t, IF kill[t] = "no" THEN "idle" ELSE "dead")

\* Mutant: the cancellation of a cycle always takes the dispatcher with it.
CancelsDispatcher(t) ==
    /\ Resumes(t) /\ (kill[t] = "thrown" \/ cycle[t] = "cancelled")
    /\ Emit(t, <<Ev("cancelled", current[t])>>)
    /\ Settle({current[t]}, "cancelled")
    /\ signal' = signal \ {t}
    /\ EndCycle(t, "dead")

\* CancelledError out of `await task`, from the cycle or thrown into the
\* dispatcher itself; in the latter case the dispatcher dies with it.
Cancels(t) ==
    /\ Resumes(t) /\ (kill[t] = "thrown" \/ cycle[t] = "cancelled")
    /\ Emit(t, <<Ev("cancelled", current[t])>>)
    /\ Settle({current[t]}, "cancelled")
    /\ signal' = signal \ {t}
    /\ EndCycle(t, IF kill[t] = "no" THEN "idle" ELSE "dead")

\* CancelledError out of q.get().
DispatcherCancelled(t) ==
    /\ disp[t] = "idle" /\ kill[t] = "thrown"
    /\ disp' = [disp EXCEPT ![t] = "dead"]
    /\ UNCHANGED <<registryVars, hostVars, queue, kill, current, cycle, signal, callVars, futVars>>

----------------------------------------------------------------------------
(* A dispatcher that dies of an exception: the event sink is down and      *)
(* append_event raises throughout the step.                                *)

\* ... on the StartedEvent: the request is off the queue, its cycle not begun.
CrashOnStarted(t) ==
    /\ SinkFails
    /\ Ready(t)
    /\ Head(queue[t]) \in Requests
    /\ queue' = [queue EXCEPT ![t] = Tail(@)]
    /\ signal' = signal \ {t}
    /\ disp' = [disp EXCEPT ![t] = "crashed"]
    /\ UNCHANGED <<registryVars, hostVars, kill, current, cycle, callVars, futVars>>

\* ... on the terminal event: the future is settled already, and a result
\* became an error when its ResultEvent was refused.
CrashOnTerminal(t) ==
    /\ SinkFails
    /\ Resumes(t)
    /\ LET stopped == kill[t] = "thrown" \/ cycle[t] = "cancelled"
       IN /\ Settle({current[t]}, IF stopped THEN "cancelled" ELSE "error")
          /\ signal' = IF stopped THEN signal \ {t} ELSE signal
    /\ EndCycle(t, "crashed")
    /\ UNCHANGED registryVars

\* The done-callback _on_dispatcher_done fails what is still queued.
FailQueued(t) ==
    /\ disp[t] = "crashed"
    /\ disp' = [disp EXCEPT ![t] = "dead"]
    /\ Settle(Queued(t), "error")
    /\ queue' = [queue EXCEPT ![t] = <<>>]
    /\ UNCHANGED <<registryVars, hostVars, kill, current, cycle, signal, callVars, asked>>

----------------------------------------------------------------------------
(* terminate_now: cancel and await the cycle, cancel and await the         *)
(* dispatcher, tear down.                                                  *)

\* Mutant: only a dispatcher that awaits a cycle is cancelled.
KillAwaitingDispatcher(t) ==
    /\ IF InFlight(t)
       THEN /\ cycle' = [cycle EXCEPT ![t] = "cancelling"]
            /\ kill' = [kill EXCEPT ![t] = "counted"]
       ELSE UNCHANGED <<cycle, kill>>
    /\ asked' = asked \cup ({current[t]} \ {NoRequest})
    /\ hard' = [hard EXCEPT ![t] = "dispatcher"]
    /\ hardTask' = [hardTask EXCEPT ![t] = NoRequest]
    /\ UNCHANGED <<registryVars, hostVars, queue, disp, current, signal, closing, closeWait, fut>>

\* dispatcher.cancel(): handed on to the cycle it awaits, or thrown into it.
KillDispatcher(t) ==
    /\ IF InFlight(t)
       THEN /\ cycle' = [cycle EXCEPT ![t] = "cancelling"]
            /\ kill' = [kill EXCEPT ![t] = "counted"]
       ELSE /\ kill' = [kill EXCEPT ![t] = "thrown"]
            /\ UNCHANGED cycle
    /\ asked' = asked \cup ({current[t]} \ {NoRequest})
    /\ hard' = [hard EXCEPT ![t] = "dispatcher"]
    /\ hardTask' = [hardTask EXCEPT ![t] = NoRequest]
    /\ UNCHANGED <<registryVars, hostVars, queue, disp, current, signal, closing, closeWait, fut>>

\* ... once the cycle is out of the way.
HardStop(t) ==
    \/ /\ disp[t] \notin TaskDone
       /\ KillDispatcher(t)
    \/ /\ disp[t] \in TaskDone
       /\ Teardown(t)
       /\ hard' = [hard EXCEPT ![t] = "none"]
       /\ hardTask' = [hardTask EXCEPT ![t] = NoRequest]
       /\ UNCHANGED <<closing, closeWait>>

TerminateNow(t) ==
    /\ Routable(t) /\ hard[t] = "none"
    /\ \/ /\ InFlight(t)
          /\ cycle' = [cycle EXCEPT ![t] = "cancelling"]
          /\ asked' = asked \cup {current[t]}
          /\ hard' = [hard EXCEPT ![t] = "task"]
          /\ hardTask' = [hardTask EXCEPT ![t] = current[t]]
          /\ UNCHANGED <<registryVars, hostVars, queue, disp, kill, current, signal, closing, closeWait, fut>>
       \/ /\ ~InFlight(t)
          /\ HardStop(t)

TerminateNowCycleGone(t) ==
    /\ hard[t] = "task"
    /\ ~(InFlight(t) /\ current[t] = hardTask[t])
    /\ HardStop(t)

TerminateNowEnds(t) ==
    /\ hard[t] = "dispatcher"
    /\ disp[t] \in TaskDone
    /\ Teardown(t)
    /\ hard' = [hard EXCEPT ![t] = "none"]
    /\ UNCHANGED <<hardTask, closing, closeWait>>

----------------------------------------------------------------------------
(* Closing and losing the worker.                                          *)

\* Mutant: close waits for dispatchers it never told to stop.
CloseBeginsUnmarked ==
    /\ closing = "open"
    /\ closing' = "draining"
    /\ closeWait' = hosted
    /\ UNCHANGED <<registryVars, hostVars, taskVars, hard, hardTask, futVars>>

CloseBegins ==
    /\ closing = "open"
    /\ \A t \in hosted : Len(queue[t]) < QueueBound
    /\ queue' = [t \in Threads |-> IF t \in hosted THEN Append(queue[t], TerminateAfterIdle) ELSE queue[t]]
    /\ closing' = "draining"
    /\ closeWait' = hosted
    /\ UNCHANGED <<registryVars, hostVars, disp, kill, current, cycle, signal, hard, hardTask, futVars>>

CloseDrained ==
    /\ closing = "draining"
    /\ \A t \in closeWait : disp[t] \in TaskDone
    /\ closing' = "reaping"
    /\ closeWait' = {t \in Threads : reap[t] > 0}
    /\ UNCHANGED <<registryVars, hostVars, taskVars, hard, hardTask, futVars>>

\* Mutant: the worker is deregistered without waiting for the reaps.
CloseEndsEarly ==
    /\ closing = "reaping"
    /\ \/ joined /\ DropWorker
       \/ ~joined /\ UNCHANGED registryVars
    /\ joined' = FALSE
    /\ closing' = "open"
    /\ closeWait' = {}
    /\ UNCHANGED <<minted, hosted, paused, reap, taskVars, hard, hardTask, futVars>>

CloseEnds ==
    /\ closing = "reaping"
    /\ \A t \in closeWait : reap[t] = 0
    /\ \/ joined /\ DropWorker
       \/ ~joined /\ UNCHANGED registryVars
    /\ joined' = FALSE
    /\ closing' = "open"
    /\ closeWait' = {}
    /\ UNCHANGED <<minted, hosted, paused, reap, taskVars, hard, hardTask, futVars>>

\* coordinator.deregister_worker called by someone else: the endpoint that
\* hosts the worker's connection, or a test.
LoseWorker ==
    /\ pool
    /\ DropWorker
    /\ UNCHANGED <<hostVars, taskVars, callVars, futVars>>

----------------------------------------------------------------------------
\* What the event loop runs on its own: the dispatcher takes a request, whose
\* StartedEvent the sink may refuse, or the marker; its cycle returns, or
\* fails, or cannot be reported; its task is cancelled, or has crashed.
Dispatcher(t) ==
    \/ Ready(t) /\ (BeginCycle(t) \/ CrashOnStarted(t))
    \/ TakeMarker(t)
    \/ Completes(t) \/ CompletesTooLate(t) \/ Cancels(t)
    \/ Resumes(t) /\ (Fails(t) \/ CrashOnTerminal(t))
    \/ disp[t] \in {"idle", "crashed"} /\ (DispatcherCancelled(t) \/ FailQueued(t))

Execute(t) == (\E o \in {"ok", "raised", "cancelled"} : CycleEnds(t, o)) \/ CycleGivesUp(t)

HardTermination(t) == TerminateNowCycleGone(t) \/ TerminateNowEnds(t)

\* What users ask for.
Call(t) ==
    \/ Spawn(t) \/ SpawnFails(t)
    \/ \E r \in Requests : Submit(t, r)
    \/ Cancel(t) \/ Pause(t) \/ Resume(t) \/ Terminate(t) \/ TerminateNow(t)

Next ==
    \/ \E t \in Threads : Call(t) \/ Dispatcher(t) \/ Execute(t) \/ Reap(t) \/ HardTermination(t)
    \/ \E r \in Requests : Withdraw(r)
    \/ CloseBegins \/ CloseDrained \/ CloseEnds \/ LoseWorker

Spec == Init /\ [][Next]_vars

\* The loop runs every ready task, and every cycle ends: a model call or a
\* tool that never returns is the one thing no thread recovers from.
Fairness ==
    /\ \A t \in Threads : /\ WF_vars(Dispatcher(t)) /\ WF_vars(Execute(t))
                          /\ WF_vars(Reap(t)) /\ WF_vars(HardTermination(t))
    /\ WF_vars(CloseDrained) /\ WF_vars(CloseEnds)

FairSpec == Spec /\ Fairness

----------------------------------------------------------------------------
(* Safety.                                                                 *)

\* I12: no caller is left with a future that nobody is going to settle.  A
\* pending request is queued or in flight on a hosted thread, and that thread
\* has a live dispatcher or a terminate_now about to tear it down.
NoOrphan ==
    \A r \in Requests : Pending(r) =>
        \E t \in hosted : /\ r = current[t] \/ r \in Queued(t)
                          /\ disp[t] \in {"idle", "running"} \/ hard[t] = "dispatcher"

\* The tables of the worker agree: a thread has a dispatcher exactly while it is
\* hosted and a current task exactly while its dispatcher awaits a cycle; a
\* torn-down thread leaves no work behind; only terminate_now stops a
\* dispatcher, and only a failing event sink makes one crash.
HostTables ==
    \A t \in Threads :
        /\ disp[t] = "running" <=> current[t] # NoRequest
        /\ t \in hosted <=> disp[t] # "none"
        /\ t \notin hosted => queue[t] = <<>> /\ kill[t] = "no"
        /\ kill[t] # "no" => hard[t] = "dispatcher"
        /\ ~SinkFails => disp[t] # "crashed" /\ (disp[t] = "dead" => kill[t] # "no")

\* The registry lists every thread the worker runs, until the worker is lost.
HostedIsListed == \A t \in hosted : info[t] # "absent"

\* The tables agree, those of the worker among themselves and, where an id is
\* never spawned twice, those of the registry with them: the deregistration a
\* teardown schedules hits no thread that is still hosted.
TablesAgree == HostTables /\ (~ReuseIds => HostedIsListed)

\* A published status of RUNNING means exactly that the dispatcher awaits a
\* cycle, whatever pauses, resumes, cancels and late events came between.
RunningMeansInFlight ==
    \A t \in hosted : info[t] \notin {"absent", "failed"} =>
        (info[t] = "running" <=> disp[t] = "running")

\* A request ends cancelled only if somebody asked for that very request to
\* stop: a cancel signal left over from one cycle never stops the next.
CancelledWasAsked == \A r \in Requests : fut[r] = "cancelled" => r \in asked

\* What the log says of a request agrees with what its caller got, and no
\* result reaches a caller without its RESULT and COMPLETED in the log.
LogAgreesWithFutures ==
    /\ \A t \in Threads : \A i \in DOMAIN log[t] :
          LET e == log[t][i]
          IN /\ e.kind = "completed" => fut[e.req] = "result"
             /\ e.kind = "failed" => fut[e.req] \in {"error", "cancelled"}
             /\ e.kind = "cancelled" => fut[e.req] = "cancelled"
    /\ \A r \in Requests : fut[r] = "result" =>
          \E t \in Threads : \E i \in DOMAIN log[t] : log[t][i] = Ev("completed", r)

\* The log of a thread is a sequence of whole cycles of one request each,
\* STARTED, then RESULT for one that returned, then the terminal event; only
\* the cycle in flight is open.
Follows(kind) ==
    CASE kind = "started" -> {"result", "failed", "cancelled"}
      [] kind = "result"  -> {"completed", "failed"}
      [] OTHER            -> {"started"}

CyclesAreBracketed ==
    \A t \in Threads : log[t] # <<>> =>
        LET n == Len(log[t])
            ends(e) == e.kind \in {"completed", "failed", "cancelled"}
        IN /\ log[t][1].kind = "started"
           /\ \A i \in 1 .. n - 1 :
                 /\ log[t][i + 1].kind \in Follows(log[t][i].kind)
                 /\ ends(log[t][i]) \/ log[t][i + 1].req = log[t][i].req
           /\ IF disp[t] = "running" THEN log[t][n] = Ev("started", current[t])
                                     ELSE ends(log[t][n])

(* Action properties.                                                      *)

\* FAILED is the end of a thread: a cycle that was in flight when its worker
\* was lost, or a pause, does not bring the thread back.
FailedIsFinal ==
    [][\A t \in Threads : info[t] = "failed" => info'[t] \in {"failed", "absent", "not_started"}]_vars

\* close() is clean: a thread that close() has already torn down is never
\* published as failed by the deregistration of the worker.
CloseFailsNoClosedThread ==
    [][closing = "reaping" /\ closing' = "open" =>
         \A t \in closeWait : info'[t] # "failed"]_vars

(* Liveness.                                                               *)

\* Every future returned by handle.run settles.
Answered == \A r \in Requests : Pending(r) ~> ~Pending(r)

\* terminate_now returns, and a thread with the marker in its queue goes.
TerminateNowReturns == \A t \in Threads : hard[t] # "none" ~> hard[t] = "none"

MarkedThreadGoes ==
    \A t \in Threads : (TerminateAfterIdle \in {queue[t][i] : i \in DOMAIN queue[t]}) ~> t \notin hosted

\* close() returns.
CloseReturns == closing # "open" ~> closing = "open"

(* What the documentation says and the code does not do.                   *)

\* handle.py, terminate_now: "The thread is removed from the coordinator
\* before this call returns."
TerminateNowUnlists ==
    [][\A t \in Threads : hard[t] # "none" /\ hard'[t] = "none" => info'[t] = "absent"]_vars

\* types/status.py, PAUSED: "queued work is not consumed until resume."
PausedConsumesNothing ==
    [][\A t \in Threads : info[t] = "paused" => ~(disp[t] = "idle" /\ disp'[t] = "running")]_vars
=============================================================================
