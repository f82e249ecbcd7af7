------------------------------ MODULE BackedThread ------------------------------
(***************************************************************************)
(* A thread whose conversation an external agent owns: CodexAgentThread,   *)
(* which steers messages into a running turn and interrupts it, and the    *)
(* Claude and Kiro threads, which buffer them for the next turn.  A cycle  *)
(* connects, runs the shared post-condition loop, one turn per attempt,    *)
(* and may be cancelled, aborted or fail at every await.                   *)
(***************************************************************************)
EXTENDS Naturals, FiniteSets, Sequences

CONSTANTS Backends,     \* of "codex", "claude", "kiro"
          Messages,     \* texts handed to notify, each once
          MaxAttempts, PostConditions,
          CycleBound

VARIABLES
    backend,
    pc,             \* where execute or teardown stands
    cycle, attempt,
    held,           \* _connected and the fields set with it
    procs, tools,   \* agent processes and tool servers that are up
    buffer,         \* _inject_buffer: messages, and feedback of a cycle
    steering,       \* messages of _pending_steers
    turn,           \* the backend's turn
    watcher,        \* whether _interrupt_on_cancel runs
    cancel,         \* the cycle's cancel_signal
    notified, given \* history: messages handed in, times one reached a turn

vars == <<backend, pc, cycle, attempt, held, procs, tools, buffer, steering, turn,
          watcher, cancel, notified, given>>
connVars == <<backend, held, procs, tools>>
mailVars == <<buffer, steering, notified, given>>

Message(m) == [text |-> m, of |-> 0]
Feedback == [text |-> 0, of |-> cycle]
Buffered(m) == {i \in 1..Len(buffer) : buffer[i].text = m}
InCycle == pc \notin {"idle", "closing", "closed", "torn"}
Attempts == IF PostConditions THEN MaxAttempts ELSE 1

TypeOK ==
    /\ pc \in {"idle", "connect", "tooled", "spawned", "attempt", "send", "stream", "check",
               "closing", "closed", "torn"}
    /\ attempt \in 0..Attempts /\ cycle \in 0..CycleBound /\ held \in BOOLEAN
    /\ turn \in {"none", "running", "done", "failed", "interrupted"} /\ watcher \in BOOLEAN
    /\ steering \subseteq notified /\ given \in [Messages -> Nat]

Init ==
    /\ backend \in Backends /\ pc = "idle" /\ cycle = 0 /\ attempt = 0
    /\ held = FALSE /\ procs = 0 /\ tools = 0
    /\ buffer = <<>> /\ steering = {} /\ turn = "none" /\ watcher = FALSE /\ cancel = FALSE
    /\ notified = {} /\ given = [m \in Messages |-> 0]

----------------------------------------------------------------------------
\* execute: a cycle starts with a fresh cancel_signal.
Execute ==
    /\ pc = "idle" /\ cycle < CycleBound
    /\ cycle' = cycle + 1 /\ attempt' = 1 /\ cancel' = FALSE
    /\ pc' = IF held THEN "attempt" ELSE "connect"
    /\ UNCHANGED <<connVars, mailVars, turn, watcher>>

Cancel ==
    /\ InCycle /\ ~cancel /\ cancel' = TRUE
    /\ UNCHANGED <<connVars, mailVars, pc, cycle, attempt, turn, watcher>>

\* _ensure_connected: Codex starts its tool server first; then the agent's
\* process is spawned, and the conversation opened.
Connect ==
    /\ \/ pc = "connect" /\ backend = "codex" /\ tools' = tools + 1 /\ pc' = "tooled"
          /\ UNCHANGED <<procs, held>>
       \/ pc = "tooled" /\ procs' = procs + 1 /\ pc' = "spawned" /\ UNCHANGED <<tools, held>>
       \/ pc = "spawned" /\ held' = TRUE /\ pc' = "attempt" /\ UNCHANGED <<procs, tools>>
       \/ pc = "connect" /\ backend # "codex" /\ procs' = procs + 1 /\ pc' = "spawned" /\ UNCHANGED <<tools, held>>
    /\ UNCHANGED <<backend, mailVars, cycle, attempt, turn, watcher, cancel>>

\* Mutant: only an Exception, not a cancellation, releases what was opened.
ConnectLeaks ==
    /\ pc \in {"connect", "tooled", "spawned"} /\ pc' = "idle"
    /\ procs' \in IF pc = "spawned" THEN {procs - 1, procs} ELSE {procs}
    /\ tools' \in IF pc # "connect" /\ backend = "codex" THEN {tools - 1, tools} ELSE {tools}
    /\ UNCHANGED <<backend, held, mailVars, cycle, attempt, turn, watcher, cancel>>

\* A failure or cancellation on the way: Codex closes what was opened, in the
\* other two nothing but the library or the collector may.
ConnectFails ==
    /\ pc \in {"connect", "tooled", "spawned"} /\ pc' = "idle"
    /\ procs' \in IF pc # "spawned" THEN {procs} ELSE IF backend = "codex" THEN {procs - 1} ELSE {procs - 1, procs}
    /\ tools' = IF pc # "connect" /\ backend = "codex" THEN tools - 1 ELSE tools
    /\ UNCHANGED <<backend, held, mailVars, cycle, attempt, turn, watcher, cancel>>

----------------------------------------------------------------------------
Drained == [m \in Messages |-> given[m] + Cardinality(Buffered(m))]

\* Mutant: the buffer is copied into the turn and not emptied.
AttemptKeepsBuffer ==
    /\ pc = "attempt" /\ given' = Drained /\ pc' = "send"
    /\ UNCHANGED <<connVars, buffer, cycle, attempt, steering, notified, turn, watcher, cancel>>

\* An attempt of run_post_condition_loop drains the buffer into its turn.
Attempt ==
    /\ pc = "attempt" /\ given' = Drained /\ buffer' = <<>> /\ pc' = "send"
    /\ UNCHANGED <<connVars, cycle, attempt, steering, notified, turn, watcher, cancel>>

\* Mutant: the watcher of the first attempt is the cycle's only one.
SendWatchedOnce ==
    /\ pc = "send" /\ pc' = "stream" /\ turn' = "running"
    /\ watcher' = (backend = "codex" /\ attempt = 1)
    /\ UNCHANGED <<connVars, mailVars, cycle, attempt, cancel>>

\* The turn is started; Codex watches the cancel signal beside its stream.
Send ==
    /\ pc = "send" /\ pc' = "stream" /\ turn' = "running" /\ watcher' = (backend = "codex")
    /\ UNCHANGED <<connVars, mailVars, cycle, attempt, cancel>>

TurnEnds(how) ==
    /\ turn = "running" /\ turn' = how
    /\ UNCHANGED <<connVars, mailVars, pc, cycle, attempt, watcher, cancel>>

\* _interrupt_on_cancel; an interrupt that comes too late is swallowed.
Interrupt ==
    /\ watcher /\ cancel /\ watcher' = FALSE
    /\ turn' = IF turn = "running" THEN "interrupted" ELSE turn
    /\ UNCHANGED <<connVars, mailVars, pc, cycle, attempt, cancel>>

\* The stream is exhausted: an interrupted or failed turn ends the cycle.
StreamEnds ==
    /\ pc = "stream" /\ turn # "running"
    /\ pc' = IF turn = "done" THEN "check" ELSE "idle"
    /\ turn' = "none" /\ watcher' = FALSE
    /\ UNCHANGED <<connVars, mailVars, cycle, attempt, cancel>>

\* evaluate_post_conditions: the failures of an attempt go into the buffer.
Check(passed) ==
    /\ pc = "check" /\ (passed \/ PostConditions)
    /\ buffer' = IF passed THEN buffer ELSE Append(buffer, Feedback)
    /\ IF passed \/ attempt = Attempts THEN pc' = "idle" /\ UNCHANGED attempt
       ELSE pc' = "attempt" /\ attempt' = attempt + 1
    /\ UNCHANGED <<connVars, steering, notified, given, cycle, turn, watcher, cancel>>

\* The dispatch task is cancelled, or a call to the backend raises.
Abort ==
    /\ pc \in {"send", "stream", "check"} /\ pc' = "idle"
    /\ turn' = "none" /\ watcher' = FALSE
    /\ UNCHANGED <<connVars, mailVars, cycle, attempt, cancel>>

----------------------------------------------------------------------------
\* notify: a message is steered while a Codex turn runs, else buffered.
Notify(m) ==
    /\ pc # "torn" /\ m \notin notified /\ notified' = notified \cup {m}
    /\ IF backend = "codex" /\ pc = "stream"
       THEN steering' = steering \cup {m} /\ UNCHANGED buffer
       ELSE buffer' = Append(buffer, Message(m)) /\ UNCHANGED steering
    /\ UNCHANGED <<connVars, pc, cycle, attempt, given, turn, watcher, cancel>>

\* Mutant: a steer that fails is only logged.
SteerForgets(m) ==
    /\ m \in steering /\ steering' = steering \ {m}
    /\ \/ turn = "running" /\ given' = [given EXCEPT ![m] = @ + 1] /\ UNCHANGED buffer
       \/ UNCHANGED <<buffer, given>>
    /\ UNCHANGED <<connVars, pc, cycle, attempt, notified, turn, watcher, cancel>>

\* A steer reaches the turn that runs, or fails and is buffered after all.
Steer(m) ==
    /\ m \in steering /\ steering' = steering \ {m}
    /\ \/ turn = "running" /\ given' = [given EXCEPT ![m] = @ + 1] /\ UNCHANGED buffer
       \/ buffer' = Append(buffer, Message(m)) /\ UNCHANGED given
    /\ UNCHANGED <<connVars, pc, cycle, attempt, notified, turn, watcher, cancel>>

\* teardown settles the steers and empties the buffer, closes the client, if it
\* is connected, and then stops the tool server.
Teardown ==
    /\ \/ pc = "idle" /\ pc' = (IF held THEN "closing" ELSE "torn")
          /\ steering' = {} /\ buffer' = <<>> /\ held' = FALSE /\ UNCHANGED <<procs, tools>>
       \/ pc = "closing" /\ pc' = "closed" /\ procs' = procs - 1 /\ UNCHANGED <<steering, buffer, held, tools>>
       \/ pc = "closed" /\ pc' = "torn" /\ tools' = 0 /\ UNCHANGED <<steering, buffer, held, procs>>
    /\ UNCHANGED <<backend, notified, given, cycle, attempt, turn, watcher, cancel>>

Next ==
    \/ Execute \/ Cancel \/ Connect \/ ConnectFails \/ Attempt \/ Send \/ Interrupt
    \/ StreamEnds \/ Abort \/ Teardown
    \/ \E how \in {"done", "failed"} : TurnEnds(how)
    \/ \E passed \in BOOLEAN : Check(passed)
    \/ \E m \in Messages : Notify(m) \/ Steer(m)

\* A turn need never end by itself; everything else of a cycle goes on.
Goes == Connect \/ Attempt \/ Send \/ Interrupt \/ StreamEnds \/ (\E passed \in BOOLEAN : Check(passed))
Spec == Init /\ [][Next]_vars /\ WF_vars(Goes)

----------------------------------------------------------------------------
\* A message handed to notify is in exactly one place, be it steered, buffered
\* after a steer that failed, or given to a turn, until teardown runs.
NotifiedOnce ==
    pc \notin {"closing", "closed", "torn"} =>
        \A m \in notified : Cardinality(Buffered(m)) + given[m] + Cardinality({m} \cap steering) = 1

\* No Codex process outlasts its tool endpoint, and a thread that is not
\* connected, a connect having failed or been cancelled, holds neither.
EndpointOutlivesAgent ==
    backend = "codex" => /\ procs <= tools
                         /\ pc \in {"idle", "torn"} /\ ~held => procs = 0 /\ tools = 0

\* A cancelled Codex cycle ends although its turn would run for ever.
CancelEndsCycle == backend = "codex" /\ cancel ~> ~InCycle

\* No turn is given the post-condition feedback of an earlier cycle.
NoStaleFeedback == pc = "attempt" => \A i \in 1..Len(buffer) : buffer[i].of \in {0, cycle}
================================================================================
