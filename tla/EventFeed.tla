------------------------------ MODULE EventFeed ------------------------------
(***************************************************************************)
(* What a client sees of a thread's log: the endpoint forwards every event *)
(* with a task of its own, into a connection that also carries the answer  *)
(* of get_events; the client hands what arrives to the subscribers it has  *)
(* at that moment.  A screen (attach) replays the log, then subscribes.    *)
(***************************************************************************)
EXTENDS Naturals, SequencesExt

CONSTANTS Threads,
          Watched,       \* the thread on the screen
          EventBound

VARIABLES
    log,         \* how many events each thread has in its log
    forwarding,  \* the endpoint's subscription for the connection
    tasks,       \* forwards that have not run
    frames,      \* on the wire, oldest first
    open,        \* the channel, at the endpoint and at the client
    screen,      \* what attach is at
    asked,       \* the endpoint has still to answer its get_events
    listening,   \* its subscription
    shown,       \* the events on the screen
    replayed     \* how many of them were read from the log

vars == <<log, forwarding, tasks, frames, open, screen, asked, listening, shown, replayed>>

\* The i-th event of a thread.
Event(t, i) == [thread |-> t, at |-> i]

TypeOK ==
    /\ log \in [Threads -> 0 .. EventBound]
    /\ ToSet(tasks) \cup ToSet(shown) \subseteq {Event(t, i) : t \in Threads, i \in 1 .. EventBound}
    /\ screen \in {"new", "asking", "answered", "watching", "gone"}
    /\ replayed \in 0 .. Len(shown) /\ (listening => screen = "watching")

Init ==
    /\ log = [t \in Threads |-> 0] /\ forwarding = TRUE /\ tasks = <<>> /\ frames = <<>>
    /\ open = [endpoint |-> TRUE, client |-> TRUE]
    /\ screen = "new" /\ asked = FALSE /\ listening = FALSE /\ shown = <<>> /\ replayed = 0

EventFrame(e) == [kind |-> "event", events |-> <<e>>]
ResultFrame(s) == [kind |-> "result", events |-> s]
EventsOf(t) == [i \in 1 .. log[t] |-> Event(t, i)]

----------------------------------------------------------------------------
(* The endpoint.                                                           *)

Unread == UNCHANGED <<screen, listening, shown, replayed>>

\* append_event tells _forward_event, which schedules a task.
AppendEvent(t) ==
    /\ log[t] < EventBound /\ log' = [log EXCEPT ![t] = @ + 1]
    /\ tasks' = IF forwarding /\ open.endpoint THEN Append(tasks, Event(t, log[t] + 1)) ELSE tasks
    /\ Unread /\ UNCHANGED <<forwarding, frames, open, asked>>

\* Mutant: the forwards of a connection overtake each other.
SendAnyEvent ==
    /\ \E k \in DOMAIN tasks :
           /\ frames' = IF open.endpoint THEN Append(frames, EventFrame(tasks[k])) ELSE frames
           /\ tasks' = RemoveAt(tasks, k)
    /\ Unread /\ UNCHANGED <<log, forwarding, open, asked>>

\* The tasks run, and take the transport's lock, in the order they were made.
SendEvent ==
    /\ tasks # <<>> /\ tasks' = Tail(tasks)
    /\ frames' = IF open.endpoint THEN Append(frames, EventFrame(Head(tasks))) ELSE frames
    /\ Unread /\ UNCHANGED <<log, forwarding, open, asked>>

\* The handler of get_events answers, ahead of the forwards that have not run.
GetEvents ==
    /\ asked /\ open.endpoint /\ asked' = FALSE
    /\ frames' = Append(frames, ResultFrame(EventsOf(Watched)))
    /\ Unread /\ UNCHANGED <<log, forwarding, tasks, open>>

\* Each side closes its channel on its own.
Closes(e) ==
    /\ open[e] /\ open' = [open EXCEPT ![e] = FALSE]
    /\ Unread /\ UNCHANGED <<log, forwarding, tasks, frames, asked>>

\* _serve_connection notices within 50 ms, and unsubscribes.
Unforward ==
    /\ ~open.endpoint /\ forwarding /\ forwarding' = FALSE
    /\ Unread /\ UNCHANGED <<log, tasks, frames, open, asked>>

----------------------------------------------------------------------------
(* The client.                                                             *)

\* on_mount asks for the log.
Mount ==
    /\ screen = "new" /\ open.client /\ screen' = "asking" /\ asked' = TRUE
    /\ UNCHANGED <<log, forwarding, tasks, frames, open, listening, shown, replayed>>

\* Mutant: a subscriber hears of every thread.
MatchesAll(e) == listening

\* _Subscriber.matches.
Matches(e) == listening /\ e.thread = Watched

\* _dispatch: an event goes to the subscribers of now.
DispatchEvent ==
    /\ frames # <<>> /\ Head(frames).kind = "event" /\ open.client
    /\ frames' = Tail(frames)
    /\ shown' = IF Matches(Head(frames).events[1]) THEN shown \o Head(frames).events ELSE shown
    /\ UNCHANGED <<log, forwarding, tasks, open, screen, asked, listening, replayed>>

\* _dispatch: the answer goes to the call, which resumes later.
DispatchResult ==
    /\ frames # <<>> /\ Head(frames).kind = "result" /\ open.client
    /\ frames' = Tail(frames)
    /\ screen' = "answered"
    /\ shown' = Head(frames).events /\ replayed' = Len(shown')
    /\ UNCHANGED <<log, forwarding, tasks, open, asked, listening>>

\* on_mount has shown what it read, and subscribes.
Subscribe ==
    /\ screen = "answered" /\ screen' = "watching" /\ listening' = TRUE
    /\ UNCHANGED <<log, forwarding, tasks, frames, open, asked, shown, replayed>>

\* on_unmount, or a get_events that its connection failed.
Unmount ==
    /\ screen = "watching" \/ (screen = "asking" /\ ~open.client)
    /\ screen' = "gone" /\ listening' = FALSE
    /\ UNCHANGED <<log, forwarding, tasks, frames, open, asked, shown, replayed>>

Next ==
    \/ \E t \in Threads : AppendEvent(t)
    \/ SendEvent \/ GetEvents \/ (\E e \in DOMAIN open : Closes(e)) \/ Unforward
    \/ Mount \/ DispatchEvent \/ DispatchResult \/ Subscribe \/ Unmount

Spec == Init /\ [][Next]_vars

----------------------------------------------------------------------------
\* What was replayed is the thread's log up to some event; what is told after
\* it is of that thread, in the order of its log and with no event left out.
FeedHasNoGap ==
    /\ \A i \in 1 .. replayed : shown[i] = Event(Watched, i)
    /\ \A i \in replayed + 1 .. Len(shown) :
           /\ shown[i].thread = Watched /\ shown[i].at <= log[Watched]
           /\ i > replayed + 1 => shown[i].at = shown[i - 1].at + 1
    /\ replayed <= log[Watched]

\* The two together are the log ("replay stored events and subscribe to new
\* ones").  They are not: what arrives between the answer and the subscription
\* is missed, what was read ahead of its own forward is shown twice.
ScreenIsLog == IsPrefix(shown, EventsOf(Watched))
=============================================================================
