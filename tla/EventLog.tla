------------------------------- MODULE EventLog -------------------------------
(***************************************************************************)
(* The event side of InMemoryCoordinator: append_event with its subscriber *)
(* callbacks, which may raise, append further events, subscribe and cancel *)
(* subscriptions while an event is being handed out, copy_events and the   *)
(* seed of a spawn, and readers that page through a log with get_events.   *)
(* An event is the number of its append; a copy keeps it and gets a new id.*)
(***************************************************************************)
EXTENDS Naturals, FiniteSets, SequencesExt

CONSTANTS Threads, Subscribers, All,
          EventBound,    \* events appended
          DepthBound,    \* appends nested in callbacks
          CopyBound      \* copies of a log

VARIABLES
    events,     \* _events: <<number, id>> pairs of each thread
    known,      \* keys of _infos
    active,     \* _subscribers, in order of registration
    filter,     \* the thread_id a subscriber asked for
    handing,    \* the running append_event calls, innermost first
    delivered,  \* the numbers each subscriber was given
    due,        \* history: the matching events appended while it was active
    copies,     \* history: how often a log was copied
    cursor, page   \* a reader: the id it read last, and the numbers it read

vars == <<events, known, active, filter, handing, delivered, due, copies, cursor, page>>
subVars == <<active, filter, delivered, due>>
readVars == <<cursor, page>>

Reading == CHOOSE t \in Threads : TRUE   \* the log that is read
AllEvents == UNION {ToSet(events[t]) : t \in Threads}
NewId == Cardinality(AllEvents) + 1
Appended == Cardinality({e[1] : e \in AllEvents})

TypeOK ==
    /\ \A t \in Threads : events[t] \in Seq(Nat \X Nat)
    /\ known \subseteq Threads
    /\ ToSet(active) \subseteq Subscribers /\ filter \in [Subscribers -> Threads \cup {All}]
    /\ Len(handing) <= DepthBound + 1

Init ==
    /\ events = [t \in Threads |-> <<>>] /\ known = {Reading}
    /\ active = <<>> /\ filter \in [Subscribers -> {All, Reading}]
    /\ handing = <<>>
    /\ delivered = [s \in Subscribers |-> <<>>] /\ due = [s \in Subscribers |-> {}]
    /\ copies = 0 /\ cursor = 0 /\ page = <<>>

----------------------------------------------------------------------------
\* _Subscriber.matches.
Matches(s, t) == filter[s] \in {All, t}
Handed(t) == <<[event |-> Appended + 1, of |-> t, left |-> active]>>
Owed(t) ==
    [s \in Subscribers |-> IF s \in ToSet(active) /\ Matches(s, t) THEN due[s] \cup {Appended + 1} ELSE due[s]]

\* Mutant: an event appended inside a callback is not handed out.
AppendGuarded(t) ==
    /\ Appended < EventBound
    /\ events' = [events EXCEPT ![t] = Append(@, <<Appended + 1, NewId>>)]
    /\ handing' = (IF handing = <<>> THEN Handed(t) ELSE handing)
    /\ due' = Owed(t)
    /\ UNCHANGED <<known, active, filter, delivered, copies, readVars>>

\* append_event: the log first, then a snapshot of the subscribers is served.
AppendEvent(t) ==
    /\ Appended < EventBound
    /\ events' = [events EXCEPT ![t] = Append(@, <<Appended + 1, NewId>>)]
    /\ handing' = Handed(t) \o handing
    /\ due' = Owed(t)
    /\ UNCHANGED <<known, active, filter, delivered, copies, readVars>>

\* The producer of an event is not in a callback; a callback may produce too.
Produce == handing = <<>> /\ \E t \in known : AppendEvent(t)

Nested ==
    /\ handing # <<>> /\ Len(handing) <= DepthBound
    /\ \E t \in known : AppendEvent(t)

\* The next subscriber of the innermost append; what it raises is swallowed.
Callback ==
    /\ handing # <<>> /\ Head(handing).left # <<>>
    /\ LET s == Head(Head(handing).left)
       IN  delivered' = IF Matches(s, Head(handing).of)
                        THEN [delivered EXCEPT ![s] = Append(@, Head(handing).event)]
                        ELSE delivered
    /\ handing' = <<[Head(handing) EXCEPT !.left = Tail(@)]>> \o Tail(handing)
    /\ UNCHANGED <<events, known, active, filter, due, copies, readVars>>

Return ==
    /\ handing # <<>> /\ Head(handing).left = <<>>
    /\ handing' = Tail(handing)
    /\ UNCHANGED <<events, known, subVars, copies, readVars>>

\* on, from anywhere.
On(s) ==
    /\ s \notin ToSet(active) /\ delivered[s] = <<>> /\ due[s] = {}
    /\ active' = Append(active, s)
    /\ UNCHANGED <<events, known, filter, handing, delivered, due, copies, readVars>>

\* unsubscribe: the snapshots that were taken before still hold it.
Unsubscribe(s) ==
    /\ \E i \in DOMAIN active : active[i] = s /\ active' = RemoveAt(active, i)
    /\ UNCHANGED <<events, known, filter, handing, delivered, due, copies, readVars>>

----------------------------------------------------------------------------
Copied(log) == [i \in DOMAIN log |-> <<log[i][1], NewId + i - 1>>]

\* spawn with seed_from: the log is there before the thread is.
SpawnSeeded(source, t) ==
    /\ copies < CopyBound /\ source \in known /\ t \notin known
    /\ events' = [events EXCEPT ![t] = Copied(events[source])]
    /\ known' = known \cup {t} /\ copies' = copies + 1
    /\ UNCHANGED <<subVars, handing, readVars>>

\* copy_events, up to and including event number cut of the source.
CopyEvents(source, target, cut) ==
    /\ copies < CopyBound /\ {source, target} \subseteq known /\ source # target
    /\ events' = [events EXCEPT ![target] = @ \o Copied(SubSeq(events[source], 1, cut))]
    /\ copies' = copies + 1
    /\ UNCHANGED <<known, subVars, handing, readVars>>

\* Mutant: the cursor is the first event of the page.
GetEventsAgain(limit) ==
    LET log == events[Reading]
        at == SelectInSeq(log, LAMBDA e : e[2] = cursor)
        to == IF at + limit < Len(log) THEN at + limit ELSE Len(log)
    IN  /\ to > at
        /\ page' = page \o [i \in 1 .. to - at |-> log[at + i][1]]
        /\ cursor' = log[at + 1][2]
        /\ UNCHANGED <<events, known, subVars, handing, copies>>

\* get_events(since_id, limit): what comes strictly after the cursor.
GetEvents(limit) ==
    LET log == events[Reading]
        at == SelectInSeq(log, LAMBDA e : e[2] = cursor)
        to == IF at + limit < Len(log) THEN at + limit ELSE Len(log)
    IN  /\ to > at
        /\ page' = page \o [i \in 1 .. to - at |-> log[at + i][1]]
        /\ cursor' = log[to][2]
        /\ UNCHANGED <<events, known, subVars, handing, copies>>

----------------------------------------------------------------------------
Next ==
    \/ Produce \/ Nested \/ Callback \/ Return
    \/ \E s \in Subscribers : On(s) \/ Unsubscribe(s)
    \/ \E t, u \in Threads : SpawnSeeded(t, u) \/ \E cut \in DOMAIN events[t] : CopyEvents(t, u, cut)
    \/ \E limit \in 1 .. 2 : GetEvents(limit)

Spec == Init /\ [][Next]_vars

----------------------------------------------------------------------------
(* Properties.                                                             *)

\* When no append is running, every subscriber was given each event that was
\* appended while it was subscribed exactly once, however the callbacks
\* appended, subscribed and unsubscribed in between.
EveryoneIsTold ==
    handing = <<>> => \A s \in Subscribers :
        ToSet(delivered[s]) = due[s] /\ Len(delivered[s]) = Cardinality(due[s])

\* Whoever pages with since_id reads the log from its beginning, with no gap
\* and nothing twice, while events are appended and copied into it.
PagesAreTheLog == IsPrefix(page, [i \in DOMAIN events[Reading] |-> events[Reading][i][1]])
=============================================================================
