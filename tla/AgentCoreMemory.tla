---------------------------- MODULE AgentCoreMemory ----------------------------
(***************************************************************************)
(* AgentCoreMemoryBackend: one parameter, kept as conversation turns by a  *)
(* service that deletes late, extracts long-term records when it likes and *)
(* may fail at every call.  Short-term events belong to the session of the *)
(* backend that wrote them, records to the parameter.  The calls on a      *)
(* parameter come one after the other, each a series of service calls.     *)
(***************************************************************************)
EXTENDS Naturals, FiniteSets

CONSTANTS TopK,          \* MAX_MEMORY_RECORDS
          TurnBound, SessionBound

VARIABLES
    newestFirst,  \* the order in which the service lists events
    made,         \* turns written so far
    events,       \* what the service holds: turns, a later one with a higher id
    records,      \* the turns it has extracted records from
    doomed,       \* turns whose deletion it has accepted
    purged,       \* records whose deletion it has accepted
    session,      \* of the backend that is open
    call,         \* the operation under way
    todo,         \* the events it has read, and has still to delete
    saved,        \* what the last save found and the turn it wrote
    told          \* what a recall returned

service == <<newestFirst, made, events, records, doomed, purged>>
vars == <<service, session, call, todo, saved, told>>

Turn(id) == [id |-> id, session |-> session]
Silent == [default |-> FALSE, overfull |-> TRUE, turns |-> {}]
Nothing == [turns |-> {}, records |-> FALSE, turn |-> 0]

TypeOK ==
    /\ \A e \in events : e.id \in 1 .. made /\ e.session \in 1 .. session
    /\ records \subseteq 1 .. TurnBound
    /\ call.op \in {"none", "save", "recall", "feedback", "delete"}
    /\ call.step \in {"events", "records", "delete", "write", "wait", "done"}
    /\ made \in 0 .. TurnBound /\ saved.turns \cup {saved.turn} \subseteq 0 .. made

Idle == [op |-> "none", step |-> "done", strict |-> FALSE, records |-> FALSE, overfull |-> FALSE]

Init ==
    /\ newestFirst \in BOOLEAN
    /\ events = {} /\ records = {} /\ doomed = {} /\ purged = {} /\ session = 1 /\ made = 0
    /\ call = Idle /\ todo = {} /\ saved = Nothing
    /\ told = Silent

----------------------------------------------------------------------------
(* The service.                                                            *)

Mine == {e \in events : e.session = session}
Held(e) == e.id \notin doomed
HeldRecords == records \ purged

Vanish ==
    /\ \/ \E id \in doomed : events' = {e \in events : e.id # id}
                           /\ doomed' = doomed \ {id} /\ UNCHANGED <<records, purged>>
       \/ purged # {} /\ records' = records \ purged /\ purged' = {}
             /\ UNCHANGED <<events, doomed>>
    /\ UNCHANGED <<newestFirst, made, session, call, todo, saved, told>>

Extract ==
    /\ \E e \in events : Held(e) /\ e.id \notin records /\ records' = records \cup {e.id}
    /\ UNCHANGED <<newestFirst, made, events, doomed, purged, session, call, todo, saved, told>>

----------------------------------------------------------------------------
(* The operations.                                                         *)

Ends == call' = Idle /\ UNCHANGED told

\* Any service call of an operation but a tolerant deletion raises its failure.
Fails ==
    /\ call.op # "none" /\ (call.step = "delete" => call.strict /\ (todo # {} \/ call.records))
    /\ Ends /\ todo' = {}
    /\ UNCHANGED <<service, session, saved>>

Begin(op, step) ==
    /\ call.op = "none"
    /\ call' = [Idle EXCEPT !.op = op, !.step = step, !.strict = (op = "save")]
    /\ saved' = IF op \in {"save", "delete"} THEN Nothing ELSE saved
    /\ told' = Silent
    /\ UNCHANGED <<service, session, todo>>

Save == Begin("save", "events")
Recall == Begin("recall", "events")
Delete == Begin("delete", "events")
Consolidate == Begin("feedback", "write")

Newest(S, n) == {e \in S : Cardinality({f \in S : f.id > e.id}) < n}
Oldest(S, n) == {e \in S : Cardinality({f \in S : f.id < e.id}) < n}

\* The first top_k of the list, turned round, and of them the first half of top_k.
Window ==
    IF newestFirst THEN Oldest(Newest(Mine, TopK), TopK \div 2)
    ELSE Newest(Oldest(Mine, TopK), TopK \div 2)

\* _retrieve_raw lists the events.
ListEvents ==
    /\ call.step = "events"
    /\ todo' = Window
    /\ call' = [call EXCEPT !.step = "records", !.overfull = (Window # Mine)]
    /\ UNCHANGED <<service, session, saved, told>>

\* Mutant: a read that fails is taken for an empty one.
ReadFailsEmpty ==
    /\ call.step = "events" /\ call' = [call EXCEPT !.step = "records"]
    /\ UNCHANGED <<service, session, todo, saved, told>>

\* _reraise_unless_not_found: only what is not found reads as empty.
ReadFails ==
    /\ call.step = "events" /\ Mine = {} /\ call' = [call EXCEPT !.step = "records"]
    /\ UNCHANGED <<service, session, todo, saved, told>>

Found == {e.id : e \in todo}

\* _retrieve_raw lists the records.  Then _recall answers; _delete_records has
\* nothing to do, or goes on.
ListRecords ==
    /\ call.step = "records"
    /\ IF call.op = "recall"
       THEN /\ call' = Idle /\ todo' = {} /\ UNCHANGED saved
            /\ told' = [turns |-> Found, default |-> todo = {} /\ records = {}, overfull |-> call.overfull]
       ELSE /\ UNCHANGED <<todo, told>>
            /\ saved' = IF call.op = "save" THEN [turns |-> Found, records |-> records # {}, turn |-> 0] ELSE saved
            /\ call' = [call EXCEPT !.step = "delete", !.records = (records # {})]
    /\ UNCHANGED <<service, session>>

\* The next to go, in the order in which they were read.
Foremost == CHOOSE e \in todo : \A f \in todo : IF newestFirst THEN e.id <= f.id ELSE f.id <= e.id

\* Mutant: a deletion that fails is logged, whoever asked for it.
DeleteEventTolerates ==
    /\ call.step = "delete" /\ todo # {} /\ todo' = todo \ {Foremost}
    /\ doomed' \in {doomed \cup {Foremost.id}, doomed}
    /\ UNCHANGED <<newestFirst, made, events, records, purged, session, call, saved, told>>

\* delete_event, for one after the other; a tolerant one may have failed.
DeleteEvent ==
    /\ call.step = "delete" /\ todo # {} /\ todo' = todo \ {Foremost}
    /\ \/ doomed' = IF Foremost \in events THEN doomed \cup {Foremost.id} ELSE doomed
       \/ ~call.strict /\ UNCHANGED doomed
    /\ UNCHANGED <<newestFirst, made, events, records, purged, session, call, saved, told>>

\* Mutant: a save leaves the long-term records alone.
PurgeRecordsOnDelete ==
    /\ call.step = "delete" /\ todo = {}
    /\ purged' = IF call.op = "delete" THEN records ELSE purged
    /\ call' = [call EXCEPT !.step = IF call.op = "save" THEN "write" ELSE "wait"]
    /\ UNCHANGED <<newestFirst, made, events, records, doomed, session, todo, saved, told>>

\* delete_all_long_term_memories_in_namespace, if there were any.
PurgeRecords ==
    /\ call.step = "delete" /\ todo = {}
    /\ \/ purged' = IF call.records THEN records ELSE purged
       \/ ~call.strict /\ UNCHANGED purged
    /\ call' = [call EXCEPT !.step = IF call.op = "save" THEN "write" ELSE "wait"]
    /\ UNCHANGED <<newestFirst, made, events, records, doomed, session, todo, saved, told>>

\* add_turns: the value of a save, the next item of feedback.
AddTurns ==
    /\ call.step = "write" /\ made < TurnBound /\ made' = made + 1
    /\ events' = events \cup {Turn(made + 1)}
    /\ IF call.op = "save"
       THEN Ends /\ saved' = [saved EXCEPT !.turn = made + 1]
       ELSE UNCHANGED <<call, saved, told>>
    /\ UNCHANGED <<newestFirst, records, doomed, purged, session, todo>>

FeedbackIsThrough ==
    /\ call.op = "feedback" /\ Ends
    /\ UNCHANGED <<service, session, todo, saved>>

\* _wait_until_empty: both are gone, or 180 seconds are.
Waited ==
    /\ call.step = "wait"
    /\ Ends
    /\ UNCHANGED <<service, session, todo, saved>>

\* The process ends, and another opens a session of its own.
Reopen ==
    /\ session < SessionBound /\ session' = session + 1
    /\ call' = Idle /\ todo' = {} /\ saved' = Nothing
    /\ told' = Silent
    /\ UNCHANGED service

Next ==
    \/ Vanish \/ Extract
    \/ Save \/ Recall \/ Delete \/ Consolidate \/ Fails
    \/ ListEvents \/ ReadFails \/ ListRecords \/ DeleteEvent \/ PurgeRecords \/ AddTurns
    \/ FeedbackIsThrough \/ Waited \/ Reopen

Spec == Init /\ [][Next]_vars

----------------------------------------------------------------------------
\* A save that returned has replaced what it found: of older turns and records
\* the service keeps only what was not found.
SaveReplaces ==
    saved.turn # 0 =>
        /\ \E e \in Mine : e.id = saved.turn /\ Held(e)
        /\ \A e \in Mine : e.id < saved.turn /\ Held(e) => e.id \notin saved.turns
        /\ \A id \in HeldRecords : id < saved.turn /\ saved.records => id \notin saved.turns

\* The default is read only where nothing is stored, and what fits is read whole.
ReadIsHonest ==
    LET stored == {e.id : e \in {f \in Mine : Held(f)}}
    IN  /\ told.default => stored = {}
        /\ ~told.overfull => stored \subseteq told.turns

\* What a save replaced does not come back ("must not silently leave old records
\* behind").  It does: beyond the window, out of another session, or when it was
\* extracted while the save, which had found no record, was under way.
NothingOldStays ==
    saved.turn # 0 =>
        /\ \A e \in Mine : e.id < saved.turn => ~Held(e)
        /\ \A id \in HeldRecords : id >= saved.turn
================================================================================
