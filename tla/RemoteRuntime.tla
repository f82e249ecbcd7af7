----------------------------- MODULE RemoteRuntime -----------------------------
(***************************************************************************)
(* A CoordinatorEndpoint, the clients connected to it and the worker each  *)
(* client's process hosts: registration of workers and threads over the    *)
(* wire, calls relayed from one client through the endpoint to the worker  *)
(* of another, the events appended on the way, and connections that break. *)
(* Each direction of a connection is a sequence of frames (WireChannel is  *)
(* the detail); both ends of a broken one notice on their own.  A request  *)
(* is one call that a client makes on a thread.                            *)
(***************************************************************************)
EXTENDS Naturals, FiniteSets, SequencesExt

CONSTANTS Clients,       \* connections; a process that reconnects is another
          Wids,          \* worker ids
          Threads,
          Requests,      \* numbered in the order they are made
          Nobody,
          Ops,           \* what is called: "spawn", "submit", "cancel", "pause", "terminate"
          Unloadable,    \* requests whose result the endpoint cannot unpickle
          DropBound      \* how many connections break

ASSUME RemoteAssumption ==
    /\ Nobody \notin Clients \cup Wids \cup Threads \cup Requests
    /\ Ops \subseteq {"spawn", "submit", "cancel", "pause", "terminate"}
    /\ Requests \subseteq Nat /\ Unloadable \subseteq Requests
    /\ Wids \cap Threads = {} /\ (Wids \cup Threads) \cap Requests = {}
    /\ DropBound \in Nat

VARIABLES
    \* the wire
    link, up, down,   \* state of each connection, its frames either way
    client, server,   \* the channel at the client and at the endpoint
    drops,
    \* the endpoint and its InMemoryCoordinator
    pool,      \* _workers: the connection behind each worker id
    offered,   \* hosted_workers of each connection's handlers
    info,      \* _infos: the status of each thread
    on,        \* and its worker id
    log,       \* its lifecycle events
    relay,     \* the endpoint's side of a request
    via,       \* the connection on which a relayed request was forwarded
    \* the clients and their workers
    wid,       \* id of the process's LocalWorker
    joined,    \* its registration
    home,      \* the process that hosts a thread or asked to register it
    stage,     \* where the thread stands there
    queue,     \* its work queue
    cycle,     \* the request its dispatcher runs
    \* the callers
    by, op, target, fut

wireVars == <<link, up, down, client, server, drops>>
coordVars == <<pool, offered, info, on, log>>
relayVars == <<relay, via>>
workerVars == <<wid, joined, home, stage, queue, cycle>>
callerVars == <<by, op, target, fut>>
vars == <<wireVars, coordVars, relayVars, workerVars, callerVars>>

Kinds == {"started", "completed", "failed", "cancelled", "lost"}
Statuses == {"absent", "not_started", "running", "idle", "paused", "cancelled", "failed"}

TypeOK ==
    /\ pool \in [Wids -> Clients \cup {Nobody}]
    /\ offered \in [Clients -> SUBSET Wids]
    /\ info \in [Threads -> Statuses] /\ on \in [Threads -> Wids \cup {Nobody}]
    /\ relay \in [Requests -> {"none", "waiting", "value", "error", "orphan", "done"}]
    /\ via \in [Requests -> Clients \cup {Nobody}]
    /\ joined \in [Clients -> {"no", "asked", "yes", "out"}]
    /\ stage \in [Threads -> {"new", "asked", "hosted", "gone", "refused"}]
    /\ cycle \in [Threads -> Requests \cup {Nobody}]
    /\ fut \in [Requests -> {"new", "pending", "value", "error"}]
    /\ \A t \in Threads : ToSet(log[t]) \subseteq Kinds

Init ==
    /\ link = [c \in Clients |-> "none"] /\ drops = 0
    /\ up = [c \in Clients |-> <<>>] /\ down = [c \in Clients |-> <<>>]
    /\ client = [c \in Clients |-> "none"] /\ server = [c \in Clients |-> "none"]
    /\ pool = [w \in Wids |-> Nobody] /\ offered = [c \in Clients |-> {}]
    /\ info = [t \in Threads |-> "absent"] /\ on = [t \in Threads |-> Nobody]
    /\ log = [t \in Threads |-> <<>>]
    /\ relay = [r \in Requests |-> "none"] /\ via = [r \in Requests |-> Nobody]
    /\ wid \in [Clients -> Wids] /\ joined = [c \in Clients |-> "no"]
    /\ home = [t \in Threads |-> Nobody] /\ stage = [t \in Threads |-> "new"]
    /\ queue = [t \in Threads |-> <<>>] /\ cycle = [t \in Threads |-> Nobody]
    /\ by = [r \in Requests |-> Nobody] /\ op = [r \in Requests |-> "none"]
    /\ target = [r \in Requests |-> Nobody] /\ fut = [r \in Requests |-> "new"]

----------------------------------------------------------------------------
(* Frames and sends.  A frame put on a broken link is lost.                *)

WorkerFrame(kind, w) == [kind |-> kind, about |-> w]
ThreadFrame(kind, t) == [kind |-> kind, about |-> t]
EventFrame(t, e) == [kind |-> "append", about |-> t, event |-> e]
CallFrame(r) == [kind |-> "call", about |-> r]
Answer(what, ok) == [kind |-> "answer", about |-> what, ok |-> ok]

Carries(c) == link[c] = "up"
Sent(frames, c, more) == IF Carries(c) THEN [frames EXCEPT ![c] = @ \o more] ELSE frames

\* A client that is closed raises instead of sending.
ClientSends(c, more) == up' = IF client[c] = "open" THEN Sent(up, c, more) ELSE up

Is(frame, kind) == frame.kind = kind

----------------------------------------------------------------------------
(* Connections.                                                            *)

\* connect, and _serve_connection up to its wait.
Connect(c) ==
    /\ link[c] = "none"
    /\ link' = [link EXCEPT ![c] = "up"]
    /\ client' = [client EXCEPT ![c] = "open"] /\ server' = [server EXCEPT ![c] = "open"]
    /\ UNCHANGED <<up, down, drops, coordVars, relayVars, workerVars, callerVars>>

\* The connection breaks, or one end closes it: the last frames are lost.
Drop(c) ==
    /\ link[c] = "up" /\ drops < DropBound
    /\ link' = [link EXCEPT ![c] = "down"] /\ drops' = drops + 1
    /\ \E i \in 0 .. Len(up[c]), j \in 0 .. Len(down[c]) :
          /\ up' = [up EXCEPT ![c] = SubSeq(@, 1, i)]
          /\ down' = [down EXCEPT ![c] = SubSeq(@, 1, j)]
    /\ UNCHANGED <<client, server, coordVars, relayVars, workerVars, callerVars>>

\* The reader of the client has read what there was: close() rejects every
\* pending call.
ClientCloses(c) ==
    /\ link[c] = "down" /\ client[c] = "open" /\ down[c] = <<>>
    /\ client' = [client EXCEPT ![c] = "closed"]
    /\ joined' = [joined EXCEPT ![c] = IF @ = "asked" THEN "out" ELSE @]
    /\ stage' = [t \in Threads |-> IF home[t] = c /\ stage[t] = "asked" THEN "refused" ELSE stage[t]]
    /\ fut' = [r \in Requests |-> IF by[r] = c /\ fut[r] = "pending" THEN "error" ELSE fut[r]]
    /\ UNCHANGED <<link, up, down, server, drops, coordVars, relayVars,
                   wid, home, queue, cycle, by, op, target>>

ServerCloses(c) ==
    /\ link[c] = "down" /\ server[c] = "open" /\ up[c] = <<>>
    /\ server' = [server EXCEPT ![c] = "closed"]
    /\ relay' = [r \in Requests |-> IF via[r] = c /\ relay[r] = "waiting" THEN "error" ELSE relay[r]]
    /\ UNCHANGED <<link, up, down, client, drops, coordVars, via, workerVars, callerVars>>

\* InMemoryCoordinator.deregister_worker, for every id in W.
Orphans(W) == {t \in Threads : on[t] \in W /\ info[t] \notin {"absent", "failed"}}

LoseWorkers(W) ==
    /\ pool' = [w \in Wids |-> IF w \in W THEN Nobody ELSE pool[w]]
    /\ info' = [t \in Threads |-> IF t \in Orphans(W) THEN "failed" ELSE info[t]]
    /\ log' = [t \in Threads |-> IF t \in Orphans(W) THEN Append(log[t], "lost") ELSE log[t]]

\* Mutant: the worker leaves the pool and its threads stay as they are.
CleanupForgetsThreads(c) ==
    /\ server[c] = "closed"
    /\ server' = [server EXCEPT ![c] = "gone"]
    /\ pool' = [w \in Wids |-> IF w \in offered[c] THEN Nobody ELSE pool[w]]
    /\ offered' = [offered EXCEPT ![c] = {}]
    /\ UNCHANGED <<link, up, down, client, drops, info, on, log, relayVars, workerVars, callerVars>>

\* _serve_connection has seen the closed channel: finally.
Cleanup(c) ==
    /\ server[c] = "closed"
    /\ server' = [server EXCEPT ![c] = "gone"]
    /\ LoseWorkers(offered[c])
    /\ offered' = [offered EXCEPT ![c] = {}]
    /\ UNCHANGED <<link, up, down, client, drops, on, relayVars, workerVars, callerVars>>

----------------------------------------------------------------------------
(* A client's own worker: register, spawn_locally and close of LocalWorker *)
(* on top of CoordinatorClient.                                            *)

\* register_worker of the client: its handlers are bound, then the call.
Join(c) ==
    /\ client[c] = "open" /\ joined[c] = "no"
    /\ joined' = [joined EXCEPT ![c] = "asked"]
    /\ ClientSends(c, <<WorkerFrame("register", wid[c])>>)
    /\ UNCHANGED <<link, down, client, server, drops, coordVars, relayVars,
                   wid, home, stage, queue, cycle, callerVars>>

\* Every spawn mints an id of its own.
Fresh(t) == stage[t] = "new" /\ ~\E r \in Requests : op[r] = "spawn" /\ target[r] = t

SpawnLocally(c, t) ==
    /\ client[c] = "open" /\ joined[c] = "yes" /\ Fresh(t)
    /\ home' = [home EXCEPT ![t] = c] /\ stage' = [stage EXCEPT ![t] = "asked"]
    /\ ClientSends(c, <<ThreadFrame("thread", t)>>)
    /\ UNCHANGED <<link, down, client, server, drops, coordVars, relayVars,
                   wid, joined, queue, cycle, callerVars>>

\* LocalWorker.close, once its threads are gone, and deregister_worker.
Leave(c) ==
    /\ client[c] = "open" /\ joined[c] = "yes"
    /\ \A t \in Threads : home[t] = c => stage[t] \in {"gone", "refused"}
    /\ joined' = [joined EXCEPT ![c] = "out"]
    /\ ClientSends(c, <<WorkerFrame("deregister", wid[c])>>)
    /\ UNCHANGED <<link, down, client, server, drops, coordVars, relayVars,
                   wid, home, stage, queue, cycle, callerVars>>

----------------------------------------------------------------------------
(* The endpoint takes the next frame of a connection.                      *)

Takes(c, kind) == server[c] = "open" /\ up[c] # <<>> /\ Is(Head(up[c]), kind)
Taken(c) == up' = [up EXCEPT ![c] = Tail(@)]

\* CoordinatorHandlers.register_worker and that of the coordinator.
TakeRegister(c) ==
    /\ Takes(c, "register") /\ Taken(c)
    /\ LET w == Head(up[c]).about
       IN  /\ offered' = [offered EXCEPT ![c] = @ \cup {w}]
           /\ pool' = IF pool[w] = Nobody THEN [pool EXCEPT ![w] = c] ELSE pool
           /\ down' = Sent(down, c, <<Answer(w, pool[w] = Nobody)>>)
    /\ UNCHANGED <<link, client, server, drops, info, on, log, relayVars, workerVars, callerVars>>

TakeDeregister(c) ==
    /\ Takes(c, "deregister") /\ Taken(c)
    /\ LET w == Head(up[c]).about
       IN  /\ offered' = [offered EXCEPT ![c] = @ \ {w}]
           /\ LoseWorkers({w})
    /\ UNCHANGED <<link, down, client, server, drops, on, relayVars, workerVars, callerVars>>

\* register_thread: the worker id must be known.
TakeThread(c) ==
    /\ Takes(c, "thread") /\ Taken(c)
    /\ LET t == Head(up[c]).about
           known == pool[wid[c]] # Nobody
       IN  /\ info' = IF known THEN [info EXCEPT ![t] = "not_started"] ELSE info
           /\ on' = IF known THEN [on EXCEPT ![t] = wid[c]] ELSE on
           /\ down' = Sent(down, c, <<Answer(t, known)>>)
    /\ UNCHANGED <<link, client, server, drops, pool, offered, log, relayVars, workerVars, callerVars>>

TakeThreadGone(c) ==
    /\ Takes(c, "unthread") /\ Taken(c)
    /\ info' = [info EXCEPT ![Head(up[c]).about] = "absent"]
    /\ UNCHANGED <<link, down, client, server, drops, pool, offered, on, log, relayVars, workerVars, callerVars>>

\* Mutant: a late event of a failed thread brings it back.
AfterLate(status, e) ==
    IF status = "absent" THEN status
    ELSE CASE e = "started" -> "running" [] e = "cancelled" -> "cancelled" [] OTHER -> "idle"

\* _apply_lifecycle.
After(status, e) ==
    IF status \in {"absent", "failed"} THEN status
    ELSE CASE e = "started" -> "running" [] e = "cancelled" -> "cancelled" [] OTHER -> "idle"

\* append_event: the log first, then the status.
TakeEvent(c) ==
    /\ Takes(c, "append") /\ Taken(c)
    /\ LET t == Head(up[c]).about
           e == Head(up[c]).event
       IN  /\ log' = [log EXCEPT ![t] = Append(@, e)]
           /\ info' = [info EXCEPT ![t] = After(@, e)]
    /\ UNCHANGED <<link, down, client, server, drops, pool, offered, on, relayVars, workerVars, callerVars>>

\* _adapter_for, then the adapter's call on the connection of the worker.
RelayTo(r, c) ==
    IF c # Nobody /\ server[c] = "open"
    THEN relay' = [relay EXCEPT ![r] = "waiting"] /\ via' = [via EXCEPT ![r] = c]
         /\ down' = Sent(down, c, <<CallFrame(r)>>)
    ELSE relay' = [relay EXCEPT ![r] = "error"] /\ UNCHANGED <<via, down>>

TakeCall(c) ==
    /\ Takes(c, "call") /\ Taken(c)
    /\ LET r == Head(up[c]).about
           t == target[r]
       IN  IF op[r] = "spawn"
           THEN \E w \in Wids :
                  IF pool[w] # Nobody
                  THEN /\ RelayTo(r, pool[w])
                       /\ info' = [info EXCEPT ![t] = "not_started"]
                       /\ on' = [on EXCEPT ![t] = w]
                  ELSE RelayTo(r, Nobody) /\ UNCHANGED <<info, on>>
           ELSE /\ RelayTo(r, IF info[t] = "absent" THEN Nobody ELSE pool[on[t]])
                /\ UNCHANGED <<info, on>>
    /\ UNCHANGED <<link, client, server, drops, pool, offered, log, workerVars, callerVars>>

\* The worker's answer resolves the adapter's call.  The value of a submit is
\* unpickled outside the try block: what cannot be loaded ends the task.
\* pause reads _infos again; the thread may be gone by now.
TakeAnswer(c) ==
    /\ Takes(c, "answer") /\ Taken(c)
    /\ LET r == Head(up[c]).about
           ok == Head(up[c]).ok
           t == target[r]
           gone == op[r] = "pause" /\ info[t] = "absent"
       IN  /\ relay' = [relay EXCEPT ![r] =
                 IF ~ok \/ gone THEN "error"
                 ELSE IF op[r] = "submit" /\ r \in Unloadable THEN "orphan" ELSE "value"]
           /\ info' = IF ok /\ op[r] = "pause" /\ info[t] \notin {"absent", "failed", "running"}
                      THEN [info EXCEPT ![t] = "paused"] ELSE info
    /\ UNCHANGED <<link, down, client, server, drops, pool, offered, on, log, via, workerVars, callerVars>>

\* The handler of the call wakes up and answers its caller.
Relayed(r) ==
    /\ relay[r] \in {"value", "error"}
    /\ relay' = [relay EXCEPT ![r] = "done"]
    /\ down' = IF server[by[r]] = "open" THEN Sent(down, by[r], <<Answer(r, relay[r] = "value")>>) ELSE down
    /\ UNCHANGED <<link, up, client, server, drops, coordVars, via, workerVars, callerVars>>

----------------------------------------------------------------------------
(* A client takes the next frame.                                          *)

Gets(c, kind) == client[c] = "open" /\ down[c] # <<>> /\ Is(Head(down[c]), kind)
Got(c) == down' = [down EXCEPT ![c] = Tail(@)]

GetAnswer(c) ==
    /\ Gets(c, "answer") /\ Got(c)
    /\ LET a == Head(down[c])
       IN  /\ joined' = IF a.about \in Wids
                        THEN [joined EXCEPT ![c] = IF a.ok THEN "yes" ELSE "out"] ELSE joined
           /\ stage' = IF a.about \in Threads
                       THEN [stage EXCEPT ![a.about] = IF a.ok THEN "hosted" ELSE "refused"] ELSE stage
           /\ fut' = IF a.about \in Requests
                     THEN [fut EXCEPT ![a.about] = IF a.ok THEN "value" ELSE "error"] ELSE fut
    /\ UNCHANGED <<link, up, client, server, drops, coordVars, relayVars,
                   wid, home, queue, cycle, by, op, target>>

Hosts(c, t) == home[t] = c /\ stage[t] = "hosted"

Replies(c, r, ok) == ClientSends(c, <<Answer(r, ok)>>)

\* WorkerHandlers: a spawn may fail where the target is loaded; a submit is
\* answered by its cycle.
GetCall(c) ==
    /\ Gets(c, "call") /\ Got(c)
    /\ LET r == Head(down[c]).about
           t == target[r]
       IN  CASE op[r] = "spawn" ->
                  \/ /\ home' = [home EXCEPT ![t] = c] /\ stage' = [stage EXCEPT ![t] = "hosted"]
                     /\ Replies(c, r, TRUE) /\ UNCHANGED <<queue, cycle>>
                  \/ Replies(c, r, FALSE) /\ UNCHANGED <<home, stage, queue, cycle>>
             [] op[r] # "spawn" /\ ~Hosts(c, t) ->
                  Replies(c, r, FALSE) /\ UNCHANGED <<home, stage, queue, cycle>>
             [] op[r] \in {"submit", "terminate"} /\ Hosts(c, t) ->
                  /\ queue' = [queue EXCEPT ![t] = Append(@, r)]
                  /\ IF op[r] = "submit" THEN UNCHANGED up ELSE Replies(c, r, TRUE)
                  /\ UNCHANGED <<home, stage, cycle>>
             [] op[r] = "pause" /\ Hosts(c, t) ->
                  Replies(c, r, TRUE) /\ UNCHANGED <<home, stage, queue, cycle>>
             [] op[r] = "cancel" /\ Hosts(c, t) ->
                  \* nothing in flight, or the cycle does not let the signal
                  \* out; or it ends, and with it, without a frame, the
                  \* handler that awaited its future
                  /\ \/ Replies(c, r, TRUE) /\ UNCHANGED cycle
                     \/ /\ cycle[t] # Nobody
                        /\ cycle' = [cycle EXCEPT ![t] = Nobody]
                        /\ ClientSends(c, <<Answer(r, TRUE), EventFrame(t, "cancelled")>>)
                  /\ UNCHANGED <<home, stage, queue>>
    /\ UNCHANGED <<link, client, server, drops, coordVars, relayVars, wid, joined, callerVars>>

----------------------------------------------------------------------------
(* The dispatcher of a thread, in the process that hosts it.               *)

\* Mutant: the event is emitted when the cycle has ended.
BeginSilent(t) ==
    /\ stage[t] = "hosted" /\ cycle[t] = Nobody /\ queue[t] # <<>>
    /\ op[Head(queue[t])] = "submit"
    /\ cycle' = [cycle EXCEPT ![t] = Head(queue[t])]
    /\ queue' = [queue EXCEPT ![t] = Tail(@)]
    /\ UNCHANGED <<wireVars, coordVars, relayVars, wid, joined, home, stage, callerVars>>

Begin(t) ==
    /\ stage[t] = "hosted" /\ cycle[t] = Nobody /\ queue[t] # <<>>
    /\ op[Head(queue[t])] = "submit"
    /\ cycle' = [cycle EXCEPT ![t] = Head(queue[t])]
    /\ queue' = [queue EXCEPT ![t] = Tail(@)]
    /\ ClientSends(home[t], <<EventFrame(t, "started")>>)
    /\ UNCHANGED <<link, down, client, server, drops, coordVars, relayVars,
                   wid, joined, home, stage, callerVars>>

\* The future is settled before the terminal event is emitted, so the answer
\* leaves before the event.
End(t) ==
    /\ cycle[t] # Nobody
    /\ cycle' = [cycle EXCEPT ![t] = Nobody]
    /\ \E ok \in BOOLEAN :
          LET e == IF ok THEN "completed" ELSE "failed"
          IN  ClientSends(home[t], <<Answer(cycle[t], ok), EventFrame(t, e)>>)
    /\ UNCHANGED <<link, down, client, server, drops, coordVars, relayVars,
                   wid, joined, home, stage, queue, callerVars>>

\* TerminateAfterIdle: _teardown cancels what is queued behind it; nobody
\* answers for it.
TearDown(t) ==
    /\ stage[t] = "hosted" /\ cycle[t] = Nobody /\ queue[t] # <<>>
    /\ op[Head(queue[t])] = "terminate"
    /\ stage' = [stage EXCEPT ![t] = "gone"] /\ queue' = [queue EXCEPT ![t] = <<>>]
    /\ ClientSends(home[t], <<ThreadFrame("unthread", t)>>)
    /\ UNCHANGED <<link, down, client, server, drops, coordVars, relayVars,
                   wid, joined, home, cycle, callerVars>>

----------------------------------------------------------------------------
(* Callers.                                                                *)

Issue(r) ==
    /\ fut[r] = "new" /\ \A q \in Requests : q < r => fut[q] # "new"
    /\ \E c \in Clients, o \in Ops, t \in Threads :
          /\ client[c] # "none"
          /\ o = "spawn" => Fresh(t)
          /\ by' = [by EXCEPT ![r] = c] /\ op' = [op EXCEPT ![r] = o]
          /\ target' = [target EXCEPT ![r] = t]
          /\ fut' = [fut EXCEPT ![r] = IF client[c] = "open" THEN "pending" ELSE "error"]
          /\ ClientSends(c, <<CallFrame(r)>>)
    /\ UNCHANGED <<link, down, client, server, drops, coordVars, relayVars, workerVars>>

----------------------------------------------------------------------------
ConnectionStep(c) == Connect(c) \/ Join(c) \/ Leave(c) \/ Drop(c) \/ \E t \in Threads : SpawnLocally(c, t)
ServerStep(c) ==
    \/ TakeRegister(c) \/ TakeDeregister(c) \/ TakeThread(c) \/ TakeThreadGone(c)
    \/ TakeEvent(c) \/ TakeCall(c) \/ TakeAnswer(c) \/ ServerCloses(c) \/ Cleanup(c)
ClientStep(c) == GetAnswer(c) \/ GetCall(c) \/ ClientCloses(c)
ThreadStep(t) == Begin(t) \/ End(t) \/ TearDown(t)

Next ==
    \/ \E c \in Clients : ConnectionStep(c) \/ ServerStep(c) \/ ClientStep(c)
    \/ \E t \in Threads : ThreadStep(t)
    \/ \E r \in Requests : Relayed(r) \/ Issue(r)

\* Both processes keep reading, their loops run what is ready, and cycles end.
\* Nobody has to call, connect or leave, and no connection has to break.
Fairness ==
    /\ \A c \in Clients : WF_vars(ServerStep(c)) /\ WF_vars(ClientStep(c))
    /\ \A t \in Threads : WF_vars(ThreadStep(t))
    /\ \A r \in Requests : WF_vars(Relayed(r))

Spec == Init /\ [][Next]_vars /\ Fairness

----------------------------------------------------------------------------
(* Properties.                                                             *)

\* A thread that is listed as alive can be routed: its worker is in the pool,
\* behind a connection whose loss will still be noticed.
RegistryAgrees ==
    \A t \in Threads : info[t] \notin {"absent", "failed"} =>
        /\ pool[on[t]] # Nobody
        /\ server[pool[on[t]]] \in {"open", "closed"}

\* A thread that was failed with its worker stays failed, whatever its process
\* or a pause that was under way still sends.
FailedStays == [][\A t \in Threads : info[t] = "failed" => info'[t] \in {"failed", "absent"}]_vars

\* Whoever has the value of a submit finds its cycle in the log: the answer
\* travels from the worker to the caller over two connections and overtakes
\* the end of the cycle, but never its beginning.
AnswersAreLogged ==
    \A t \in Threads :
        Cardinality({r \in Requests : op[r] = "submit" /\ target[r] = t /\ fut[r] = "value"})
            <= Cardinality({i \in DOMAIN log[t] : log[t][i] = "started"})

\* Every call returns, with a value or an error, whichever connection breaks
\* (I12).
CallsReturn == \A r \in Requests : fut[r] = "pending" ~> fut[r] # "pending"

\* A connection that goes away takes only the workers it brought.
OnlyOwnWorkersLost ==
    [][\A w \in Wids : pool[w] # Nobody /\ pool'[w] = Nobody
          => server'[pool[w]] = "gone" \/ server' = server]_vars
=============================================================================
