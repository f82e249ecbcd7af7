------------------------------- MODULE ToolServer -------------------------------
(***************************************************************************)
(* CoordinatorToolServer: started and stopped by tasks of one event loop,  *)
(* with a capability URL and token per registered thread.  A request is    *)
(* matched once, when it arrives, and keeps the identity it resolved.      *)
(***************************************************************************)
EXTENDS Naturals, FiniteSets

CONSTANTS Threads, Callers,  \* tasks that call start or stop
          Requests,
          TokenBound, StartBound

VARIABLES
    serving,        \* _server: the number of the uvicorn server, or 0
    up,             \* servers that answer
    socks,          \* servers whose socket is open
    starts,
    task,           \* what each caller is in the middle of
    registrations,  \* _registrations: the thread and path id of each live token
    byThread,       \* _by_thread
    minted,         \* tokens handed out
    request         \* the token a request carries and the thread it acts as

vars == <<serving, up, socks, starts, task, registrations, byThread, minted, request>>
serverVars == <<serving, up, socks, starts, task>>
tokenVars == <<registrations, byThread, minted>>

Rest == [op |-> "none", server |-> 0]
Unsent == [stage |-> "unsent", token |-> 0, as |-> 0]
Bound == serving # 0

TypeOK ==
    /\ serving \in 0..starts /\ up \subseteq socks /\ socks \subseteq 1..starts
    /\ \A r \in registrations : r.thread \in Threads /\ r.token \in 1..minted
    /\ DOMAIN byThread \subseteq Threads
    /\ \A q \in Requests : request[q].stage \in {"unsent", "sent", "inside", "refused", "done", "dropped"}

Init ==
    /\ serving = 0 /\ up = {} /\ socks = {} /\ starts = 0
    /\ task = [c \in Callers |-> Rest]
    /\ registrations = {} /\ byThread = [t \in {} |-> 0] /\ minted = 0
    /\ request = [q \in Requests |-> Unsent]

----------------------------------------------------------------------------
\* start: idempotent; binds, creates the server and polls until it is up.
Start(c) ==
    /\ task[c] = Rest /\ starts < StartBound
    /\ IF Bound THEN UNCHANGED <<serving, socks, starts, task>>
       ELSE /\ starts' = starts + 1 /\ serving' = starts + 1 /\ socks' = socks \cup {starts + 1}
            /\ task' = [task EXCEPT ![c] = [op |-> "starting", server |-> starts + 1]]
    /\ UNCHANGED <<up, tokenVars, request>>

ServerUp(c) ==
    /\ task[c].op = "starting" /\ task[c].server \in socks
    /\ up' = up \cup {task[c].server}
    /\ UNCHANGED <<serving, socks, starts, task, tokenVars, request>>

\* The poll reads self._server.started: a stop meanwhile has set it to None.
Started(c) ==
    /\ task[c].op = "starting" /\ (serving = 0 \/ serving \in up)
    /\ task' = [task EXCEPT ![c] = [op |-> IF serving = 0 THEN "raised" ELSE "none", server |-> 0]]
    /\ UNCHANGED <<serving, up, socks, starts, tokenVars, request>>

\* Mutant: the socket of a server that did not come up stays open.
StartFailsBound(c) ==
    /\ task[c].op = "starting" /\ serving = task[c].server /\ serving \notin up
    /\ serving' = 0
    /\ task' = [task EXCEPT ![c] = [op |-> "raised", server |-> 0]]
    /\ UNCHANGED <<up, socks, starts, tokenVars, request>>

\* The serving task ends early: everything is reset and the failure raised.
StartFails(c) ==
    /\ task[c].op = "starting" /\ serving = task[c].server /\ serving \notin up
    /\ serving' = 0 /\ socks' = socks \ {task[c].server}
    /\ task' = [task EXCEPT ![c] = [op |-> "raised", server |-> 0]]
    /\ UNCHANGED <<up, starts, tokenVars, request>>

\* Mutant: stop leaves the tokens as they are.
StopKeepsTokens(c) ==
    /\ task[c].op \in {"none", "starting"} /\ Bound
    /\ serving' = 0 /\ task' = [task EXCEPT ![c] = [op |-> "stopping", server |-> serving]]
    /\ UNCHANGED <<up, socks, starts, tokenVars, request>>

\* stop, or a start that timed out: the tokens are revoked and the fields
\* cleared before uvicorn is awaited.
Stop(c) ==
    /\ task[c].op \in {"none", "starting"} /\ Bound
    /\ registrations' = {} /\ byThread' = [t \in {} |-> 0]
    /\ serving' = 0 /\ task' = [task EXCEPT ![c] = [op |-> "stopping", server |-> serving]]
    /\ UNCHANGED <<up, socks, starts, minted, request>>

\* The serving task is over: what was in flight on it is dropped.
Stopped(c) ==
    /\ task[c].op = "stopping"
    /\ up' = up \ {task[c].server} /\ socks' = socks \ {task[c].server}
    /\ task' = [task EXCEPT ![c] = Rest]
    /\ request' = [q \in Requests |-> IF request[q].stage \in {"sent", "inside"}
                                      THEN [request[q] EXCEPT !.stage = "dropped"] ELSE request[q]]
    /\ UNCHANGED <<serving, starts, tokenVars>>

----------------------------------------------------------------------------
Without(t) == {r \in registrations : r.thread # t}

\* Mutant: registering again leaves the previous token valid.
RegisterTwice(t) ==
    /\ Bound /\ minted < TokenBound /\ minted' = minted + 1
    /\ registrations' = registrations \cup {[thread |-> t, token |-> minted + 1]}
    /\ byThread' = [u \in DOMAIN byThread \cup {t} |-> IF u = t THEN minted + 1 ELSE byThread[u]]
    /\ UNCHANGED <<serverVars, request>>

\* register revokes the thread's previous token and mints a fresh one; a thread
\* registers once its start has returned.
Register(t) ==
    /\ Bound /\ (\A c \in Callers : task[c].op # "starting") /\ minted < TokenBound /\ minted' = minted + 1
    /\ registrations' = Without(t) \cup {[thread |-> t, token |-> minted + 1]}
    /\ byThread' = [u \in DOMAIN byThread \cup {t} |-> IF u = t THEN minted + 1 ELSE byThread[u]]
    /\ UNCHANGED <<serverVars, request>>

Deregister(t) ==
    /\ t \in DOMAIN byThread /\ registrations' = Without(t)
    /\ byThread' = [u \in DOMAIN byThread \ {t} |-> byThread[u]]
    /\ UNCHANGED <<serverVars, minted, request>>

\* An agent process calls with the token it was launched with.
Send(q, k) ==
    /\ request[q] = Unsent /\ k \in 1..minted /\ up # {}
    /\ request' = [request EXCEPT ![q] = [stage |-> "sent", token |-> k, as |-> 0]]
    /\ UNCHANGED <<serverVars, tokenVars>>

\* _TokenRouter: 404 or 401, or the registration is parked for the request.
Route(q) ==
    /\ request[q].stage = "sent"
    /\ LET match == {r \in registrations : r.token = request[q].token} IN
         request' = [request EXCEPT ![q] =
            IF match = {} THEN [@ EXCEPT !.stage = "refused"]
            ELSE [@ EXCEPT !.stage = "inside", !.as = (CHOOSE r \in match : TRUE).thread]]
    /\ UNCHANGED <<serverVars, tokenVars>>

Answer(q) ==
    /\ request[q].stage = "inside" /\ request' = [request EXCEPT ![q].stage = "done"]
    /\ UNCHANGED <<serverVars, tokenVars>>

Next ==
    \/ \E c \in Callers : Start(c) \/ ServerUp(c) \/ Started(c) \/ StartFails(c) \/ Stop(c) \/ Stopped(c)
    \/ \E t \in Threads : Register(t) \/ Deregister(t)
    \/ \E q \in Requests : (\E k \in 1..TokenBound : Send(q, k)) \/ Route(q) \/ Answer(q)

Spec == Init /\ [][Next]_vars

----------------------------------------------------------------------------
\* A thread has one live token, the last it was given, and a stopped server
\* none: the two registries name the same threads throughout.
OneLiveToken ==
    /\ \A r \in registrations : r.thread \in DOMAIN byThread /\ byThread[r.thread] = r.token
    /\ Cardinality(registrations) = Cardinality(DOMAIN byThread)
    /\ ~Bound => registrations = {}

\* A socket that is open is that of the server, or of one a task still starts
\* or stops: the port is free once stop returned or start failed.
PortIsFree == \A s \in socks : s = serving \/ \E c \in Callers : task[c].server = s
================================================================================
