-------------------------- MODULE RemoteRuntimeProofs --------------------------
(***************************************************************************)
(* Whatever connections break, and whichever worker ids they offered, the  *)
(* endpoint's coordinator lists as alive only threads it can route to: the *)
(* argument rests on the order in which the endpoint writes its own        *)
(* tables.  Then the frames: every one is well formed, one frame brings a  *)
(* thread, and no caller has the value of a submit whose cycle is not in   *)
(* the log.  The last proof gives each answered request a slot of its own: *)
(* the STARTED event of its cycle, in the log or ahead of the answer on    *)
(* the wire.                                                               *)
(***************************************************************************)
EXTENDS RemoteRuntime, TLAPS, FiniteSetTheorems

\* The tables of the endpoint, as far as the argument looks at them.
TablesOK ==
    /\ wid \in [Clients -> Wids]
    /\ server \in [Clients -> {"none", "open", "closed", "gone"}]
    /\ pool \in [Wids -> Clients \cup {Nobody}]
    /\ offered = [c \in Clients |-> offered[c]]
    /\ info \in [Threads -> Statuses] /\ on \in [Threads -> Wids \cup {Nobody}]

\* A worker is in the pool only behind a connection that offered it and whose
\* handler has still to run its finally.
PoolIsServed ==
    \A w \in Wids : pool[w] # Nobody =>
        /\ w \in offered[pool[w]]
        /\ server[pool[w]] \in {"open", "closed"}

Alive(t) == info[t] \notin {"absent", "failed"}

\* A thread that is alive belongs to a worker in the pool.
AliveIsPooled == \A t \in Threads : Alive(t) => on[t] \in Wids /\ pool[on[t]] # Nobody

RegistryInv == TablesOK /\ PoolIsServed /\ AliveIsPooled

LEMMA RegistryInvAgrees == RegistryInv => RegistryAgrees
  BY DEF RegistryInv, TablesOK, PoolIsServed, AliveIsPooled, Alive, RegistryAgrees

\* The tables of the endpoint do not change.
tables == <<wid, server, pool, offered, info, on>>

LEMMA Untouched ==
    ASSUME RegistryInv, UNCHANGED tables
    PROVE  RegistryInv'
  BY DEF RegistryInv, TablesOK, PoolIsServed, AliveIsPooled, Alive, tables

\* A status that changes, but of no thread from dead to alive.
LEMMA StatusOnly ==
    ASSUME RegistryInv, UNCHANGED <<wid, server, pool, offered, on>>,
           info' \in [Threads -> Statuses],
           \A t \in Threads : Alive(t)' => Alive(t)
    PROVE  RegistryInv'
  BY DEF RegistryInv, TablesOK, PoolIsServed, AliveIsPooled, Alive

\* A thread is given to a worker that is in the pool.
LEMMA Registers ==
    ASSUME RegistryInv, UNCHANGED <<wid, server, pool, offered>>,
           NEW t, NEW w \in Wids, pool[w] # Nobody,
           info' = [info EXCEPT ![t] = "not_started"], on' = [on EXCEPT ![t] = w]
    PROVE  RegistryInv'
  <1>1. info' \in [Threads -> Statuses] /\ on' \in [Threads -> Wids \cup {Nobody}]
    BY DEF RegistryInv, TablesOK, Statuses
  <1>2. \A s \in Threads : s = t \/ (info'[s] = info[s] /\ on'[s] = on[s])
    BY DEF RegistryInv, TablesOK
  <1>3. t \in Threads => on'[t] = w
    BY DEF RegistryInv, TablesOK
  <1> QED
    BY <1>1, <1>2, <1>3 DEF RegistryInv, TablesOK, PoolIsServed, AliveIsPooled, Alive

\* deregister_worker for the ids of W: their threads die with them.
LEMMA LosesAgree ==
    ASSUME RegistryInv, NEW W, LoseWorkers(W)
    PROVE  /\ pool' \in [Wids -> Clients \cup {Nobody}]
           /\ info' \in [Threads -> Statuses]
           /\ \A w \in Wids : pool'[w] # Nobody => w \notin W /\ pool'[w] = pool[w]
           /\ \A t \in Threads : info'[t] \notin {"absent", "failed"} => Alive(t) /\ on[t] \notin W
  BY DEF RegistryInv, TablesOK, LoseWorkers, Orphans, Alive, Statuses

\* An event brings nobody back.
LEMMA AfterType ==
    ASSUME NEW status \in Statuses, NEW e
    PROVE  /\ After(status, e) \in Statuses
           /\ status \in {"absent", "failed"} => After(status, e) = status
  BY DEF After, Statuses

\* A connection changes its state, and its own offers or none.
LEMMA ConnectionAgrees ==
    ASSUME RegistryInv, NEW c \in Clients, ConnectionStep(c)
    PROVE  RegistryInv'
  <1>1. CASE Connect(c)
    BY <1>1 DEF Connect, RegistryInv, TablesOK, PoolIsServed, AliveIsPooled, Alive, coordVars, workerVars
  <1>2. CASE Join(c) \/ Leave(c)
    BY <1>2, Untouched DEF Join, Leave, tables, coordVars
  <1>3. CASE Drop(c)
    BY <1>3, Untouched DEF Drop, tables, coordVars, workerVars
  <1>4. CASE \E t \in Threads : SpawnLocally(c, t)
    BY <1>4, Untouched DEF SpawnLocally, tables, coordVars
  <1> QED
    BY <1>1, <1>2, <1>3, <1>4 DEF ConnectionStep

\* The endpoint takes a frame, or notices that a connection is gone.
LEMMA ServerAgrees ==
    ASSUME RegistryInv, NEW c \in Clients, ServerStep(c)
    PROVE  RegistryInv'
  <1>1. CASE TakeRegister(c)
    <2> DEFINE w == Head(up[c]).about
    <2>1. /\ server[c] = "open"
          /\ offered' = [offered EXCEPT ![c] = @ \cup {w}]
          /\ pool' = IF pool[w] = Nobody THEN [pool EXCEPT ![w] = c] ELSE pool
          /\ UNCHANGED <<wid, server, info, on>>
      BY <1>1 DEF TakeRegister, Takes, workerVars
    <2> HIDE DEF w
    <2>2. TablesOK'
      BY <2>1 DEF RegistryInv, TablesOK
    <2>3. \A v \in Wids : pool'[v] = pool[v] \/ (v = w /\ pool[v] = Nobody /\ pool'[v] = c)
      BY <2>1 DEF RegistryInv, TablesOK
    <2>4. \A d \in Clients : offered[d] \subseteq offered'[d]
      BY <2>1 DEF RegistryInv, TablesOK
    <2>5. w \in offered'[c]
      BY <2>1 DEF RegistryInv, TablesOK
    <2>6. PoolIsServed'
      BY <2>1, <2>3, <2>4, <2>5 DEF RegistryInv, TablesOK, PoolIsServed
    <2>7. AliveIsPooled'
      BY <2>1, <2>3 DEF RegistryInv, TablesOK, AliveIsPooled, Alive, RemoteAssumption
    <2> QED
      BY <2>2, <2>6, <2>7 DEF RegistryInv
  <1>2. CASE TakeDeregister(c)
    <2> DEFINE w == Head(up[c]).about
    <2>1. LoseWorkers({w}) /\ offered' = [offered EXCEPT ![c] = @ \ {w}]
      BY <1>2 DEF TakeDeregister
    <2>2. UNCHANGED <<wid, server, on>>
      BY <1>2 DEF TakeDeregister, workerVars
    <2> HIDE DEF w
    <2>3. \A d \in Clients : offered[d] \ {w} \subseteq offered'[d]
      BY <2>1 DEF RegistryInv, TablesOK
    <2>4. offered' = [d \in Clients |-> offered'[d]]
      BY <2>1 DEF RegistryInv, TablesOK
    <2>5. /\ \A v \in Wids : pool'[v] # Nobody => v # w /\ pool'[v] = pool[v]
          /\ pool' \in [Wids -> Clients \cup {Nobody}] /\ info' \in [Threads -> Statuses]
          /\ \A t \in Threads : info'[t] \notin {"absent", "failed"} => Alive(t) /\ on[t] # w
      BY <2>1, LosesAgree
    <2>6. TablesOK'
      BY <2>2, <2>4, <2>5 DEF RegistryInv, TablesOK
    <2>7. PoolIsServed'
      BY <2>2, <2>3, <2>5 DEF RegistryInv, TablesOK, PoolIsServed
    <2>8. AliveIsPooled'
      BY <2>1, <2>2, <2>5 DEF RegistryInv, TablesOK, AliveIsPooled, Alive, LoseWorkers
    <2> QED
      BY <2>6, <2>7, <2>8 DEF RegistryInv
  <1>3. CASE TakeThread(c)
    <2> DEFINE t == Head(up[c]).about
    <2>1. UNCHANGED <<wid, server, pool, offered>>
      BY <1>3 DEF TakeThread, workerVars
    <2>2. CASE pool[wid[c]] # Nobody
      <3>1. info' = [info EXCEPT ![t] = "not_started"] /\ on' = [on EXCEPT ![t] = wid[c]]
        BY <1>3, <2>2 DEF TakeThread
      <3>2. wid[c] \in Wids
        BY DEF RegistryInv, TablesOK
      <3> QED
        BY <2>1, <2>2, <3>1, <3>2, Registers
    <2>3. CASE pool[wid[c]] = Nobody
      BY <1>3, <2>1, <2>3, Untouched DEF TakeThread, tables
    <2> QED
      BY <2>2, <2>3
  <1>4. CASE TakeThreadGone(c)
    <2>1. info' = [info EXCEPT ![Head(up[c]).about] = "absent"]
      BY <1>4 DEF TakeThreadGone
    <2>2. UNCHANGED <<wid, server, pool, offered, on>>
      BY <1>4 DEF TakeThreadGone, workerVars
    <2> QED
      BY <2>1, <2>2, StatusOnly DEF RegistryInv, TablesOK, Alive, Statuses
  <1>5. CASE TakeEvent(c)
    <2> DEFINE t == Head(up[c]).about
               e == Head(up[c]).event
    <2>1. info' = [info EXCEPT ![t] = After(@, e)]
      BY <1>5 DEF TakeEvent
    <2>2. UNCHANGED <<wid, server, pool, offered, on>>
      BY <1>5 DEF TakeEvent, workerVars
    <2> HIDE DEF t, e
    <2>3. \A status \in Statuses : /\ After(status, e) \in Statuses
                                   /\ status \in {"absent", "failed"} => After(status, e) = status
      BY AfterType
    <2> QED
      BY <2>1, <2>2, <2>3, StatusOnly DEF RegistryInv, TablesOK, Alive
  <1>6. CASE TakeCall(c)
    <2> DEFINE r == Head(up[c]).about
               t == target[r]
    <2>1. UNCHANGED <<wid, server, pool, offered>>
      BY <1>6 DEF TakeCall, workerVars
    <2>2. \/ UNCHANGED <<info, on>>
          \/ \E w \in Wids : /\ pool[w] # Nobody
                             /\ info' = [info EXCEPT ![t] = "not_started"]
                             /\ on' = [on EXCEPT ![t] = w]
      BY <1>6 DEF TakeCall
    <2> QED
      BY <2>1, <2>2, Untouched, Registers DEF tables
  <1>7. CASE TakeAnswer(c)
    <2> DEFINE t == target[Head(up[c]).about]
    <2>1. \/ info' = info
          \/ info[t] \notin {"absent", "failed"} /\ info' = [info EXCEPT ![t] = "paused"]
      BY <1>7 DEF TakeAnswer
    <2>2. UNCHANGED <<wid, server, pool, offered, on>>
      BY <1>7 DEF TakeAnswer, workerVars
    <2> QED
      BY <2>1, <2>2, StatusOnly DEF RegistryInv, TablesOK, Alive, Statuses
  <1>8. CASE ServerCloses(c)
    BY <1>8 DEF ServerCloses, RegistryInv, TablesOK, PoolIsServed, AliveIsPooled, Alive, coordVars, workerVars
  <1>9. CASE Cleanup(c)
    <2>1. /\ LoseWorkers(offered[c])
          /\ server' = [server EXCEPT ![c] = "gone"]
          /\ offered' = [offered EXCEPT ![c] = {}]
          /\ UNCHANGED <<wid, on>>
      BY <1>9 DEF Cleanup, workerVars
    <2>2. TablesOK'
      BY <2>1, LosesAgree DEF RegistryInv, TablesOK
    <2>3. \A w \in Wids : pool'[w] # Nobody => pool'[w] = pool[w] /\ pool[w] # c
      BY <2>1, LosesAgree DEF RegistryInv, PoolIsServed
    <2>4. PoolIsServed'
      BY <2>1, <2>3 DEF RegistryInv, TablesOK, PoolIsServed
    <2>5. AliveIsPooled'
      BY <2>1, LosesAgree DEF RegistryInv, TablesOK, AliveIsPooled, Alive, LoseWorkers
    <2> QED
      BY <2>2, <2>4, <2>5 DEF RegistryInv
  <1> QED
    BY <1>1, <1>2, <1>3, <1>4, <1>5, <1>6, <1>7, <1>8, <1>9 DEF ServerStep

\* Clients, their threads, the relays and the callers write none of its tables.
LEMMA OthersAgree ==
    ASSUME RegistryInv,
           \/ \E c \in Clients : ClientStep(c)
           \/ \E t \in Threads : ThreadStep(t)
           \/ \E r \in Requests : Relayed(r) \/ Issue(r)
    PROVE  RegistryInv'
  <1> USE Untouched DEF tables, coordVars, workerVars, wireVars
  <1>1. CASE \E c \in Clients : ClientStep(c)
    BY <1>1 DEF ClientStep, GetAnswer, GetCall, ClientCloses
  <1>2. CASE \E t \in Threads : ThreadStep(t)
    BY <1>2 DEF ThreadStep, Begin, End, TearDown
  <1>3. CASE \E r \in Requests : Relayed(r) \/ Issue(r)
    BY <1>3 DEF Relayed, Issue
  <1> QED
    BY <1>1, <1>2, <1>3

\* For any number of connections, workers and threads, however many connections
\* break and whichever process offers an id that is in use: a thread that the
\* endpoint's coordinator lists as alive has its worker in the pool, behind a
\* connection whose loss will still be noticed (endpoint.py, the finally of
\* _serve_connection, against register_thread and spawn).
THEOREM RegistryAlwaysAgrees == Spec => []RegistryAgrees
  <1>1. Init => RegistryInv
    BY DEF Init, RegistryInv, TablesOK, PoolIsServed, AliveIsPooled, Alive, Statuses
  <1>2. RegistryInv /\ [Next]_vars => RegistryInv'
    <2>1. RegistryInv /\ Next => RegistryInv'
      BY ConnectionAgrees, ServerAgrees, OthersAgree DEF Next
    <2>2. RegistryInv /\ UNCHANGED vars => RegistryInv'
      BY Untouched DEF vars, wireVars, coordVars, workerVars, tables
    <2> QED
      BY <2>1, <2>2
  <1> QED
    BY <1>1, <1>2, RegistryInvAgrees, PTL DEF Spec
----------------------------------------------------------------------------
(* Every frame is well formed, and so is every table.                      *)

UpFrame ==
    [kind : {"register", "deregister"}, about : Wids] \cup [kind : {"thread", "unthread"}, about : Threads]
      \cup [kind : {"append"}, about : Threads, event : Kinds]
      \cup [kind : {"call"}, about : Requests] \cup [kind : {"answer"}, about : Requests, ok : BOOLEAN]

DownFrame ==
    [kind : {"call"}, about : Requests] \cup [kind : {"answer"}, about : Wids \cup Threads \cup Requests, ok : BOOLEAN]

WireOK ==
    /\ link \in [Clients -> {"none", "up", "down"}] /\ drops \in Nat
    /\ client \in [Clients -> {"none", "open", "closed"}]
    /\ server \in [Clients -> {"none", "open", "closed", "gone"}]
    /\ up \in [Clients -> Seq(UpFrame)] /\ down \in [Clients -> Seq(DownFrame)]

EndpointOK ==
    /\ pool \in [Wids -> Clients \cup {Nobody}]
    /\ offered \in [Clients -> SUBSET Wids]
    /\ info \in [Threads -> Statuses] /\ on \in [Threads -> Wids \cup {Nobody}]
    /\ log \in [Threads -> Seq(Kinds)]
    /\ relay \in [Requests -> {"none", "waiting", "value", "error", "orphan", "done"}]
    /\ via \in [Requests -> Clients \cup {Nobody}]

ClientsOK ==
    /\ wid \in [Clients -> Wids] /\ joined \in [Clients -> {"no", "asked", "yes", "out"}]
    /\ home \in [Threads -> Clients \cup {Nobody}]
    /\ stage \in [Threads -> {"new", "asked", "hosted", "gone", "refused"}]
    /\ queue \in [Threads -> Seq(Requests)] /\ cycle \in [Threads -> Requests \cup {Nobody}]
    /\ by \in [Requests -> Clients \cup {Nobody}] /\ op \in [Requests -> Ops \cup {"none"}]
    /\ target \in [Requests -> Threads \cup {Nobody}]
    /\ fut \in [Requests -> {"new", "pending", "value", "error"}]

Typed == WireOK /\ EndpointOK /\ ClientsOK

LEMMA TypedIsTypeOK == Typed => TypeOK
  <1> SUFFICES ASSUME Typed PROVE TypeOK
    OBVIOUS
  <1>1. \A t \in Threads : ToSet(log[t]) \subseteq Kinds
    <2> SUFFICES ASSUME NEW t \in Threads PROVE {log[t][i] : i \in DOMAIN log[t]} \subseteq Kinds
      BY DEF ToSet
    <2>1. log[t] \in Seq(Kinds)
      BY DEF Typed, EndpointOK
    <2> QED
      BY <2>1
  <1> QED
    BY <1>1 DEF Typed, EndpointOK, ClientsOK, TypeOK

\* What each kind of frame is about.
LEMMA UpFrames ==
    /\ \A kind \in {"register", "deregister"}, w \in Wids : WorkerFrame(kind, w) \in UpFrame
    /\ \A kind \in {"thread", "unthread"}, t \in Threads : ThreadFrame(kind, t) \in UpFrame
    /\ \A t \in Threads, e \in Kinds : EventFrame(t, e) \in UpFrame
    /\ \A r \in Requests : CallFrame(r) \in UpFrame
    /\ \A r \in Requests, ok \in BOOLEAN : Answer(r, ok) \in UpFrame
  BY DEF UpFrame, WorkerFrame, ThreadFrame, EventFrame, CallFrame, Answer

LEMMA DownFrames ==
    /\ \A r \in Requests : CallFrame(r) \in DownFrame
    /\ \A x \in Wids \cup Threads \cup Requests, ok \in BOOLEAN : Answer(x, ok) \in DownFrame
  BY DEF DownFrame, CallFrame, Answer

LEMMA UpAbout ==
    ASSUME NEW f \in UpFrame
    PROVE  /\ Is(f, "register") \/ Is(f, "deregister") => f.about \in Wids
           /\ Is(f, "thread") \/ Is(f, "unthread") => f.about \in Threads
           /\ Is(f, "append") => f.about \in Threads /\ f.event \in Kinds
           /\ Is(f, "call") => f.about \in Requests
           /\ Is(f, "answer") => f.about \in Requests /\ f.ok \in BOOLEAN
  BY DEF UpFrame, Is

LEMMA DownAbout ==
    ASSUME NEW f \in DownFrame
    PROVE  /\ Is(f, "call") => f.about \in Requests
           /\ Is(f, "answer") => f.about \in Wids \cup Threads \cup Requests /\ f.ok \in BOOLEAN
  BY DEF DownFrame, Is

\* Every call frame is about a request that was made, and a request that was
\* made has a target; a thread that is listed has a worker id.
MadeBefore ==
    /\ \A c \in Clients :
          /\ \A i \in DOMAIN up[c] : Is(up[c][i], "call") => op[up[c][i].about] # "none"
          /\ \A i \in DOMAIN down[c] : Is(down[c][i], "call") => op[down[c][i].about] # "none"
    /\ \A r \in Requests : /\ fut[r] = "new" => op[r] = "none"
                           /\ op[r] # "none" => target[r] \in Threads /\ op[r] \in Ops
    /\ \A t \in Threads : info[t] # "absent" => on[t] \in Wids

\* Of the frames in `new`, those that are not in F were there before, in the
\* same place.
Extends(old, new, F) ==
    \A c \in Clients : \A i \in DOMAIN new[c] : (i \in DOMAIN old[c] /\ new[c][i] = old[c][i]) \/ new[c][i] \in F

\* Putting one frame on a connection, or two.
LEMMA SentExtends ==
    ASSUME NEW S, NEW frames \in [Clients -> Seq(S)], NEW x, NEW f \in S, NEW g \in S
    PROVE  /\ Sent(frames, x, <<f>>) \in [Clients -> Seq(S)]
           /\ Sent(frames, x, <<f, g>>) \in [Clients -> Seq(S)]
           /\ Extends(frames, Sent(frames, x, <<f>>), {f})
           /\ Extends(frames, Sent(frames, x, <<f, g>>), {f, g})
  <1>1. CASE x \in Clients
    <2>1. frames[x] \in Seq(S)
      BY <1>1
    <2> DEFINE p == frames[x] \o <<f>>
               q == frames[x] \o <<f, g>>
    <2>2. /\ p \in Seq(S) /\ q \in Seq(S)
          /\ \A i \in DOMAIN p : (i \in DOMAIN frames[x] /\ p[i] = frames[x][i]) \/ p[i] = f
      BY <2>1
    <2>3. \A i \in DOMAIN q : (i \in DOMAIN frames[x] /\ q[i] = frames[x][i]) \/ q[i] \in {f, g}
      <3>1. Len(q) = Len(frames[x]) + 2 /\ q[Len(frames[x]) + 1] = f /\ q[Len(frames[x]) + 2] = g
        BY <2>1
      <3>2. \A i \in DOMAIN q : i \in DOMAIN frames[x] \/ i = Len(frames[x]) + 1 \/ i = Len(frames[x]) + 2
        BY <2>1, <3>1
      <3>3. \A i \in DOMAIN frames[x] : q[i] = frames[x][i]
        BY <2>1
      <3> QED
        BY <3>1, <3>2, <3>3
    <2> HIDE DEF p, q
    <2>4. /\ Sent(frames, x, <<f>>) = IF Carries(x) THEN [frames EXCEPT ![x] = p] ELSE frames
          /\ Sent(frames, x, <<f, g>>) = IF Carries(x) THEN [frames EXCEPT ![x] = q] ELSE frames
      BY DEF Sent, p, q
    <2> QED
      BY <2>2, <2>3, <2>4 DEF Extends
  <1>2. CASE x \notin Clients
    <2>1. Sent(frames, x, <<f>>) = frames /\ Sent(frames, x, <<f, g>>) = frames
      BY <1>2 DEF Sent
    <2> QED
      BY <2>1 DEF Extends
  <1> QED
    BY <1>1, <1>2

\* A client that is closed puts nothing on the wire.
LEMMA ClientSendsOne ==
    ASSUME up \in [Clients -> Seq(UpFrame)], NEW x, NEW f \in UpFrame, ClientSends(x, <<f>>)
    PROVE  up' \in [Clients -> Seq(UpFrame)] /\ Extends(up, up', {f})
  <1>1. CASE up' = up
    BY <1>1 DEF Extends
  <1>2. CASE up' = Sent(up, x, <<f>>)
    BY <1>2, SentExtends
  <1> QED
    BY <1>1, <1>2 DEF ClientSends

LEMMA ClientSendsTwo ==
    ASSUME up \in [Clients -> Seq(UpFrame)], NEW x, NEW f \in UpFrame, NEW g \in UpFrame,
           ClientSends(x, <<f, g>>)
    PROVE  up' \in [Clients -> Seq(UpFrame)] /\ Extends(up, up', {f, g})
  <1>1. CASE up' = up
    BY <1>1 DEF Extends
  <1>2. CASE up' = Sent(up, x, <<f, g>>)
    BY <1>2, SentExtends
  <1> QED
    BY <1>1, <1>2 DEF ClientSends

LEMMA SentOne ==
    ASSUME down \in [Clients -> Seq(DownFrame)], NEW x, NEW f \in DownFrame, down' = Sent(down, x, <<f>>)
    PROVE  down' \in [Clients -> Seq(DownFrame)] /\ Extends(down, down', {f})
  BY SentExtends

LEMMA TakenType ==
    ASSUME up \in [Clients -> Seq(UpFrame)], NEW c \in Clients, NEW kind, Takes(c, kind), Taken(c)
    PROVE  up' \in [Clients -> Seq(UpFrame)] /\ Head(up[c]) \in UpFrame /\ Is(Head(up[c]), kind)
  <1>1. up[c] \in Seq(UpFrame) /\ up[c] # <<>>
    BY DEF Takes
  <1>2. Tail(up[c]) \in Seq(UpFrame) /\ Head(up[c]) \in UpFrame
    BY <1>1
  <1> QED
    BY <1>2 DEF Takes, Taken

LEMMA GotType ==
    ASSUME down \in [Clients -> Seq(DownFrame)], NEW c \in Clients, NEW kind, Gets(c, kind), Got(c)
    PROVE  down' \in [Clients -> Seq(DownFrame)] /\ Head(down[c]) \in DownFrame /\ Is(Head(down[c]), kind)
  <1>1. down[c] \in Seq(DownFrame) /\ down[c] # <<>>
    BY DEF Gets
  <1>2. Tail(down[c]) \in Seq(DownFrame) /\ Head(down[c]) \in DownFrame
    BY <1>1
  <1> QED
    BY <1>2 DEF Gets, Got

LEMMA ConnectionType ==
    ASSUME Typed, NEW c \in Clients, ConnectionStep(c)
    PROVE  Typed'
  <1> USE DEF Typed, WireOK, EndpointOK, ClientsOK, coordVars, relayVars, workerVars, callerVars
  <1>1. CASE Connect(c)
    BY <1>1 DEF Connect
  <1>2. CASE Join(c)
    <2>1. up' \in [Clients -> Seq(UpFrame)]
      BY <1>2, UpFrames, ClientSendsOne DEF Join
    <2> QED
      BY <1>2, <2>1 DEF Join
  <1>3. CASE Leave(c)
    <2>1. up' \in [Clients -> Seq(UpFrame)]
      BY <1>3, UpFrames, ClientSendsOne DEF Leave
    <2> QED
      BY <1>3, <2>1 DEF Leave
  <1>4. CASE Drop(c)
    <2>1. PICK i \in 0 .. Len(up[c]), j \in 0 .. Len(down[c]) :
              /\ up' = [up EXCEPT ![c] = SubSeq(up[c], 1, i)]
              /\ down' = [down EXCEPT ![c] = SubSeq(down[c], 1, j)]
      BY <1>4 DEF Drop
    <2>2. SubSeq(up[c], 1, i) \in Seq(UpFrame) /\ SubSeq(down[c], 1, j) \in Seq(DownFrame)
      <3>1. up[c] \in Seq(UpFrame) /\ down[c] \in Seq(DownFrame)
        OBVIOUS
      <3> QED
        BY <3>1
    <2>3. up' \in [Clients -> Seq(UpFrame)] /\ down' \in [Clients -> Seq(DownFrame)]
      BY <2>1, <2>2
    <2> QED
      BY <1>4, <2>3 DEF Drop
  <1>5. CASE \E t \in Threads : SpawnLocally(c, t)
    <2>1. PICK t \in Threads : SpawnLocally(c, t)
      BY <1>5
    <2>2. up' \in [Clients -> Seq(UpFrame)]
      BY <2>1, UpFrames, ClientSendsOne DEF SpawnLocally
    <2> QED
      BY <2>1, <2>2 DEF SpawnLocally
  <1> QED
    BY <1>1, <1>2, <1>3, <1>4, <1>5 DEF ConnectionStep

LEMMA LosesType ==
    ASSUME EndpointOK, NEW W, LoseWorkers(W)
    PROVE  /\ pool' \in [Wids -> Clients \cup {Nobody}] /\ info' \in [Threads -> Statuses]
           /\ log' \in [Threads -> Seq(Kinds)]
  <1>1. \A t \in Threads : Append(log[t], "lost") \in Seq(Kinds)
    BY DEF EndpointOK, Kinds
  <1> QED
    BY <1>1 DEF EndpointOK, LoseWorkers, Statuses

LEMMA RelayType ==
    ASSUME EndpointOK, NEW r, NEW d \in Clients \cup {Nobody}, RelayTo(r, d)
    PROVE  /\ relay' \in [Requests -> {"none", "waiting", "value", "error", "orphan", "done"}]
           /\ via' \in [Requests -> Clients \cup {Nobody}]
  <1>1. CASE relay' = [relay EXCEPT ![r] = "waiting"] /\ via' = [via EXCEPT ![r] = d]
    BY <1>1 DEF EndpointOK
  <1>2. CASE relay' = [relay EXCEPT ![r] = "error"] /\ via' = via
    BY <1>2 DEF EndpointOK
  <1> QED
    BY <1>1, <1>2 DEF RelayTo

\* A request that was made has a target.
LEMMA MadeHasTarget ==
    ASSUME MadeBefore, NEW r \in Requests, op[r] # "none"
    PROVE  target[r] \in Threads /\ op[r] \in Ops
  BY DEF MadeBefore

\* The call that the endpoint takes, and the one that a client takes, was made.
LEMMA TakenCall ==
    ASSUME Typed, MadeBefore, NEW c \in Clients, Takes(c, "call")
    PROVE  \E r \in Requests : r = Head(up[c]).about /\ op[r] # "none" /\ target[r] \in Threads /\ op[r] \in Ops
  <1>1. up[c] \in Seq(UpFrame) /\ up[c] # <<>> /\ Is(Head(up[c]), "call")
    BY DEF Typed, WireOK, Takes
  <1>2. 1 \in DOMAIN up[c] /\ Head(up[c]) = up[c][1] /\ Head(up[c]) \in UpFrame
    BY <1>1
  <1>3. PICK r \in Requests : r = Head(up[c]).about
    BY <1>1, <1>2, UpAbout
  <1>4. op[r] # "none"
    BY <1>1, <1>2, <1>3 DEF MadeBefore
  <1> QED
    BY <1>3, <1>4, MadeHasTarget

LEMMA GotCall ==
    ASSUME Typed, MadeBefore, NEW c \in Clients, Gets(c, "call")
    PROVE  \E r \in Requests : r = Head(down[c]).about /\ op[r] # "none" /\ target[r] \in Threads /\ op[r] \in Ops
  <1>1. down[c] \in Seq(DownFrame) /\ down[c] # <<>> /\ Is(Head(down[c]), "call")
    BY DEF Typed, WireOK, Gets
  <1>2. 1 \in DOMAIN down[c] /\ Head(down[c]) = down[c][1] /\ Head(down[c]) \in DownFrame
    BY <1>1
  <1>3. PICK r \in Requests : r = Head(down[c]).about
    BY <1>1, <1>2, DownAbout
  <1>4. op[r] # "none"
    BY <1>1, <1>2, <1>3 DEF MadeBefore
  <1> QED
    BY <1>3, <1>4, MadeHasTarget

LEMMA ServerType ==
    ASSUME Typed, MadeBefore, NEW c \in Clients, ServerStep(c)
    PROVE  Typed'
  <1> USE DEF Typed, WireOK, EndpointOK, ClientsOK, relayVars, workerVars, callerVars
  <1> DEFINE f == Head(up[c])
  <1>1. CASE TakeRegister(c)
    <2>1. up' \in [Clients -> Seq(UpFrame)] /\ f.about \in Wids
      BY <1>1, TakenType, UpAbout DEF TakeRegister
    <2>2. down' \in [Clients -> Seq(DownFrame)]
      BY <1>1, <2>1, DownFrames, SentOne DEF TakeRegister
    <2> QED
      BY <1>1, <2>1, <2>2 DEF TakeRegister
  <1>2. CASE TakeDeregister(c)
    <2>1. up' \in [Clients -> Seq(UpFrame)] /\ f.about \in Wids
      BY <1>2, TakenType, UpAbout DEF TakeDeregister
    <2> QED
      BY <1>2, <2>1, LosesType DEF TakeDeregister
  <1>3. CASE TakeThread(c)
    <2>1. up' \in [Clients -> Seq(UpFrame)] /\ f.about \in Threads
      BY <1>3, TakenType, UpAbout DEF TakeThread
    <2>2. down' \in [Clients -> Seq(DownFrame)]
      BY <1>3, <2>1, DownFrames, SentOne DEF TakeThread
    <2> QED
      BY <1>3, <2>1, <2>2 DEF TakeThread, Statuses
  <1>4. CASE TakeThreadGone(c)
    <2>1. up' \in [Clients -> Seq(UpFrame)]
      BY <1>4, TakenType DEF TakeThreadGone
    <2> QED
      BY <1>4, <2>1 DEF TakeThreadGone, Statuses
  <1>5. CASE TakeEvent(c)
    <2>1. up' \in [Clients -> Seq(UpFrame)] /\ f.about \in Threads /\ f.event \in Kinds
      BY <1>5, TakenType, UpAbout DEF TakeEvent
    <2>2. log' \in [Threads -> Seq(Kinds)]
      <3>1. Append(log[f.about], f.event) \in Seq(Kinds)
        BY <2>1
      <3> QED
        BY <1>5, <3>1 DEF TakeEvent
    <2>3. info' \in [Threads -> Statuses]
      BY <1>5, <2>1, AfterType DEF TakeEvent
    <2> QED
      BY <1>5, <2>1, <2>2, <2>3 DEF TakeEvent
  <1>6. CASE TakeCall(c)
    <2>1. up' \in [Clients -> Seq(UpFrame)] /\ f.about \in Requests
      BY <1>6, TakenType, UpAbout DEF TakeCall
    <2>2. target[f.about] \in Threads
      BY <1>6, TakenCall DEF TakeCall
    <2>3. PICK d \in Clients \cup {Nobody} : RelayTo(f.about, d)
      BY <1>6, <2>1, <2>2 DEF TakeCall, MadeBefore
    <2>4. /\ relay' \in [Requests -> {"none", "waiting", "value", "error", "orphan", "done"}]
          /\ via' \in [Requests -> Clients \cup {Nobody}]
      BY <2>3, RelayType
    <2>5. down' \in [Clients -> Seq(DownFrame)]
      <3>1. CASE down' = down
        BY <3>1
      <3>2. CASE down' = Sent(down, d, <<CallFrame(f.about)>>)
        BY <2>1, <3>2, DownFrames, SentOne
      <3> QED
        BY <2>3, <3>1, <3>2 DEF RelayTo
    <2>6. info' \in [Threads -> Statuses] /\ on' \in [Threads -> Wids \cup {Nobody}]
      <3>1. CASE UNCHANGED <<info, on>>
        BY <3>1
      <3>2. ASSUME NEW w \in Wids, info' = [info EXCEPT ![target[f.about]] = "not_started"],
                   on' = [on EXCEPT ![target[f.about]] = w]
            PROVE  info' \in [Threads -> Statuses] /\ on' \in [Threads -> Wids \cup {Nobody}]
        BY <2>2, <3>2 DEF Statuses
      <3> QED
        BY <1>6, <3>1, <3>2 DEF TakeCall
    <2> QED
      BY <1>6, <2>1, <2>4, <2>5, <2>6 DEF TakeCall
  <1>7. CASE TakeAnswer(c)
    <2>1. up' \in [Clients -> Seq(UpFrame)] /\ f.about \in Requests
      BY <1>7, TakenType, UpAbout DEF TakeAnswer
    <2> QED
      BY <1>7, <2>1 DEF TakeAnswer, Statuses
  <1>8. CASE ServerCloses(c)
    BY <1>8 DEF ServerCloses, coordVars
  <1>9. CASE Cleanup(c)
    BY <1>9, LosesType DEF Cleanup
  <1> QED
    BY <1>1, <1>2, <1>3, <1>4, <1>5, <1>6, <1>7, <1>8, <1>9 DEF ServerStep

\* The ways a worker can answer a call.
AnswersCall(c, r, t) ==
    /\ \/ up' = up \/ ClientSends(c, <<Answer(r, TRUE)>>) \/ ClientSends(c, <<Answer(r, FALSE)>>)
       \/ ClientSends(c, <<Answer(r, TRUE), EventFrame(t, "cancelled")>>)
    /\ \/ UNCHANGED <<home, stage>>
       \/ home' = [home EXCEPT ![t] = c] /\ stage' = [stage EXCEPT ![t] = "hosted"]
    /\ queue' = queue \/ queue' = [queue EXCEPT ![t] = Append(queue[t], r)]
    /\ cycle' = cycle \/ cycle' = [cycle EXCEPT ![t] = Nobody]

LEMMA GetCallAnswers ==
    ASSUME NEW c, NEW r, NEW t, r = Head(down[c]).about, t = target[r],
           op[r] \in {"spawn", "submit", "cancel", "pause", "terminate"}, GetCall(c)
    PROVE  AnswersCall(c, r, t)
  <1>1. CASE op[r] = "spawn"
    <2>1. queue' = queue /\ cycle' = cycle
      BY <1>1 DEF GetCall
    <2>2. ClientSends(c, <<Answer(r, TRUE)>>) \/ ClientSends(c, <<Answer(r, FALSE)>>)
      BY <1>1 DEF GetCall, Replies
    <2>3. \/ UNCHANGED <<home, stage>>
          \/ home' = [home EXCEPT ![t] = c] /\ stage' = [stage EXCEPT ![t] = "hosted"]
      BY <1>1 DEF GetCall
    <2> QED
      BY <2>1, <2>2, <2>3 DEF AnswersCall
  <1>2. CASE op[r] # "spawn" /\ ~Hosts(c, t)
    <2>1. UNCHANGED <<home, stage>> /\ queue' = queue /\ cycle' = cycle /\ ClientSends(c, <<Answer(r, FALSE)>>)
      BY <1>2 DEF GetCall, Replies
    <2> QED
      BY <2>1 DEF AnswersCall
  <1>3. CASE op[r] \in {"submit", "terminate"} /\ Hosts(c, t)
    <2>1. UNCHANGED <<home, stage>> /\ cycle' = cycle /\ queue' = [queue EXCEPT ![t] = Append(queue[t], r)]
      BY <1>3 DEF GetCall
    <2>2. up' = up \/ ClientSends(c, <<Answer(r, TRUE)>>)
      BY <1>3 DEF GetCall, Replies
    <2> QED
      BY <2>1, <2>2 DEF AnswersCall
  <1>4. CASE op[r] = "pause" /\ Hosts(c, t)
    <2>1. UNCHANGED <<home, stage>> /\ queue' = queue /\ cycle' = cycle /\ ClientSends(c, <<Answer(r, TRUE)>>)
      BY <1>4 DEF GetCall, Replies
    <2> QED
      BY <2>1 DEF AnswersCall
  <1>5. CASE op[r] = "cancel" /\ Hosts(c, t)
    <2>1. UNCHANGED <<home, stage>> /\ queue' = queue
      BY <1>5 DEF GetCall
    <2>2. \/ ClientSends(c, <<Answer(r, TRUE)>>) /\ cycle' = cycle
          \/ /\ cycle' = [cycle EXCEPT ![t] = Nobody]
             /\ ClientSends(c, <<Answer(r, TRUE), EventFrame(t, "cancelled")>>)
      BY <1>5 DEF GetCall, Replies
    <2> QED
      BY <2>1, <2>2 DEF AnswersCall
  <1> QED
    BY <1>1, <1>2, <1>3, <1>4, <1>5

LEMMA GetCallCases ==
    ASSUME Typed, MadeBefore, NEW c \in Clients, GetCall(c)
    PROVE  \E r \in Requests : \E t \in Threads :
              r = Head(down[c]).about /\ t = target[r] /\ AnswersCall(c, r, t)
  <1>1. Gets(c, "call")
    BY DEF GetCall
  <1>2. PICK r \in Requests : r = Head(down[c]).about /\ target[r] \in Threads /\ op[r] \in Ops
    BY <1>1, GotCall
  <1>3. AnswersCall(c, r, target[r])
    BY <1>2, GetCallAnswers, RemoteAssumption
  <1> QED
    BY <1>2, <1>3

LEMMA ClientType ==
    ASSUME Typed, MadeBefore, NEW c \in Clients, ClientStep(c)
    PROVE  Typed'
  <1>1. CASE GetAnswer(c)
    <2>1. down' \in [Clients -> Seq(DownFrame)]
      BY <1>1, GotType DEF GetAnswer, Typed, WireOK
    <2>2. /\ joined' \in [Clients -> {"no", "asked", "yes", "out"}]
          /\ stage' \in [Threads -> {"new", "asked", "hosted", "gone", "refused"}]
          /\ fut' \in [Requests -> {"new", "pending", "value", "error"}]
      BY <1>1 DEF GetAnswer, Typed, ClientsOK
    <2> QED
      BY <1>1, <2>1, <2>2 DEF GetAnswer, Typed, WireOK, EndpointOK, ClientsOK, coordVars, relayVars
  <1>2. CASE ClientCloses(c)
    BY <1>2 DEF ClientCloses, Typed, WireOK, EndpointOK, ClientsOK, coordVars, relayVars
  <1>3. CASE GetCall(c)
    <2>1. PICK r \in Requests, t \in Threads :
              r = Head(down[c]).about /\ t = target[r] /\ AnswersCall(c, r, t)
      BY <1>3, GetCallCases
    <2>2. down' \in [Clients -> Seq(DownFrame)]
      BY <1>3, GotType DEF GetCall, Typed, WireOK
    <2>3. up' \in [Clients -> Seq(UpFrame)]
      <3>1. "cancelled" \in Kinds /\ up \in [Clients -> Seq(UpFrame)]
        BY DEF Kinds, Typed, WireOK
      <3>2. CASE ClientSends(c, <<Answer(r, TRUE), EventFrame(t, "cancelled")>>)
        BY <3>1, <3>2, UpFrames, ClientSendsTwo
      <3>3. CASE ClientSends(c, <<Answer(r, TRUE)>>) \/ ClientSends(c, <<Answer(r, FALSE)>>)
        BY <3>1, <3>3, UpFrames, ClientSendsOne
      <3> QED
        BY <2>1, <3>1, <3>2, <3>3 DEF AnswersCall
    <2>4. /\ home' \in [Threads -> Clients \cup {Nobody}]
          /\ stage' \in [Threads -> {"new", "asked", "hosted", "gone", "refused"}]
      <3>1. CASE UNCHANGED <<home, stage>>
        BY <3>1 DEF Typed, ClientsOK
      <3>2. CASE home' = [home EXCEPT ![t] = c] /\ stage' = [stage EXCEPT ![t] = "hosted"]
        BY <3>2 DEF Typed, ClientsOK
      <3> QED
        BY <2>1, <3>1, <3>2 DEF AnswersCall
    <2>5. queue' \in [Threads -> Seq(Requests)]
      <3>1. queue \in [Threads -> Seq(Requests)] /\ Append(queue[t], r) \in Seq(Requests)
        BY DEF Typed, ClientsOK
      <3>2. CASE queue' = [queue EXCEPT ![t] = Append(queue[t], r)]
        BY <3>1, <3>2
      <3> QED
        BY <2>1, <3>1, <3>2 DEF AnswersCall
    <2>6. cycle' \in [Threads -> Requests \cup {Nobody}]
      <3>1. CASE cycle' = [cycle EXCEPT ![t] = Nobody]
        BY <3>1 DEF Typed, ClientsOK
      <3> QED
        BY <2>1, <3>1 DEF AnswersCall, Typed, ClientsOK
    <2> QED
      BY <1>3, <2>2, <2>3, <2>4, <2>5, <2>6
         DEF GetCall, Typed, WireOK, EndpointOK, ClientsOK, coordVars, relayVars, callerVars
  <1> QED
    BY <1>1, <1>2, <1>3 DEF ClientStep

LEMMA ThreadType ==
    ASSUME Typed, NEW t \in Threads, ThreadStep(t)
    PROVE  Typed'
  <1>1. /\ up \in [Clients -> Seq(UpFrame)] /\ {"started", "completed", "failed"} \subseteq Kinds
        /\ queue \in [Threads -> Seq(Requests)] /\ cycle \in [Threads -> Requests \cup {Nobody}]
    BY DEF Typed, WireOK, ClientsOK, Kinds
  <1>2. CASE Begin(t)
    <2>1. queue[t] \in Seq(Requests) /\ queue[t] # <<>>
      BY <1>1, <1>2 DEF Begin
    <2>2. Tail(queue[t]) \in Seq(Requests) /\ Head(queue[t]) \in Requests
      BY <2>1
    <2>3. queue' \in [Threads -> Seq(Requests)] /\ cycle' \in [Threads -> Requests \cup {Nobody}]
      BY <1>1, <1>2, <2>2 DEF Begin
    <2>4. up' \in [Clients -> Seq(UpFrame)]
      BY <1>1, <1>2, UpFrames, ClientSendsOne DEF Begin
    <2> QED
      BY <1>2, <2>3, <2>4 DEF Begin, Typed, WireOK, EndpointOK, ClientsOK, coordVars, relayVars, callerVars
  <1>3. CASE End(t)
    <2>1. cycle[t] \in Requests
      BY <1>1, <1>3 DEF End
    <2>2. PICK ok \in BOOLEAN, e \in Kinds : ClientSends(home[t], <<Answer(cycle[t], ok), EventFrame(t, e)>>)
      BY <1>1, <1>3 DEF End
    <2>3. up' \in [Clients -> Seq(UpFrame)]
      BY <1>1, <2>1, <2>2, UpFrames, ClientSendsTwo
    <2> QED
      BY <1>3, <2>3 DEF End, Typed, WireOK, EndpointOK, ClientsOK, coordVars, relayVars, callerVars
  <1>4. CASE TearDown(t)
    <2>1. up' \in [Clients -> Seq(UpFrame)]
      BY <1>1, <1>4, UpFrames, ClientSendsOne DEF TearDown
    <2> QED
      BY <1>4, <2>1 DEF TearDown, Typed, WireOK, EndpointOK, ClientsOK, coordVars, relayVars, callerVars
  <1> QED
    BY <1>2, <1>3, <1>4 DEF ThreadStep

LEMMA RequestType ==
    ASSUME Typed, NEW r \in Requests, Relayed(r) \/ Issue(r)
    PROVE  Typed'
  <1>1. up \in [Clients -> Seq(UpFrame)] /\ down \in [Clients -> Seq(DownFrame)]
    BY DEF Typed, WireOK
  <1>2. CASE Relayed(r)
    <2>1. down' \in [Clients -> Seq(DownFrame)]
      <3>1. Answer(r, relay[r] = "value") \in DownFrame
        BY DownFrames
      <3> QED
        BY <1>1, <1>2, <3>1, SentOne DEF Relayed
    <2> QED
      BY <1>2, <2>1 DEF Relayed, Typed, WireOK, EndpointOK, ClientsOK, coordVars, workerVars, callerVars
  <1>3. CASE Issue(r)
    <2>1. PICK c \in Clients, o \in Ops, t \in Threads :
              /\ by' = [by EXCEPT ![r] = c] /\ op' = [op EXCEPT ![r] = o]
              /\ target' = [target EXCEPT ![r] = t]
              /\ fut' = [fut EXCEPT ![r] = IF client[c] = "open" THEN "pending" ELSE "error"]
              /\ ClientSends(c, <<CallFrame(r)>>)
      BY <1>3 DEF Issue
    <2>2. up' \in [Clients -> Seq(UpFrame)]
      BY <1>1, <2>1, UpFrames, ClientSendsOne
    <2> QED
      BY <1>3, <2>1, <2>2 DEF Issue, Typed, WireOK, EndpointOK, ClientsOK, coordVars, relayVars, workerVars
  <1> QED
    BY <1>2, <1>3

LEMMA TypedStep ==
    ASSUME Typed, MadeBefore, [Next]_vars
    PROVE  Typed'
  <1>1. CASE UNCHANGED vars
    BY <1>1 DEF vars, wireVars, coordVars, relayVars, workerVars, callerVars, Typed, WireOK, EndpointOK, ClientsOK
  <1> QED
    BY <1>1, ConnectionType, ServerType, ClientType, ThreadType, RequestType DEF Next
----------------------------------------------------------------------------
(* What moves on the wire.  Most steps put frames on it that neither call  *)
(* nor register a thread, and take at most the first frame of a connection.*)

Quiet(f) == ~Is(f, "thread") /\ ~Is(f, "call")

QuietUp ==
    \A d \in Clients : \E k \in Nat : \A i \in DOMAIN up'[d] :
        (i + k \in DOMAIN up[d] /\ up'[d][i] = up[d][i + k]) \/ Quiet(up'[d][i])

LEMMA QuietFrames ==
    /\ \A w : Quiet(WorkerFrame("register", w)) /\ Quiet(WorkerFrame("deregister", w))
    /\ \A t : Quiet(ThreadFrame("unthread", t))
    /\ \A t, e : Quiet(EventFrame(t, e))
    /\ \A r, ok : Quiet(Answer(r, ok))
  BY DEF Quiet, Is, WorkerFrame, ThreadFrame, EventFrame, Answer

LEMMA QuietExtends ==
    ASSUME WireOK, NEW F, \A f \in F : Quiet(f), Extends(up, up', F)
    PROVE  QuietUp
  <1> SUFFICES ASSUME NEW d \in Clients, NEW i \in DOMAIN up'[d]
               PROVE  (i + 0 \in DOMAIN up[d] /\ up'[d][i] = up[d][i + 0]) \/ Quiet(up'[d][i])
    BY DEF QuietUp
  <1>1. up[d] \in Seq(UpFrame)
    BY DEF WireOK
  <1>2. CASE i \in DOMAIN up[d] /\ up'[d][i] = up[d][i]
    <2>1. i + 0 = i
      BY <1>1, <1>2
    <2> QED
      BY <1>2, <2>1
  <1> QED
    BY <1>2 DEF Extends

LEMMA QuietSame ==
    ASSUME WireOK, up' = up
    PROVE  QuietUp
  <1>1. Extends(up, up', {})
    BY DEF Extends
  <1> QED
    BY <1>1, QuietExtends

LEMMA QuietTaken ==
    ASSUME WireOK, NEW c \in Clients, up[c] # <<>>, Taken(c)
    PROVE  QuietUp
  <1> SUFFICES ASSUME NEW d \in Clients
               PROVE  \E k \in Nat : \A i \in DOMAIN up'[d] : i + k \in DOMAIN up[d] /\ up'[d][i] = up[d][i + k]
    BY DEF QuietUp
  <1>1. up[d] \in Seq(UpFrame) /\ up'[d] = IF d = c THEN Tail(up[c]) ELSE up[d]
    BY DEF WireOK, Taken
  <1>2. CASE d = c
    <2>1. \A i \in DOMAIN Tail(up[d]) : i + 1 \in DOMAIN up[d] /\ Tail(up[d])[i] = up[d][i + 1]
      BY <1>1, <1>2
    <2> QED
      BY <1>1, <1>2, <2>1
  <1>3. CASE d # c
    <2>1. \A i \in DOMAIN up[d] : i + 0 = i
      BY <1>1
    <2> QED
      BY <1>1, <1>3, <2>1
  <1> QED
    BY <1>2, <1>3

LEMMA QuietSends ==
    ASSUME WireOK, NEW x, NEW f \in UpFrame, NEW g \in UpFrame, Quiet(f), Quiet(g),
           \/ ClientSends(x, <<f>>)
           \/ ClientSends(x, <<f, g>>)
    PROVE  QuietUp
  <1>1. Extends(up, up', {f, g})
    <2>1. up \in [Clients -> Seq(UpFrame)]
      BY DEF WireOK
    <2>2. Extends(up, up', {f}) \/ Extends(up, up', {f, g})
      BY <2>1, ClientSendsOne, ClientSendsTwo
    <2> QED
      BY <2>2 DEF Extends
  <1> QED
    BY <1>1, QuietExtends

\* Only a new thread and a new call put another kind of frame on the wire.
LEMMA QuietConnection ==
    ASSUME Typed, NEW c \in Clients, Connect(c) \/ Join(c) \/ Leave(c) \/ Drop(c)
    PROVE  QuietUp
  <1> USE DEF Typed
  <1>1. CASE Connect(c)
    BY <1>1, QuietSame DEF Connect
  <1>2. CASE Join(c)
    <2>1. wid[c] \in Wids /\ ClientSends(c, <<WorkerFrame("register", wid[c])>>)
      BY <1>2 DEF Join, ClientsOK
    <2> QED
      BY <2>1, UpFrames, QuietFrames, QuietSends
  <1>3. CASE Leave(c)
    <2>1. wid[c] \in Wids /\ ClientSends(c, <<WorkerFrame("deregister", wid[c])>>)
      BY <1>3 DEF Leave, ClientsOK
    <2> QED
      BY <2>1, UpFrames, QuietFrames, QuietSends
  <1>4. CASE Drop(c)
    <2>1. PICK n \in 0 .. Len(up[c]) : up' = [up EXCEPT ![c] = SubSeq(up[c], 1, n)]
      BY <1>4 DEF Drop
    <2>2. up \in [Clients -> Seq(UpFrame)] /\ up[c] \in Seq(UpFrame)
      BY DEF WireOK
    <2>3. \A i \in DOMAIN SubSeq(up[c], 1, n) : i \in DOMAIN up[c] /\ SubSeq(up[c], 1, n)[i] = up[c][i]
      BY <2>2
    <2>4. Extends(up, up', {})
      BY <2>1, <2>2, <2>3 DEF Extends
    <2> QED
      BY <2>4, QuietExtends
  <1> QED
    BY <1>1, <1>2, <1>3, <1>4

LEMMA QuietServer ==
    ASSUME Typed, NEW c \in Clients, ServerStep(c)
    PROVE  QuietUp
  <1> USE DEF Typed
  <1>1. CASE up' = up
    BY <1>1, QuietSame
  <1>2. CASE up[c] # <<>> /\ Taken(c)
    BY <1>2, QuietTaken
  <1> QED
    BY <1>1, <1>2 DEF ServerStep, Takes, TakeRegister, TakeDeregister, TakeThread, TakeThreadGone,
         TakeEvent, TakeCall, TakeAnswer, ServerCloses, Cleanup

LEMMA QuietClient ==
    ASSUME Typed, MadeBefore, NEW c \in Clients, ClientStep(c)
    PROVE  QuietUp
  <1>0. WireOK /\ "cancelled" \in Kinds
    BY DEF Typed, Kinds
  <1>1. CASE GetAnswer(c)
    BY <1>0, <1>1, QuietSame DEF GetAnswer
  <1>2. CASE ClientCloses(c)
    BY <1>0, <1>2, QuietSame DEF ClientCloses
  <1>3. CASE GetCall(c)
    <2>1. PICK r \in Requests, t \in Threads : AnswersCall(c, r, t)
      BY <1>3, GetCallCases
    <2>2. /\ Answer(r, TRUE) \in UpFrame /\ Answer(r, FALSE) \in UpFrame /\ EventFrame(t, "cancelled") \in UpFrame
          /\ Quiet(Answer(r, TRUE)) /\ Quiet(Answer(r, FALSE)) /\ Quiet(EventFrame(t, "cancelled"))
      BY <1>0, UpFrames, QuietFrames
    <2>3. CASE up' = up
      BY <1>0, <2>3, QuietSame
    <2>4. CASE ClientSends(c, <<Answer(r, TRUE)>>)
      BY <1>0, <2>2, <2>4, QuietSends
    <2>5. CASE ClientSends(c, <<Answer(r, FALSE)>>)
      BY <1>0, <2>2, <2>5, QuietSends
    <2>6. CASE ClientSends(c, <<Answer(r, TRUE), EventFrame(t, "cancelled")>>)
      BY <1>0, <2>2, <2>6, QuietSends
    <2> QED
      BY <2>1, <2>3, <2>4, <2>5, <2>6 DEF AnswersCall
  <1> QED
    BY <1>1, <1>2, <1>3 DEF ClientStep

LEMMA QuietThread ==
    ASSUME Typed, NEW t \in Threads, ThreadStep(t)
    PROVE  QuietUp
  <1>0. WireOK /\ {"started", "completed", "failed"} \subseteq Kinds
    BY DEF Typed, Kinds
  <1>1. CASE Begin(t)
    <2>1. ClientSends(home[t], <<EventFrame(t, "started")>>)
      BY <1>1 DEF Begin
    <2> QED
      BY <1>0, <2>1, UpFrames, QuietFrames, QuietSends
  <1>2. CASE End(t)
    <2>1. cycle[t] \in Requests
      BY <1>2 DEF End, Typed, ClientsOK
    <2>2. PICK ok \in BOOLEAN, e \in Kinds : ClientSends(home[t], <<Answer(cycle[t], ok), EventFrame(t, e)>>)
      BY <1>0, <1>2 DEF End
    <2> QED
      BY <1>0, <2>1, <2>2, UpFrames, QuietFrames, QuietSends
  <1>3. CASE TearDown(t)
    <2>1. ClientSends(home[t], <<ThreadFrame("unthread", t)>>)
      BY <1>3 DEF TearDown
    <2> QED
      BY <1>0, <2>1, UpFrames, QuietFrames, QuietSends
  <1> QED
    BY <1>1, <1>2, <1>3 DEF ThreadStep

\* A call that an end of the wire finds in front of it was there before, or is
\* about a request that was made.
DownAsked ==
    \A d \in Clients : \A i \in DOMAIN down'[d] : Is(down'[d][i], "call") =>
        op[down'[d][i].about] # "none" \/ \E j \in DOMAIN down[d] : down[d][j] = down'[d][i]

LEMMA AskedExtends ==
    ASSUME NEW F, Extends(down, down', F), \A f \in F : Is(f, "call") => op[f.about] # "none"
    PROVE  DownAsked
  BY DEF DownAsked, Extends

LEMMA AskedAnswer ==
    ASSUME WireOK, NEW x, NEW a \in Wids \cup Threads \cup Requests, NEW ok \in BOOLEAN,
           down' = Sent(down, x, <<Answer(a, ok)>>)
    PROVE  DownAsked
  <1>1. Answer(a, ok) \in DownFrame /\ ~Is(Answer(a, ok), "call")
    BY DownFrames DEF Answer, Is
  <1>2. Extends(down, down', {Answer(a, ok)})
    BY <1>1, SentOne DEF WireOK
  <1> QED
    BY <1>1, <1>2, AskedExtends

LEMMA AskedGot ==
    ASSUME WireOK, NEW c \in Clients, down[c] # <<>>, Got(c)
    PROVE  DownAsked
  <1> SUFFICES ASSUME NEW d \in Clients, NEW i \in DOMAIN down'[d]
               PROVE  \E j \in DOMAIN down[d] : down[d][j] = down'[d][i]
    BY DEF DownAsked
  <1>1. down[d] \in Seq(DownFrame) /\ down'[d] = IF d = c THEN Tail(down[c]) ELSE down[d]
    BY DEF WireOK, Got
  <1>2. CASE d = c
    <2>1. i + 1 \in DOMAIN down[d] /\ down'[d][i] = down[d][i + 1]
      BY <1>1, <1>2
    <2> QED
      BY <2>1
  <1> QED
    BY <1>1, <1>2

LEMMA AskedStep ==
    ASSUME Typed, MadeBefore, Next
    PROVE  DownAsked
  <1> USE DEF Typed
  <1>0. CASE down' = down
    BY <1>0 DEF DownAsked
  <1>1. ASSUME NEW c \in Clients, Drop(c)
        PROVE  DownAsked
    <2>1. PICK n \in 0 .. Len(down[c]) : down' = [down EXCEPT ![c] = SubSeq(down[c], 1, n)]
      BY <1>1 DEF Drop
    <2>2. down \in [Clients -> Seq(DownFrame)] /\ down[c] \in Seq(DownFrame)
      BY DEF WireOK
    <2>3. \A i \in DOMAIN SubSeq(down[c], 1, n) : i \in DOMAIN down[c] /\ SubSeq(down[c], 1, n)[i] = down[c][i]
      BY <2>2
    <2>4. Extends(down, down', {})
      BY <2>1, <2>2, <2>3 DEF Extends
    <2> QED
      BY <2>4, AskedExtends
  <1>2. ASSUME NEW c \in Clients, TakeRegister(c)
        PROVE  DownAsked
    <2>1. Head(up[c]).about \in Wids
      BY <1>2, TakenType, UpAbout DEF TakeRegister, WireOK
    <2> QED
      BY <1>2, <2>1, AskedAnswer DEF TakeRegister
  <1>3. ASSUME NEW c \in Clients, TakeThread(c)
        PROVE  DownAsked
    <2>1. Head(up[c]).about \in Threads
      BY <1>3, TakenType, UpAbout DEF TakeThread, WireOK
    <2> QED
      BY <1>3, <2>1, AskedAnswer DEF TakeThread
  <1>4. ASSUME NEW c \in Clients, TakeCall(c)
        PROVE  DownAsked
    <2>1. Takes(c, "call")
      BY <1>4 DEF TakeCall
    <2>2. PICK r \in Requests : r = Head(up[c]).about /\ op[r] # "none"
      BY <2>1, TakenCall
    <2>3. PICK d : RelayTo(r, d)
      BY <1>4, <2>2 DEF TakeCall
    <2>4. CASE down' = Sent(down, d, <<CallFrame(r)>>)
      <3>1. CallFrame(r) \in DownFrame /\ CallFrame(r).about = r
        BY <2>2, DownFrames DEF CallFrame
      <3>2. Extends(down, down', {CallFrame(r)})
        BY <2>4, <3>1, SentOne DEF WireOK
      <3> QED
        BY <2>2, <3>1, <3>2, AskedExtends
    <2> QED
      BY <1>0, <2>3, <2>4 DEF RelayTo
  <1>5. ASSUME NEW r \in Requests, Relayed(r)
        PROVE  DownAsked
    <2>1. CASE down' = Sent(down, by[r], <<Answer(r, relay[r] = "value")>>)
      BY <2>1, AskedAnswer
    <2> QED
      BY <1>0, <1>5, <2>1 DEF Relayed
  <1>6. ASSUME NEW c \in Clients, down[c] # <<>>, Got(c)
        PROVE  DownAsked
    BY <1>6, AskedGot
  <1>7. ASSUME NEW c \in Clients, ConnectionStep(c)
        PROVE  DownAsked
    BY <1>0, <1>1, <1>7 DEF ConnectionStep, Connect, Join, Leave, SpawnLocally
  <1>8. ASSUME NEW c \in Clients, ServerStep(c)
        PROVE  DownAsked
    BY <1>0, <1>2, <1>3, <1>4, <1>8
       DEF ServerStep, TakeDeregister, TakeThreadGone, TakeEvent, TakeAnswer, ServerCloses, Cleanup
  <1>9. ASSUME NEW c \in Clients, ClientStep(c)
        PROVE  DownAsked
    BY <1>0, <1>6, <1>9 DEF ClientStep, GetAnswer, GetCall, ClientCloses, Gets
  <1>10. ASSUME NEW t \in Threads, ThreadStep(t)
         PROVE  DownAsked
    BY <1>0, <1>10 DEF ThreadStep, Begin, End, TearDown
  <1>11. ASSUME NEW r \in Requests, Issue(r)
         PROVE  DownAsked
    BY <1>0, <1>11 DEF Issue
  <1> QED
    BY <1>5, <1>7, <1>8, <1>9, <1>10, <1>11 DEF Next

----------------------------------------------------------------------------
(* What the endpoint's table of threads can do in a step.                  *)

\* The frames that make the endpoint list a thread.
Brings(f, t) ==
    \/ Is(f, "thread") /\ f.about = t
    \/ Is(f, "call") /\ op[f.about] = "spawn" /\ target[f.about] = t

Enters(t) == on'[t] \in Wids /\ \E c \in Clients : up[c] # <<>> /\ Taken(c) /\ Brings(Head(up[c]), t)

\* The status of t stays or t leaves the table; a thread that is alive may
\* change it; or t is new.
InfoMoves ==
    \A t \in Threads :
        \/ on'[t] = on[t] /\ (info'[t] \in {info[t], "absent"} \/ info[t] \notin {"absent", "failed"})
        \/ Enters(t)

LEMMA InfoSame ==
    ASSUME info' = info, on' = on
    PROVE  InfoMoves
  BY DEF InfoMoves

LEMMA InfoLoses ==
    ASSUME Typed, NEW W, LoseWorkers(W), on' = on
    PROVE  InfoMoves
  BY DEF Typed, EndpointOK, InfoMoves, LoseWorkers, Orphans

LEMMA InfoServer ==
    ASSUME Typed, MadeBefore, NEW c \in Clients, ServerStep(c)
    PROVE  InfoMoves
  <1> USE DEF Typed, EndpointOK
  <1>1. CASE TakeRegister(c) \/ ServerCloses(c)
    BY <1>1, InfoSame DEF TakeRegister, ServerCloses, coordVars
  <1>2. CASE TakeDeregister(c) \/ Cleanup(c)
    BY <1>2, InfoLoses DEF TakeDeregister, Cleanup
  <1>3. CASE TakeThread(c)
    <2>1. PICK t \in Threads : t = Head(up[c]).about
      BY <1>3, TakenType, UpAbout DEF TakeThread, WireOK
    <2>2. up[c] # <<>> /\ Taken(c) /\ Brings(Head(up[c]), t)
      BY <1>3, <2>1 DEF TakeThread, Takes, Brings
    <2>3. CASE info' = [info EXCEPT ![t] = "not_started"] /\ on' = [on EXCEPT ![t] = wid[c]]
      <3>1. wid[c] \in Wids
        BY DEF ClientsOK
      <3>2. Enters(t)
        BY <2>2, <2>3, <3>1 DEF Enters
      <3> QED
        BY <2>3, <3>2 DEF InfoMoves
    <2> QED
      BY <1>3, <2>1, <2>3, InfoSame DEF TakeThread
  <1>4. CASE TakeThreadGone(c)
    BY <1>4 DEF TakeThreadGone, InfoMoves
  <1>5. CASE TakeEvent(c)
    <2>1. \A e, s : s \in {"absent", "failed"} => After(s, e) = s
      BY DEF After
    <2> QED
      BY <1>5, <2>1 DEF TakeEvent, InfoMoves
  <1>6. CASE TakeCall(c)
    <2>1. Takes(c, "call")
      BY <1>6 DEF TakeCall
    <2>2. PICK r \in Requests : r = Head(up[c]).about /\ target[r] \in Threads
      BY <2>1, TakenCall
    <2>3. ASSUME NEW w \in Wids, op[r] = "spawn", info' = [info EXCEPT ![target[r]] = "not_started"],
                 on' = [on EXCEPT ![target[r]] = w]
          PROVE  InfoMoves
      <3>1. up[c] # <<>> /\ Taken(c) /\ Brings(Head(up[c]), target[r])
        BY <1>6, <2>2, <2>3 DEF TakeCall, Takes, Brings
      <3>2. Enters(target[r])
        BY <2>2, <2>3, <3>1 DEF Enters
      <3> QED
        BY <2>2, <2>3, <3>2 DEF InfoMoves
    <2>4. \/ UNCHANGED <<info, on>>
          \/ /\ op[r] = "spawn"
             /\ \E w \in Wids : /\ info' = [info EXCEPT ![target[r]] = "not_started"]
                                /\ on' = [on EXCEPT ![target[r]] = w]
      BY <1>6, <2>2 DEF TakeCall
    <2> QED
      BY <2>3, <2>4, InfoSame
  <1>7. CASE TakeAnswer(c)
    BY <1>7 DEF TakeAnswer, InfoMoves
  <1> QED
    BY <1>1, <1>2, <1>3, <1>4, <1>5, <1>6, <1>7 DEF ServerStep

LEMMA InfoStep ==
    ASSUME Typed, MadeBefore, Next
    PROVE  InfoMoves
  <1>1. ASSUME NEW c \in Clients, ConnectionStep(c) \/ ClientStep(c)
        PROVE  InfoMoves
    BY <1>1, InfoSame DEF ConnectionStep, Connect, Join, Leave, Drop, SpawnLocally, ClientStep,
       GetAnswer, GetCall, ClientCloses, coordVars
  <1>2. ASSUME NEW t \in Threads, ThreadStep(t)
        PROVE  InfoMoves
    BY <1>2, InfoSame DEF ThreadStep, Begin, End, TearDown, coordVars
  <1>3. ASSUME NEW r \in Requests, Relayed(r) \/ Issue(r)
        PROVE  InfoMoves
    BY <1>3, InfoSame DEF Relayed, Issue, coordVars
  <1> QED
    BY <1>1, <1>2, <1>3, InfoServer DEF Next

\* Only Issue makes a request; a step of anything else leaves the callers' part
\* of every request alone.
LEMMA CallersStay ==
    ASSUME Typed, MadeBefore, Next
    PROVE  \/ (\A r \in Requests : fut'[r] = "new" => fut[r] = "new") /\ op' = op /\ target' = target
           \/ \E r \in Requests : Issue(r)
  <1>1. ASSUME NEW c \in Clients, GetAnswer(c)
        PROVE  (\A r \in Requests : fut'[r] = "new" => fut[r] = "new") /\ op' = op /\ target' = target
    <2>1. fut \in [Requests -> {"new", "pending", "value", "error"}]
      BY DEF Typed, ClientsOK
    <2> QED
      BY <1>1, <2>1 DEF GetAnswer
  <1>2. ASSUME NEW c \in Clients, ClientCloses(c)
        PROVE  (\A r \in Requests : fut'[r] = "new" => fut[r] = "new") /\ op' = op /\ target' = target
    BY <1>2 DEF ClientCloses
  <1>3. ASSUME NEW c \in Clients, ConnectionStep(c) \/ ServerStep(c) \/ GetCall(c)
        PROVE  UNCHANGED callerVars
    BY <1>3 DEF ConnectionStep, Connect, Join, Leave, Drop, SpawnLocally, ServerStep, TakeRegister, GetCall,
       TakeDeregister, TakeThread, TakeThreadGone, TakeEvent, TakeCall, TakeAnswer, ServerCloses, Cleanup
  <1>4. ASSUME NEW t \in Threads, ThreadStep(t)
        PROVE  UNCHANGED callerVars
    BY <1>4 DEF ThreadStep, Begin, End, TearDown
  <1>5. ASSUME NEW r \in Requests, Relayed(r)
        PROVE  UNCHANGED callerVars
    BY <1>5 DEF Relayed
  <1> QED
    BY <1>1, <1>2, <1>3, <1>4, <1>5 DEF Next, ClientStep, callerVars

\* A request is made once, and stays what it was made.
LEMMA CallersMove ==
    ASSUME Typed, MadeBefore, Next
    PROVE  \A r \in Requests : /\ fut'[r] = "new" => op'[r] = "none"
                               /\ op'[r] # "none" => target'[r] \in Threads /\ op'[r] \in Ops
                               /\ op[r] # "none" => op'[r] = op[r] /\ target'[r] = target[r]
  <1>0. \A r \in Requests : /\ fut[r] = "new" => op[r] = "none"
                            /\ op[r] # "none" => target[r] \in Threads /\ op[r] \in Ops
    BY DEF MadeBefore
  <1>1. \/ (\A r \in Requests : fut'[r] = "new" => fut[r] = "new") /\ op' = op /\ target' = target
        \/ \E r \in Requests : Issue(r)
    BY CallersStay
  <1>2. ASSUME NEW r \in Requests, Issue(r)
        PROVE  \A q \in Requests : /\ fut'[q] = "new" => op'[q] = "none"
                                   /\ op'[q] # "none" => target'[q] \in Threads /\ op'[q] \in Ops
                                   /\ op[q] # "none" => op'[q] = op[q] /\ target'[q] = target[q]
    <2>1. PICK c \in Clients, o \in Ops, t \in Threads :
              /\ op' = [op EXCEPT ![r] = o] /\ target' = [target EXCEPT ![r] = t]
              /\ fut' = [fut EXCEPT ![r] = IF client[c] = "open" THEN "pending" ELSE "error"]
      BY <1>2 DEF Issue
    <2>2. op[r] = "none"
      BY <1>0, <1>2 DEF Issue
    <2> QED
      BY <1>0, <2>1, <2>2 DEF Typed, ClientsOK
  <1> QED
    BY <1>0, <1>1, <1>2

\* The only frames that are neither quiet nor on the wire before: a thread that
\* is new, or a call that is.
LEMMA UpMoves ==
    ASSUME Typed, MadeBefore, Next
    PROVE  \/ QuietUp
           \/ \E c \in Clients, t \in Threads : SpawnLocally(c, t)
           \/ \E r \in Requests : Issue(r)
  <1>1. ASSUME NEW c \in Clients, ConnectionStep(c)
        PROVE  QuietUp \/ \E t \in Threads : SpawnLocally(c, t)
    BY <1>1, QuietConnection DEF ConnectionStep
  <1>2. ASSUME NEW r \in Requests, Relayed(r)
        PROVE  QuietUp
    BY <1>2, QuietSame DEF Relayed, Typed
  <1> QED
    BY <1>1, <1>2, QuietServer, QuietClient, QuietThread DEF Next

LEMMA MadeUp ==
    ASSUME Typed, MadeBefore, Next, NEW d \in Clients, NEW i \in DOMAIN up'[d], Is(up'[d][i], "call")
    PROVE  op'[up'[d][i].about] # "none"
  <1>1. ASSUME NEW j \in DOMAIN up[d], up'[d][i] = up[d][j]
        PROVE  op'[up'[d][i].about] # "none"
    <2>1. up[d][j] \in UpFrame
      BY DEF Typed, WireOK
    <2>2. up[d][j].about \in Requests /\ op[up[d][j].about] # "none"
      BY <1>1, <2>1, UpAbout DEF MadeBefore
    <2> QED
      BY <1>1, <2>2, CallersMove
  <1>2. CASE QuietUp
    BY <1>1, <1>2 DEF QuietUp, Quiet
  <1>3. ASSUME NEW c \in Clients, NEW t \in Threads, SpawnLocally(c, t)
        PROVE  op'[up'[d][i].about] # "none"
    <2>1. ThreadFrame("thread", t) \in UpFrame /\ ~Is(ThreadFrame("thread", t), "call")
      BY UpFrames DEF ThreadFrame, Is
    <2>2. Extends(up, up', {ThreadFrame("thread", t)})
      BY <1>3, <2>1, ClientSendsOne DEF SpawnLocally, Typed, WireOK
    <2> QED
      BY <1>1, <2>1, <2>2 DEF Extends
  <1>4. ASSUME NEW r \in Requests, Issue(r)
        PROVE  op'[up'[d][i].about] # "none"
    <2>1. PICK c \in Clients, o \in Ops : op' = [op EXCEPT ![r] = o] /\ ClientSends(c, <<CallFrame(r)>>)
      BY <1>4 DEF Issue
    <2>2. CallFrame(r) \in UpFrame /\ CallFrame(r).about = r /\ op'[r] # "none"
      BY <2>1, UpFrames, RemoteAssumption DEF CallFrame, Typed, ClientsOK
    <2>3. Extends(up, up', {CallFrame(r)})
      BY <2>1, <2>2, ClientSendsOne DEF Typed, WireOK
    <2> QED
      BY <1>1, <2>2, <2>3 DEF Extends
  <1> QED
    BY <1>2, <1>3, <1>4, UpMoves

LEMMA MadeStep ==
    ASSUME Typed, MadeBefore, [Next]_vars
    PROVE  MadeBefore'
  <1>1. CASE UNCHANGED vars
    BY <1>1 DEF vars, wireVars, coordVars, callerVars, MadeBefore
  <1>2. CASE Next
    <2>1. ASSUME NEW d \in Clients, NEW i \in DOMAIN down'[d], Is(down'[d][i], "call")
          PROVE  op'[down'[d][i].about] # "none"
      <3>1. Typed'
        BY TypedStep
      <3>2. down'[d][i] \in DownFrame
        BY <3>1 DEF Typed, WireOK
      <3>3. down'[d][i].about \in Requests
        BY <2>1, <3>2, DownAbout
      <3>4. op[down'[d][i].about] # "none"
        BY <1>2, <2>1, AskedStep DEF DownAsked, MadeBefore
      <3> QED
        BY <1>2, <3>3, <3>4, CallersMove
    <2>2. \A t \in Threads : info'[t] # "absent" => on'[t] \in Wids
      BY <1>2, InfoStep DEF InfoMoves, Enters, MadeBefore
    <2> QED
      BY <1>2, <2>1, <2>2, MadeUp, CallersMove DEF MadeBefore
  <1> QED
    BY <1>1, <1>2

LEMMA TypedInit == Init => Typed /\ MadeBefore
  <1> SUFFICES ASSUME Init PROVE Typed /\ MadeBefore
    OBVIOUS
  <1>1. <<>> \in Seq(UpFrame) /\ <<>> \in Seq(DownFrame) /\ <<>> \in Seq(Kinds) /\ <<>> \in Seq(Requests)
    OBVIOUS
  <1>2. DOMAIN <<>> = {}
    OBVIOUS
  <1>3. Typed
    BY <1>1 DEF Init, Typed, WireOK, EndpointOK, ClientsOK, Statuses
  <1> QED
    BY <1>2, <1>3 DEF Init, MadeBefore

\* For any number of connections, workers, threads and requests, every table of
\* the endpoint and of the clients keeps its type.
THEOREM RemoteTypeCorrect == Spec => []TypeOK
  <1>1. Typed /\ MadeBefore /\ [Next]_vars => (Typed /\ MadeBefore)'
    BY TypedStep, MadeStep
  <1> QED
    BY <1>1, TypedInit, TypedIsTypeOK, PTL DEF Spec
----------------------------------------------------------------------------
(* A thread enters the endpoint's table once: one frame at most can bring  *)
(* it, and only while it was never listed.                                 *)

BroughtIsNew ==
    \A d \in Clients : \A i \in DOMAIN up[d] : \A t \in Threads :
        Brings(up[d][i], t) => info[t] = "absent" /\ ~Fresh(t)

BroughtOnce ==
    \A d \in Clients, e \in Clients : \A i \in DOMAIN up[d], j \in DOMAIN up[e] : \A t \in Threads :
        Brings(up[d][i], t) /\ Brings(up[e][j], t) => d = e /\ i = j

FreshIsAbsent == \A t \in Threads : Fresh(t) => info[t] = "absent"

Once == BroughtIsNew /\ BroughtOnce /\ FreshIsAbsent

\* Of the frames on the wire, those that bring a thread brought it before.
BringsNoMore ==
    \A d \in Clients : \E k \in Nat : \A i \in DOMAIN up'[d] : \A t \in Threads :
        Brings(up[d][i], t)' => i + k \in DOMAIN up[d] /\ Brings(up[d][i + k], t)

\* No thread becomes fresh again.
FreshNoMore == \A t \in Threads : Fresh(t)' => Fresh(t)

\* A thread that enters the table is no longer on its way to it.
EntersOnce ==
    \A t \in Threads : info[t] = "absent" /\ info'[t] # "absent" =>
        /\ ~Fresh(t)'
        /\ \A d \in Clients : \A i \in DOMAIN up'[d] : ~Brings(up[d][i], t)'

LEMMA OnceKept ==
    ASSUME Once, WireOK', BringsNoMore, FreshNoMore, EntersOnce
    PROVE  Once'
  <1>1. BroughtIsNew'
    <2> SUFFICES ASSUME NEW d \in Clients, NEW i \in DOMAIN up'[d], NEW t \in Threads, Brings(up[d][i], t)'
                 PROVE  info'[t] = "absent" /\ ~Fresh(t)'
      BY DEF BroughtIsNew
    <2>1. PICK j \in DOMAIN up[d] : Brings(up[d][j], t)
      BY DEF BringsNoMore
    <2> QED
      BY <2>1 DEF Once, BroughtIsNew, FreshNoMore, EntersOnce
  <1>2. BroughtOnce'
    <2> SUFFICES ASSUME NEW d \in Clients, NEW e \in Clients, NEW i \in DOMAIN up'[d], NEW j \in DOMAIN up'[e],
                        NEW t \in Threads, Brings(up[d][i], t)', Brings(up[e][j], t)'
                 PROVE  d = e /\ i = j
      BY DEF BroughtOnce
    <2>1. PICK k \in Nat : \A x \in DOMAIN up'[d] : Brings(up[d][x], t)' => x + k \in DOMAIN up[d] /\ Brings(up[d][x + k], t)
      BY DEF BringsNoMore
    <2>2. d = e
      <3>1. PICK y \in DOMAIN up[e] : Brings(up[e][y], t)
        BY DEF BringsNoMore
      <3> QED
        BY <2>1, <3>1 DEF Once, BroughtOnce
    <2>3. i + k = j + k
      BY <2>1, <2>2 DEF Once, BroughtOnce
    <2>4. i \in Nat /\ j \in Nat
      <3>1. up'[d] \in Seq(UpFrame) /\ up'[e] \in Seq(UpFrame)
        BY DEF WireOK
      <3> QED
        BY <3>1
    <2> QED
      BY <2>2, <2>3, <2>4
  <1>3. FreshIsAbsent'
    BY DEF Once, FreshIsAbsent, FreshNoMore, EntersOnce
  <1> QED
    BY <1>1, <1>2, <1>3 DEF Once

\* In a step that neither makes a call nor a thread.
LEMMA OnceQuiet ==
    ASSUME Typed, MadeBefore, Next, Once, QuietUp, op' = op, target' = target,
           \A t \in Threads : stage'[t] = "new" => stage[t] = "new"
    PROVE  Once'
  <1>1. BringsNoMore
    <2> SUFFICES ASSUME NEW d \in Clients
                 PROVE  \E k \in Nat : \A i \in DOMAIN up'[d] : \A t \in Threads :
                            Brings(up[d][i], t)' => i + k \in DOMAIN up[d] /\ Brings(up[d][i + k], t)
      BY DEF BringsNoMore
    <2>1. PICK k \in Nat : \A i \in DOMAIN up'[d] : (i + k \in DOMAIN up[d] /\ up'[d][i] = up[d][i + k]) \/ Quiet(up'[d][i])
      BY DEF QuietUp
    <2>2. \A i \in DOMAIN up'[d] : \A t \in Threads : Brings(up[d][i], t)' => ~Quiet(up'[d][i])
      BY DEF Brings, Quiet
    <2>3. ASSUME NEW i \in DOMAIN up'[d], NEW t \in Threads, Brings(up[d][i], t)'
          PROVE  i + k \in DOMAIN up[d] /\ Brings(up[d][i + k], t)
      <3>1. i + k \in DOMAIN up[d] /\ up'[d][i] = up[d][i + k]
        BY <2>1, <2>2, <2>3
      <3> QED
        BY <2>3, <3>1 DEF Brings
    <2> QED
      BY <2>3
  <1>2. FreshNoMore
    BY DEF FreshNoMore, Fresh
  <1>3. EntersOnce
    <2> SUFFICES ASSUME NEW t \in Threads, info[t] = "absent", info'[t] # "absent"
                 PROVE  ~Fresh(t)' /\ \A d \in Clients : \A i \in DOMAIN up'[d] : ~Brings(up[d][i], t)'
      BY DEF EntersOnce
    <2>1. PICK c \in Clients : up[c] # <<>> /\ Taken(c) /\ Brings(Head(up[c]), t)
      BY InfoStep DEF InfoMoves, Enters
    <2>2. 1 \in DOMAIN up[c] /\ Head(up[c]) = up[c][1] /\ up[c] \in Seq(UpFrame)
      BY <2>1 DEF Typed, WireOK
    <2>3. ~Fresh(t)
      BY <2>1, <2>2 DEF Once, BroughtIsNew
    <2>4. ASSUME NEW d \in Clients, NEW i \in DOMAIN up'[d], Brings(up[d][i], t)'
          PROVE  FALSE
      <3>1. Brings(up'[d][i], t)
        BY <2>4 DEF Brings
      <3>2. up[d] \in Seq(UpFrame) /\ up'[d] = IF d = c THEN Tail(up[c]) ELSE up[d]
        BY <2>1 DEF Taken, Typed, WireOK
      <3>3. CASE d = c
        <4>1. i \in Nat \ {0} /\ i + 1 \in DOMAIN up[c] /\ up'[d][i] = up[c][i + 1]
          BY <2>1, <2>2, <3>2, <3>3
        <4>2. i + 1 = 1
          BY <2>1, <2>2, <3>1, <3>3, <4>1 DEF Once, BroughtOnce
        <4> QED
          BY <4>1, <4>2
      <3>4. CASE d # c
        BY <2>1, <2>2, <3>1, <3>2, <3>4 DEF Once, BroughtOnce
      <3> QED
        BY <3>3, <3>4
    <2> QED
      BY <1>2, <2>3, <2>4 DEF FreshNoMore
  <1> QED
    BY <1>1, <1>2, <1>3, OnceKept, TypedStep DEF Typed

\* One frame is put on one connection, behind what is there.
LEMMA PutsOne ==
    ASSUME WireOK, NEW x \in Clients, NEW f \in UpFrame, ClientSends(x, <<f>>)
    PROVE  \A d \in Clients : \A i \in DOMAIN up'[d] :
              \/ i \in DOMAIN up[d] /\ up'[d][i] = up[d][i]
              \/ d = x /\ i = Len(up[x]) + 1 /\ i \notin DOMAIN up[d] /\ up'[d][i] = f
  <1>1. up[x] \in Seq(UpFrame) /\ up \in [Clients -> Seq(UpFrame)]
    BY DEF WireOK
  <1>2. CASE up' = up
    BY <1>2
  <1>3. CASE up' = [up EXCEPT ![x] = up[x] \o <<f>>]
    <2>1. \A i \in DOMAIN (up[x] \o <<f>>) :
              \/ i \in DOMAIN up[x] /\ (up[x] \o <<f>>)[i] = up[x][i]
              \/ i = Len(up[x]) + 1 /\ i \notin DOMAIN up[x] /\ (up[x] \o <<f>>)[i] = f
      BY <1>1
    <2> QED
      BY <1>1, <1>3, <2>1
  <1> QED
    BY <1>2, <1>3 DEF ClientSends, Sent

\* A thread that is fresh, when one frame that brings it is put on the wire.
LEMMA OncePut ==
    ASSUME WireOK, Once, NEW x \in Clients, NEW f \in UpFrame, ClientSends(x, <<f>>), info' = info,
           NEW u \in Threads, Fresh(u), ~Fresh(u)', FreshNoMore,
           \A t \in Threads : Brings(f, t)' => t = u,
           \A d \in Clients : \A i \in DOMAIN up[d] : \A t \in Threads :
               (Is(up[d][i], "call") => op'[up[d][i].about] = op[up[d][i].about]
                                        /\ target'[up[d][i].about] = target[up[d][i].about])
    PROVE  Once'
  <1>1. ASSUME NEW d \in Clients, NEW i \in DOMAIN up'[d], NEW t \in Threads, Brings(up[d][i], t)'
        PROVE  \/ i \in DOMAIN up[d] /\ Brings(up[d][i], t) /\ t # u
               \/ d = x /\ i = Len(up[x]) + 1 /\ t = u
    <2>1. CASE i \in DOMAIN up[d] /\ up'[d][i] = up[d][i]
      <3>1. Brings(up[d][i], t)
        BY <1>1, <2>1 DEF Brings
      <3> QED
        BY <2>1, <3>1 DEF Once, BroughtIsNew
    <2>2. CASE d = x /\ i = Len(up[x]) + 1 /\ up'[d][i] = f
      BY <1>1, <2>2 DEF Brings
    <2> QED
      BY <2>1, <2>2, PutsOne
  <1>2. BroughtIsNew'
    <2> SUFFICES ASSUME NEW d \in Clients, NEW i \in DOMAIN up'[d], NEW t \in Threads, Brings(up[d][i], t)'
                 PROVE  info'[t] = "absent" /\ ~Fresh(t)'
      BY DEF BroughtIsNew
    <2> QED
      BY <1>1 DEF Once, BroughtIsNew, FreshIsAbsent, FreshNoMore
  <1>3. BroughtOnce'
    <2> SUFFICES ASSUME NEW d \in Clients, NEW e \in Clients, NEW i \in DOMAIN up'[d], NEW j \in DOMAIN up'[e],
                        NEW t \in Threads, Brings(up[d][i], t)', Brings(up[e][j], t)'
                 PROVE  d = e /\ i = j
      BY DEF BroughtOnce
    <2> QED
      BY <1>1 DEF Once, BroughtOnce
  <1>4. FreshIsAbsent'
    BY DEF Once, FreshIsAbsent, FreshNoMore
  <1> QED
    BY <1>2, <1>3, <1>4 DEF Once

LEMMA OnceSpawn ==
    ASSUME Typed, Once, NEW c \in Clients, NEW u \in Threads, SpawnLocally(c, u)
    PROVE  Once'
  <1>1. /\ ClientSends(c, <<ThreadFrame("thread", u)>>) /\ Fresh(u)
        /\ stage' = [stage EXCEPT ![u] = "asked"] /\ info' = info /\ op' = op /\ target' = target
    BY DEF SpawnLocally, coordVars, callerVars
  <1>2. ThreadFrame("thread", u) \in UpFrame /\ WireOK
    BY UpFrames DEF Typed
  <1>3. \A t \in Threads : Brings(ThreadFrame("thread", u), t)' => t = u
    BY DEF Brings, ThreadFrame, Is
  <1>4. stage'[u] = "asked" /\ \A t \in Threads : stage'[t] = "new" => stage[t] = "new"
    BY <1>1 DEF Typed, ClientsOK
  <1>5. ~Fresh(u)' /\ FreshNoMore
    BY <1>1, <1>4 DEF Fresh, FreshNoMore
  <1> QED
    BY <1>1, <1>2, <1>3, <1>5, OncePut

\* Putting a frame on the wire that brings nothing.
LEMMA OncePutNone ==
    ASSUME WireOK, WireOK', Once, NEW x \in Clients, NEW f \in UpFrame, ClientSends(x, <<f>>), info' = info, FreshNoMore,
           \A t \in Threads : ~Brings(f, t)',
           \A d \in Clients : \A i \in DOMAIN up[d] :
               (Is(up[d][i], "call") => op'[up[d][i].about] = op[up[d][i].about]
                                        /\ target'[up[d][i].about] = target[up[d][i].about])
    PROVE  Once'
  <1>1. BringsNoMore
    <2> SUFFICES ASSUME NEW d \in Clients, NEW i \in DOMAIN up'[d], NEW t \in Threads, Brings(up[d][i], t)'
                 PROVE  i + 0 \in DOMAIN up[d] /\ Brings(up[d][i + 0], t)
      BY DEF BringsNoMore
    <2>1. i \in DOMAIN up[d] /\ up'[d][i] = up[d][i]
      BY PutsOne DEF Brings
    <2>2. Brings(up[d][i], t)
      BY <2>1 DEF Brings
    <2>3. i + 0 = i
      BY <2>1 DEF WireOK
    <2> QED
      BY <2>1, <2>2, <2>3
  <1>2. EntersOnce
    BY DEF EntersOnce
  <1> QED
    BY <1>1, <1>2, OnceKept

LEMMA OnceIssue ==
    ASSUME Typed, MadeBefore, Once, NEW r \in Requests, Issue(r)
    PROVE  Once'
  <1>0. WireOK /\ WireOK' /\ info' = info /\ stage' = stage /\ op \in [Requests -> Ops \cup {"none"}]
        /\ target \in [Requests -> Threads \cup {Nobody}] /\ op[r] = "none"
    <2>1. Typed'
      BY TypedStep DEF Next
    <2> QED
      BY <2>1 DEF Typed, ClientsOK, Issue, coordVars, workerVars, MadeBefore
  <1>1. PICK c \in Clients, o \in Ops, u \in Threads :
            /\ o = "spawn" => Fresh(u)
            /\ op' = [op EXCEPT ![r] = o] /\ target' = [target EXCEPT ![r] = u]
            /\ ClientSends(c, <<CallFrame(r)>>)
    BY DEF Issue
  <1>2. CallFrame(r) \in UpFrame /\ CallFrame(r).about = r /\ Is(CallFrame(r), "call")
    BY UpFrames DEF CallFrame, Is
  <1>3. ASSUME NEW d \in Clients, NEW i \in DOMAIN up[d], Is(up[d][i], "call")
        PROVE  /\ op'[up[d][i].about] = op[up[d][i].about]
               /\ target'[up[d][i].about] = target[up[d][i].about]
    <2>1. up[d][i] \in UpFrame
      BY <1>0 DEF WireOK
    <2>2. up[d][i].about \in Requests /\ op[up[d][i].about] # "none"
      BY <1>3, <2>1, UpAbout DEF MadeBefore
    <2> QED
      BY <1>0, <1>1, <2>2
  <1>4. FreshNoMore
    <2> SUFFICES ASSUME NEW t \in Threads, Fresh(t)'
                 PROVE  Fresh(t)
      BY DEF FreshNoMore
    <2>1. ~\E q \in Requests : op'[q] = "spawn" /\ target'[q] = t
      BY DEF Fresh
    <2>2. \A q \in Requests : op[q] = "spawn" => op'[q] = "spawn" /\ target'[q] = target[q]
      BY <1>0, <1>1
    <2> QED
      BY <1>0, <2>1, <2>2 DEF Fresh
  <1>5. CASE o = "spawn"
    <2>1. op'[r] = "spawn" /\ target'[r] = u
      BY <1>0, <1>1, <1>5
    <2>2. \A t \in Threads : Brings(CallFrame(r), t)' => t = u
      BY <2>1 DEF Brings, CallFrame, Is
    <2>3. ~Fresh(u)'
      BY <2>1 DEF Fresh
    <2> QED
      BY <1>0, <1>1, <1>2, <1>3, <1>4, <1>5, <2>2, <2>3, OncePut
  <1>6. CASE o # "spawn"
    <2>1. op'[r] # "spawn"
      BY <1>0, <1>1, <1>6
    <2>2. \A t \in Threads : ~Brings(CallFrame(r), t)'
      BY <2>1 DEF Brings, CallFrame, Is
    <2> QED
      BY <1>0, <1>1, <1>2, <1>3, <1>4, <2>2, OncePutNone
  <1> QED
    BY <1>5, <1>6

\* A thread's stage never goes back to "new".
LEMMA StageMoves ==
    ASSUME Typed, MadeBefore, Next
    PROVE  \A t \in Threads : stage'[t] = "new" => stage[t] = "new"
  <1>0. stage \in [Threads -> {"new", "asked", "hosted", "gone", "refused"}]
    BY DEF Typed, ClientsOK
  <1>1. ASSUME NEW c \in Clients, ConnectionStep(c)
        PROVE  \A t \in Threads : stage'[t] = "new" => stage[t] = "new"
    BY <1>0, <1>1 DEF ConnectionStep, Connect, Join, Leave, Drop, SpawnLocally, workerVars
  <1>2. ASSUME NEW c \in Clients, ServerStep(c)
        PROVE  stage' = stage
    BY <1>2 DEF ServerStep, TakeRegister, TakeDeregister, TakeThread, TakeThreadGone, TakeEvent, TakeCall,
       TakeAnswer, ServerCloses, Cleanup, workerVars
  <1>3. ASSUME NEW c \in Clients, GetAnswer(c) \/ ClientCloses(c)
        PROVE  \A t \in Threads : stage'[t] = "new" => stage[t] = "new"
    BY <1>0, <1>3 DEF GetAnswer, ClientCloses
  <1>4. ASSUME NEW c \in Clients, GetCall(c)
        PROVE  \A t \in Threads : stage'[t] = "new" => stage[t] = "new"
    <2>1. PICK r \in Requests, t \in Threads : AnswersCall(c, r, t)
      BY <1>4, GetCallCases
    <2> QED
      BY <1>0, <2>1 DEF AnswersCall
  <1>5. ASSUME NEW t \in Threads, ThreadStep(t)
        PROVE  \A s \in Threads : stage'[s] = "new" => stage[s] = "new"
    BY <1>0, <1>5 DEF ThreadStep, Begin, End, TearDown
  <1>6. ASSUME NEW r \in Requests, Relayed(r) \/ Issue(r)
        PROVE  stage' = stage
    BY <1>6 DEF Relayed, Issue, workerVars
  <1> QED
    BY <1>1, <1>2, <1>3, <1>4, <1>5, <1>6 DEF Next, ClientStep

LEMMA OnceStep ==
    ASSUME Typed, MadeBefore, Once, [Next]_vars
    PROVE  Once'
  <1>1. CASE UNCHANGED vars
    BY <1>1 DEF vars, wireVars, coordVars, workerVars, callerVars, Once, BroughtIsNew, BroughtOnce, FreshIsAbsent,
       Fresh, Brings
  <1>2. CASE Next
    <2>1. CASE \E r \in Requests : Issue(r)
      BY <2>1, OnceIssue
    <2>2. CASE \E c \in Clients, t \in Threads : SpawnLocally(c, t)
      BY <2>2, OnceSpawn
    <2>3. CASE /\ ~\E r \in Requests : Issue(r)
               /\ ~\E c \in Clients, t \in Threads : SpawnLocally(c, t)
      <3>1. QuietUp
        BY <1>2, <2>3, UpMoves
      <3>2. op' = op /\ target' = target
        BY <1>2, <2>3, CallersStay
      <3> QED
        BY <1>2, <3>1, <3>2, StageMoves, OnceQuiet
    <2> QED
      BY <2>1, <2>2, <2>3
  <1> QED
    BY <1>1, <1>2

LEMMA OnceInit == Init => Once
  <1> SUFFICES ASSUME Init PROVE Once
    OBVIOUS
  <1>1. \A d \in Clients : DOMAIN up[d] = {}
    <2>1. DOMAIN <<>> = {}
      OBVIOUS
    <2> QED
      BY <2>1 DEF Init
  <1>2. \A t \in Threads : info[t] = "absent"
    BY DEF Init
  <1> QED
    BY <1>1, <1>2 DEF Once, BroughtIsNew, BroughtOnce, FreshIsAbsent

\* For any number of connections, workers, threads and requests: a thread that
\* the endpoint failed with its worker stays failed until it is taken off the
\* table, whatever its process, a registration on its way or a pause that was
\* under way still sends (_apply_lifecycle, register_thread, spawn and pause of
\* the coordinator against deregister_worker).
THEOREM FailedAlwaysStays == Spec => FailedStays
  <1>1. Typed /\ MadeBefore /\ Once /\ [Next]_vars => (Typed /\ MadeBefore /\ Once)'
    BY TypedStep, MadeStep, OnceStep
  <1>2. Typed /\ MadeBefore /\ Once /\ [Next]_vars
           => [\A t \in Threads : info[t] = "failed" => info'[t] \in {"failed", "absent"}]_vars
    <2> SUFFICES ASSUME Typed, MadeBefore, Once, Next, NEW t \in Threads, info[t] = "failed"
                 PROVE  info'[t] \in {"failed", "absent"}
      OBVIOUS
    <2>1. ASSUME NEW c \in Clients, up[c] # <<>>, Brings(Head(up[c]), t)
          PROVE  FALSE
      <3>1. 1 \in DOMAIN up[c] /\ Head(up[c]) = up[c][1]
        BY <2>1 DEF Typed, WireOK
      <3> QED
        BY <2>1, <3>1 DEF Once, BroughtIsNew
    <2> QED
      BY <2>1, InfoStep DEF InfoMoves, Enters
  <1> QED
    BY <1>1, <1>2, TypedInit, OnceInit, PTL DEF Spec, FailedStays

----------------------------------------------------------------------------
(* Where frames come from.                                                 *)

\* Frames are put behind those that are there.
Puts(x, F) ==
    \A d \in Clients :
        /\ \A i \in DOMAIN up[d] : i \in DOMAIN up'[d] /\ up'[d][i] = up[d][i]
        /\ \A i \in DOMAIN up'[d] : i \notin DOMAIN up[d] =>
               d = x /\ link[x] = "up" /\ up'[d][i] \in F

LEMMA PutsFrames ==
    ASSUME WireOK, NEW x, NEW f \in UpFrame, NEW g \in UpFrame,
           \/ ClientSends(x, <<f>>)
           \/ ClientSends(x, <<f, g>>)
    PROVE  Puts(x, {f, g})
  <1>0. up \in [Clients -> Seq(UpFrame)]
    BY DEF WireOK
  <1>1. CASE up' = up
    BY <1>1 DEF Puts
  <1>2. ASSUME NEW more \in Seq(UpFrame), \A i \in DOMAIN more : more[i] \in {f, g},
               link[x] = "up", up' = [up EXCEPT ![x] = up[x] \o more], x \in Clients
        PROVE  Puts(x, {f, g})
    <2>1. up[x] \in Seq(UpFrame)
      BY <1>0, <1>2
    <2> DEFINE q == up[x] \o more
    <2>2. /\ \A i \in DOMAIN up[x] : i \in DOMAIN q /\ q[i] = up[x][i]
          /\ \A i \in DOMAIN q : i \notin DOMAIN up[x] => i - Len(up[x]) \in DOMAIN more /\ q[i] = more[i - Len(up[x])]
      BY <2>1
    <2> HIDE DEF q
    <2>3. \A d \in Clients : up'[d] = IF d = x THEN q ELSE up[d]
      BY <1>0, <1>2 DEF q
    <2> QED
      BY <1>2, <2>2, <2>3 DEF Puts
  <1>3. <<f>> \in Seq(UpFrame) /\ \A i \in DOMAIN <<f>> : <<f>>[i] \in {f, g}
    OBVIOUS
  <1>4. <<f, g>> \in Seq(UpFrame) /\ \A i \in DOMAIN <<f, g>> : <<f, g>>[i] \in {f, g}
    OBVIOUS
  <1>5. CASE x \notin Clients
    BY <1>0, <1>1, <1>5 DEF ClientSends, Sent
  <1>6. CASE x \in Clients /\ ClientSends(x, <<f>>)
    <2>1. CASE link[x] = "up" /\ up' = [up EXCEPT ![x] = up[x] \o <<f>>]
      BY <1>2, <1>3, <1>6, <2>1
    <2> QED
      BY <1>1, <1>6, <2>1 DEF ClientSends, Sent, Carries
  <1>7. CASE x \in Clients /\ ClientSends(x, <<f, g>>)
    <2>1. CASE link[x] = "up" /\ up' = [up EXCEPT ![x] = up[x] \o <<f, g>>]
      BY <1>2, <1>4, <1>7, <2>1
    <2> QED
      BY <1>1, <1>7, <2>1 DEF ClientSends, Sent, Carries
  <1> QED
    BY <1>5, <1>6, <1>7

\* Taking the first frame moves the others one place forward.
LEMMA TakenShifts ==
    ASSUME WireOK, NEW c \in Clients, up[c] # <<>>, Taken(c)
    PROVE  /\ \A d \in Clients : d # c => up'[d] = up[d]
           /\ 1 \in DOMAIN up[c] /\ Head(up[c]) = up[c][1] /\ Head(up[c]) \in UpFrame
           /\ \A i \in DOMAIN up'[c] : i + 1 \in DOMAIN up[c] /\ up'[c][i] = up[c][i + 1]
           /\ \A i \in DOMAIN up[c] : i # 1 => i - 1 \in DOMAIN up'[c] /\ up'[c][i - 1] = up[c][i]
  <1>1. up[c] \in Seq(UpFrame) /\ \A d \in Clients : up'[d] = IF d = c THEN Tail(up[c]) ELSE up[d]
    BY DEF WireOK, Taken
  <1>2. 1 \in DOMAIN up[c] /\ Head(up[c]) = up[c][1] /\ Head(up[c]) \in UpFrame
    BY <1>1
  <1>3. \A i \in DOMAIN Tail(up[c]) : i + 1 \in DOMAIN up[c] /\ Tail(up[c])[i] = up[c][i + 1]
    BY <1>1
  <1>4. \A i \in DOMAIN up[c] : i # 1 => i - 1 \in DOMAIN Tail(up[c]) /\ Tail(up[c])[i - 1] = up[c][i]
    BY <1>1
  <1> QED
    BY <1>1, <1>2, <1>3, <1>4

LEMMA GotShifts ==
    ASSUME WireOK, NEW c \in Clients, down[c] # <<>>, Got(c)
    PROVE  /\ \A d \in Clients : d # c => down'[d] = down[d]
           /\ 1 \in DOMAIN down[c] /\ Head(down[c]) = down[c][1] /\ Head(down[c]) \in DownFrame
           /\ \A i \in DOMAIN down'[c] : i + 1 \in DOMAIN down[c] /\ down'[c][i] = down[c][i + 1]
  <1>1. down[c] \in Seq(DownFrame) /\ \A d \in Clients : down'[d] = IF d = c THEN Tail(down[c]) ELSE down[d]
    BY DEF WireOK, Got
  <1>2. 1 \in DOMAIN down[c] /\ Head(down[c]) = down[c][1] /\ Head(down[c]) \in DownFrame
    BY <1>1
  <1>3. \A i \in DOMAIN Tail(down[c]) : i + 1 \in DOMAIN down[c] /\ Tail(down[c])[i] = down[c][i + 1]
    BY <1>1
  <1> QED
    BY <1>1, <1>2, <1>3

\* A connection that breaks keeps the first frames of either direction.
LEMMA DropCuts ==
    ASSUME WireOK, NEW c \in Clients, Drop(c)
    PROVE  /\ \A d \in Clients : d # c => up'[d] = up[d] /\ down'[d] = down[d]
           /\ \E n \in Nat : /\ \A i \in DOMAIN up'[c] : i \in DOMAIN up[c] /\ i <= n /\ up'[c][i] = up[c][i]
                             /\ \A i \in DOMAIN up[c] : i <= n => i \in DOMAIN up'[c]
           /\ \A i \in DOMAIN down'[c] : i \in DOMAIN down[c] /\ down'[c][i] = down[c][i]
           /\ link' = [link EXCEPT ![c] = "down"]
  <1>1. PICK n \in 0 .. Len(up[c]), m \in 0 .. Len(down[c]) :
            up' = [up EXCEPT ![c] = SubSeq(up[c], 1, n)] /\ down' = [down EXCEPT ![c] = SubSeq(down[c], 1, m)]
    BY DEF Drop
  <1>2. /\ up[c] \in Seq(UpFrame) /\ down[c] \in Seq(DownFrame)
        /\ up \in [Clients -> Seq(UpFrame)] /\ down \in [Clients -> Seq(DownFrame)]
    BY DEF WireOK
  <1>3. /\ \A i \in DOMAIN SubSeq(up[c], 1, n) : i \in DOMAIN up[c] /\ i <= n /\ SubSeq(up[c], 1, n)[i] = up[c][i]
        /\ \A i \in DOMAIN up[c] : i <= n => i \in DOMAIN SubSeq(up[c], 1, n)
    BY <1>2
  <1>4. \A i \in DOMAIN SubSeq(down[c], 1, m) : i \in DOMAIN down[c] /\ SubSeq(down[c], 1, m)[i] = down[c][i]
    BY <1>2
  <1>5. n \in Nat
    OBVIOUS
  <1>6. /\ \A d \in Clients : d # c => up'[d] = up[d] /\ down'[d] = down[d]
        /\ up'[c] = SubSeq(up[c], 1, n) /\ down'[c] = SubSeq(down[c], 1, m)
    BY <1>1, <1>2
  <1> QED
    BY <1>3, <1>4, <1>5, <1>6 DEF Drop

----------------------------------------------------------------------------
(* What is queued and what runs was called on that thread.                 *)

Working ==
    \A t \in Threads :
        /\ \A i \in DOMAIN queue[t] : target[queue[t][i]] = t /\ op[queue[t][i]] # "none"
        /\ cycle[t] # Nobody => target[cycle[t]] = t /\ op[cycle[t]] = "submit" /\ stage[t] # "new"

\* A call that is answered in a step: a submit at once only with an error, and
\* only a spawn gives its thread a place.
LEMMA GetCallKinds ==
    ASSUME Typed, MadeBefore, NEW c \in Clients, GetCall(c)
    PROVE  \E r \in Requests : \E t \in Threads :
              /\ r = Head(down[c]).about /\ t = target[r] /\ AnswersCall(c, r, t) /\ op[r] # "none"
              /\ op[r] = "submit" => up' = up \/ ClientSends(c, <<Answer(r, FALSE)>>)
              /\ op[r] # "spawn" => home' = home /\ stage' = stage
  <1>1. Gets(c, "call")
    BY DEF GetCall
  <1>2. PICK r \in Requests : r = Head(down[c]).about /\ target[r] \in Threads /\ op[r] \in Ops /\ op[r] # "none"
    BY <1>1, GotCall
  <1>3. AnswersCall(c, r, target[r])
    BY <1>2, GetCallAnswers, RemoteAssumption
  <1>4. op[r] \in {"spawn", "submit", "cancel", "pause", "terminate"}
    BY <1>2, RemoteAssumption
  <1>5. ASSUME op[r] = "submit"
        PROVE  up' = up \/ ClientSends(c, <<Answer(r, FALSE)>>)
    BY <1>2, <1>5 DEF GetCall, Replies
  <1>6. ASSUME op[r] # "spawn"
        PROVE  home' = home /\ stage' = stage
    BY <1>2, <1>4, <1>6 DEF GetCall
  <1> QED
    BY <1>2, <1>3, <1>5, <1>6

\* What is new in a queue or in a cycle was called on that thread.
WorkMoves ==
    \A t \in Threads :
        /\ \A i \in DOMAIN queue'[t] :
              \/ \E j \in DOMAIN queue[t] : queue[t][j] = queue'[t][i]
              \/ target[queue'[t][i]] = t /\ op[queue'[t][i]] # "none"
        /\ \/ cycle'[t] = cycle[t] \/ cycle'[t] = Nobody
           \/ target[cycle'[t]] = t /\ op[cycle'[t]] = "submit" /\ stage[t] # "new"

LEMMA WorkStep ==
    ASSUME Typed, MadeBefore, Working, Next
    PROVE  WorkMoves
  <1>0. queue \in [Threads -> Seq(Requests)] /\ cycle \in [Threads -> Requests \cup {Nobody}]
    BY DEF Typed, ClientsOK
  <1>1. CASE UNCHANGED <<queue, cycle>>
    BY <1>1 DEF WorkMoves
  <1>2. ASSUME NEW c \in Clients, ConnectionStep(c) \/ ServerStep(c) \/ GetAnswer(c) \/ ClientCloses(c)
        PROVE  UNCHANGED <<queue, cycle>>
    BY <1>2 DEF ConnectionStep, Connect, Join, Leave, Drop, SpawnLocally, ServerStep, TakeRegister, GetAnswer,
       TakeDeregister, TakeThread, TakeThreadGone, TakeEvent, TakeCall, TakeAnswer, ServerCloses, Cleanup,
       ClientCloses, workerVars
  <1>3. ASSUME NEW r \in Requests, Relayed(r) \/ Issue(r)
        PROVE  UNCHANGED <<queue, cycle>>
    BY <1>3 DEF Relayed, Issue, workerVars
  <1>4. ASSUME NEW c \in Clients, GetCall(c)
        PROVE  WorkMoves
    <2>1. PICK r \in Requests, t \in Threads : t = target[r] /\ AnswersCall(c, r, t) /\ op[r] # "none"
      BY <1>4, GetCallKinds
    <2>2. queue[t] \in Seq(Requests)
      BY <1>0
    <2>3. \A i \in DOMAIN Append(queue[t], r) :
              (i \in DOMAIN queue[t] /\ queue[t][i] = Append(queue[t], r)[i]) \/ Append(queue[t], r)[i] = r
      BY <2>2
    <2>4. \A s \in Threads : queue'[s] = queue[s] \/ (s = t /\ queue'[s] = Append(queue[t], r))
      BY <1>0, <2>1 DEF AnswersCall
    <2>5. \A s \in Threads : cycle'[s] = cycle[s] \/ cycle'[s] = Nobody
      BY <1>0, <2>1 DEF AnswersCall
    <2> QED
      BY <2>1, <2>3, <2>4, <2>5 DEF WorkMoves
  <1>5. ASSUME NEW t \in Threads, Begin(t)
        PROVE  WorkMoves
    <2>1. queue[t] \in Seq(Requests) /\ queue[t] # <<>> /\ stage[t] = "hosted" /\ op[Head(queue[t])] = "submit"
      BY <1>0, <1>5 DEF Begin
    <2>2. Head(queue[t]) = queue[t][1] /\ 1 \in DOMAIN queue[t]
      BY <2>1
    <2>3. \A i \in DOMAIN Tail(queue[t]) : i + 1 \in DOMAIN queue[t] /\ Tail(queue[t])[i] = queue[t][i + 1]
      BY <2>1
    <2>4. \A s \in Threads : IF s = t THEN queue'[s] = Tail(queue[t]) /\ cycle'[s] = Head(queue[t])
                                      ELSE queue'[s] = queue[s] /\ cycle'[s] = cycle[s]
      BY <1>0, <1>5 DEF Begin
    <2>5. target[Head(queue[t])] = t
      BY <2>2 DEF Working
    <2>6. \A i \in DOMAIN queue'[t] : \E j \in DOMAIN queue[t] : queue[t][j] = queue'[t][i]
      BY <2>3, <2>4
    <2> QED
      BY <2>1, <2>4, <2>5, <2>6 DEF WorkMoves
  <1>6. ASSUME NEW t \in Threads, End(t)
        PROVE  WorkMoves
    BY <1>0, <1>6 DEF End, WorkMoves
  <1>7. ASSUME NEW t \in Threads, TearDown(t)
        PROVE  WorkMoves
    <2>1. DOMAIN <<>> = {}
      OBVIOUS
    <2> QED
      BY <1>0, <1>7, <2>1 DEF TearDown, WorkMoves
  <1> QED
    BY <1>1, <1>2, <1>3, <1>4, <1>5, <1>6, <1>7 DEF Next, ClientStep, ThreadStep

LEMMA WorkingStep ==
    ASSUME Typed, MadeBefore, Working, [Next]_vars
    PROVE  Working'
  <1>1. CASE UNCHANGED vars
    BY <1>1 DEF vars, workerVars, callerVars, Working
  <1>2. CASE Next
    <2>1. Typed' /\ WorkMoves
      BY <1>2, TypedStep, WorkStep
    <2>2. \A r \in Requests : op[r] # "none" => op'[r] = op[r] /\ target'[r] = target[r]
      BY <1>2, CallersMove
    <2>3. \A t \in Threads : stage'[t] = "new" => stage[t] = "new"
      BY <1>2, StageMoves
    <2>4. ASSUME NEW t \in Threads, NEW i \in DOMAIN queue'[t]
          PROVE  target'[queue'[t][i]] = t /\ op'[queue'[t][i]] # "none"
      <3>1. queue'[t][i] \in Requests
        <4>1. queue'[t] \in Seq(Requests)
          BY <2>1 DEF Typed, ClientsOK
        <4> QED
          BY <4>1
      <3>2. target[queue'[t][i]] = t /\ op[queue'[t][i]] # "none"
        BY <2>1 DEF WorkMoves, Working
      <3> QED
        BY <2>2, <3>1, <3>2
    <2>5. ASSUME NEW t \in Threads, cycle'[t] # Nobody
          PROVE  target'[cycle'[t]] = t /\ op'[cycle'[t]] = "submit" /\ stage'[t] # "new"
      <3>1. cycle'[t] \in Requests
        BY <2>1, <2>5 DEF Typed, ClientsOK
      <3>2. target[cycle'[t]] = t /\ op[cycle'[t]] = "submit" /\ stage[t] # "new"
        BY <2>1, <2>5 DEF WorkMoves, Working
      <3> QED
        BY <2>2, <2>3, <3>1, <3>2
    <2> QED
      BY <2>4, <2>5 DEF Working
  <1> QED
    BY <1>1, <1>2
----------------------------------------------------------------------------
(* A thread is given its place once.                                       *)

\* A call on its way that would spawn the thread.
Flying(f, t) == Is(f, "call") /\ op[f.about] = "spawn" /\ target[f.about] = t

FlyingIsNew ==
    /\ \A d \in Clients : \A i \in DOMAIN up[d] : \A t \in Threads : Flying(up[d][i], t) => stage[t] = "new"
    /\ \A d \in Clients : \A i \in DOMAIN down[d] : \A t \in Threads : Flying(down[d][i], t) => stage[t] = "new"

FlyingOnce ==
    /\ \A d \in Clients, e \in Clients : \A i \in DOMAIN up[d], j \in DOMAIN down[e] : \A t \in Threads :
          ~(Flying(up[d][i], t) /\ Flying(down[e][j], t))
    /\ \A d \in Clients, e \in Clients : \A i \in DOMAIN down[d], j \in DOMAIN down[e] : \A t \in Threads :
          Flying(down[d][i], t) /\ Flying(down[e][j], t) => d = e /\ i = j

\* A thread that registers, or is answered, has a place.
AskedIsPlaced ==
    /\ \A d \in Clients : \A i \in DOMAIN up[d] : Is(up[d][i], "thread") => stage[up[d][i].about] # "new"
    /\ \A d \in Clients : \A i \in DOMAIN down[d] : down[d][i].about \in Threads => stage[down[d][i].about] # "new"

Spawning == FlyingIsNew /\ FlyingOnce /\ AskedIsPlaced

\* The process that a thread gets, or keeps.
Placed(t) ==
    \/ stage'[t] = "new" /\ stage[t] = "new"
    \/ stage'[t] # "new" /\ stage[t] # "new" /\ home'[t] = home[t]
    \/ \E c \in Clients :
          /\ stage'[t] # "new" /\ stage[t] = "new" /\ home'[t] = c /\ client[c] = "open"
          /\ SpawnLocally(c, t) \/ (Gets(c, "call") /\ Got(c) /\ Flying(Head(down[c]), t))

LEMMA PlacedStep ==
    ASSUME Typed, MadeBefore, Spawning, Next
    PROVE  \A t \in Threads : Placed(t)
  <1>0. stage \in [Threads -> {"new", "asked", "hosted", "gone", "refused"}] /\ home \in [Threads -> Clients \cup {Nobody}]
    BY DEF Typed, ClientsOK
  <1>1. CASE UNCHANGED <<home, stage>>
    BY <1>1 DEF Placed
  <1>2. ASSUME NEW c \in Clients, NEW u \in Threads, SpawnLocally(c, u)
        PROVE  \A t \in Threads : Placed(t)
    <2>1. /\ client[c] = "open" /\ stage[u] = "new"
          /\ \A t \in Threads : IF t = u THEN home'[t] = c /\ stage'[t] = "asked"
                                         ELSE home'[t] = home[t] /\ stage'[t] = stage[t]
      BY <1>0, <1>2 DEF SpawnLocally, Fresh
    <2> QED
      BY <1>2, <2>1 DEF Placed
  <1>3. ASSUME NEW c \in Clients, ConnectionStep(c) \/ ServerStep(c)
        PROVE  UNCHANGED <<home, stage>> \/ \E u \in Threads : SpawnLocally(c, u)
    BY <1>3 DEF ConnectionStep, Connect, Join, Leave, Drop, ServerStep, TakeRegister,
       TakeDeregister, TakeThread, TakeThreadGone, TakeEvent, TakeCall, TakeAnswer, ServerCloses, Cleanup,
       workerVars
  <1>4. ASSUME NEW c \in Clients, GetAnswer(c)
        PROVE  \A t \in Threads : Placed(t)
    <2>1. down[c] # <<>> /\ down[c] \in Seq(DownFrame)
      BY <1>4 DEF GetAnswer, Gets, Typed, WireOK
    <2>2. 1 \in DOMAIN down[c] /\ Head(down[c]) = down[c][1]
      BY <2>1
    <2>3. Head(down[c]).about \in Threads => stage[Head(down[c]).about] # "new"
      BY <2>2 DEF Spawning, AskedIsPlaced
    <2>4. home' = home /\ \A t \in Threads : stage'[t] = stage[t] \/ (t = Head(down[c]).about /\ stage'[t] \in {"hosted", "refused"})
      BY <1>0, <1>4 DEF GetAnswer
    <2> QED
      BY <2>3, <2>4 DEF Placed
  <1>5. ASSUME NEW c \in Clients, ClientCloses(c)
        PROVE  \A t \in Threads : Placed(t)
    BY <1>0, <1>5 DEF ClientCloses, Placed
  <1>6. ASSUME NEW c \in Clients, GetCall(c)
        PROVE  \A t \in Threads : Placed(t)
    <2>1. Gets(c, "call") /\ Got(c) /\ client[c] = "open" /\ down[c] # <<>> /\ down[c] \in Seq(DownFrame)
      BY <1>6 DEF GetCall, Gets, Typed, WireOK
    <2>2. 1 \in DOMAIN down[c] /\ Head(down[c]) = down[c][1] /\ Is(Head(down[c]), "call")
      BY <2>1 DEF Gets
    <2>3. PICK r \in Requests, u \in Threads :
              /\ r = Head(down[c]).about /\ u = target[r] /\ AnswersCall(c, r, u)
              /\ op[r] # "spawn" => home' = home /\ stage' = stage
      BY <1>6, GetCallKinds
    <2>4. CASE home' = [home EXCEPT ![u] = c] /\ stage' = [stage EXCEPT ![u] = "hosted"] /\ op[r] = "spawn"
      <3>1. Flying(Head(down[c]), u)
        BY <2>2, <2>3, <2>4 DEF Flying
      <3>2. stage[u] = "new"
        BY <2>2, <3>1 DEF Spawning, FlyingIsNew
      <3>3. \A t \in Threads : IF t = u THEN home'[t] = c /\ stage'[t] = "hosted"
                                        ELSE home'[t] = home[t] /\ stage'[t] = stage[t]
        BY <1>0, <2>4
      <3> QED
        BY <2>1, <3>1, <3>2, <3>3 DEF Placed
    <2> QED
      BY <1>1, <2>3, <2>4 DEF AnswersCall
  <1>7. ASSUME NEW t \in Threads, ThreadStep(t)
        PROVE  \A s \in Threads : Placed(s)
    BY <1>0, <1>7 DEF ThreadStep, Begin, End, TearDown, Placed
  <1>8. ASSUME NEW r \in Requests, Relayed(r) \/ Issue(r)
        PROVE  UNCHANGED <<home, stage>>
    BY <1>8 DEF Relayed, Issue, workerVars
  <1> QED
    BY <1>1, <1>2, <1>3, <1>4, <1>5, <1>6, <1>7, <1>8 DEF Next, ClientStep

\* Frames put down that are neither calls nor about a thread without a place.
Plain(f) == Is(f, "answer") /\ (f.about \in Threads => stage[f.about] # "new")

PlainDown ==
    \A d \in Clients : \E k \in Nat : \A i \in DOMAIN down'[d] :
        (i + k \in DOMAIN down[d] /\ down'[d][i] = down[d][i + k]) \/ Plain(down'[d][i])

LEMMA PlainSame ==
    ASSUME WireOK, down' = down
    PROVE  PlainDown
  <1> SUFFICES ASSUME NEW d \in Clients
               PROVE  \A i \in DOMAIN down'[d] : i + 0 \in DOMAIN down[d] /\ down'[d][i] = down[d][i + 0]
    BY DEF PlainDown
  <1>1. down[d] \in Seq(DownFrame)
    BY DEF WireOK
  <1> QED
    BY <1>1

LEMMA PlainExtends ==
    ASSUME WireOK, NEW F, \A f \in F : Plain(f), Extends(down, down', F)
    PROVE  PlainDown
  <1> SUFFICES ASSUME NEW d \in Clients
               PROVE  \A i \in DOMAIN down'[d] : (i + 0 \in DOMAIN down[d] /\ down'[d][i] = down[d][i + 0]) \/ Plain(down'[d][i])
    BY DEF PlainDown
  <1>1. down[d] \in Seq(DownFrame)
    BY DEF WireOK
  <1>2. \A i \in DOMAIN down[d] : i + 0 = i
    BY <1>1
  <1> QED
    BY <1>2 DEF Extends

LEMMA PlainGot ==
    ASSUME WireOK, NEW c \in Clients, down[c] # <<>>, Got(c)
    PROVE  PlainDown
  <1> SUFFICES ASSUME NEW d \in Clients
               PROVE  \E k \in Nat : \A i \in DOMAIN down'[d] : i + k \in DOMAIN down[d] /\ down'[d][i] = down[d][i + k]
    BY DEF PlainDown
  <1>1. CASE d = c
    BY <1>1, GotShifts
  <1>2. CASE d # c
    <2>1. down[d] \in Seq(DownFrame) /\ down'[d] = down[d]
      BY <1>2, GotShifts DEF WireOK
    <2>2. \A i \in DOMAIN down'[d] : i + 0 \in DOMAIN down[d] /\ down'[d][i] = down[d][i + 0]
      BY <2>1
    <2> QED
      BY <2>2
  <1> QED
    BY <1>1, <1>2

LEMMA PlainAnswer ==
    ASSUME WireOK, NEW x, NEW a \in Wids \cup Threads \cup Requests, NEW ok \in BOOLEAN,
           a \in Threads => stage[a] # "new", down' = Sent(down, x, <<Answer(a, ok)>>)
    PROVE  PlainDown
  <1>1. Answer(a, ok) \in DownFrame /\ Plain(Answer(a, ok))
    BY DownFrames DEF Answer, Is, Plain
  <1>2. Extends(down, down', {Answer(a, ok)})
    BY <1>1, SentOne DEF WireOK
  <1> QED
    BY <1>1, <1>2, PlainExtends

LEMMA DownMoves ==
    ASSUME Typed, MadeBefore, Spawning, Next
    PROVE  PlainDown \/ \E c \in Clients : TakeCall(c)
  <1> USE DEF Typed
  <1>0. ASSUME down' = down
        PROVE  PlainDown
    BY <1>0, PlainSame
  <1>1. ASSUME NEW c \in Clients, Drop(c)
        PROVE  PlainDown
    <2>1. Extends(down, down', {})
      BY <1>1, DropCuts DEF Extends
    <2> QED
      BY <2>1, PlainExtends
  <1>2. ASSUME NEW c \in Clients, TakeRegister(c)
        PROVE  PlainDown
    <2>1. Head(up[c]).about \in Wids
      BY <1>2, TakenType, UpAbout DEF TakeRegister, WireOK
    <2> QED
      BY <1>2, <2>1, PlainAnswer, RemoteAssumption DEF TakeRegister
  <1>3. ASSUME NEW c \in Clients, TakeThread(c)
        PROVE  PlainDown
    <2>1. Head(up[c]) = up[c][1] /\ 1 \in DOMAIN up[c] /\ Is(Head(up[c]), "thread") /\ Head(up[c]) \in UpFrame
      BY <1>3, TakenShifts DEF TakeThread, Takes
    <2>2. Head(up[c]).about \in Threads /\ stage[Head(up[c]).about] # "new"
      BY <2>1, UpAbout DEF Spawning, AskedIsPlaced
    <2> QED
      BY <1>3, <2>2, PlainAnswer DEF TakeThread
  <1>5. ASSUME NEW r \in Requests, Relayed(r)
        PROVE  PlainDown
    <2>1. CASE down' = Sent(down, by[r], <<Answer(r, relay[r] = "value")>>)
      <3>1. r \notin Threads /\ (relay[r] = "value") \in BOOLEAN
        BY RemoteAssumption
      <3> QED
        BY <2>1, <3>1, PlainAnswer
    <2> QED
      BY <1>0, <1>5, <2>1 DEF Relayed
  <1>6. ASSUME NEW c \in Clients, down[c] # <<>>, Got(c)
        PROVE  PlainDown
    BY <1>6, PlainGot
  <1>7. ASSUME NEW c \in Clients, ConnectionStep(c)
        PROVE  PlainDown
    BY <1>0, <1>1, <1>7 DEF ConnectionStep, Connect, Join, Leave, SpawnLocally
  <1>8. ASSUME NEW c \in Clients, ServerStep(c)
        PROVE  PlainDown \/ TakeCall(c)
    BY <1>0, <1>2, <1>3, <1>8
       DEF ServerStep, TakeDeregister, TakeThreadGone, TakeEvent, TakeAnswer, ServerCloses, Cleanup
  <1>9. ASSUME NEW c \in Clients, ClientStep(c)
        PROVE  PlainDown
    BY <1>0, <1>6, <1>9 DEF ClientStep, GetAnswer, GetCall, ClientCloses, Gets
  <1>10. ASSUME NEW t \in Threads, ThreadStep(t)
         PROVE  PlainDown
    BY <1>0, <1>10 DEF ThreadStep, Begin, End, TearDown
  <1>11. ASSUME NEW r \in Requests, Issue(r)
         PROVE  PlainDown
    BY <1>0, <1>11 DEF Issue
  <1> QED
    BY <1>5, <1>7, <1>8, <1>9, <1>10, <1>11 DEF Next

\* The call would spawn the thread after the step.
FliesNext(f, t) == Is(f, "call") /\ op'[f.about] = "spawn" /\ target'[f.about] = t

\* A call that was on the wire is about a request that was made.
LEMMA FlyingWas ==
    ASSUME Typed, MadeBefore, Next, NEW d \in Clients, NEW t \in Threads
    PROVE  /\ \A j \in DOMAIN up[d] : FliesNext(up[d][j], t) => Flying(up[d][j], t)
           /\ \A j \in DOMAIN down[d] : FliesNext(down[d][j], t) => Flying(down[d][j], t)
  <1>1. \A r \in Requests : op[r] # "none" => op'[r] = op[r] /\ target'[r] = target[r]
    BY CallersMove
  <1>2. ASSUME NEW j \in DOMAIN up[d], FliesNext(up[d][j], t)
        PROVE  Flying(up[d][j], t)
    <2>1. up[d][j] \in UpFrame /\ Is(up[d][j], "call")
      BY <1>2 DEF Typed, WireOK, FliesNext
    <2>2. up[d][j].about \in Requests /\ op[up[d][j].about] # "none"
      BY <2>1, UpAbout DEF MadeBefore
    <2> QED
      BY <1>1, <1>2, <2>2 DEF FliesNext, Flying
  <1>3. ASSUME NEW j \in DOMAIN down[d], FliesNext(down[d][j], t)
        PROVE  Flying(down[d][j], t)
    <2>1. down[d][j] \in DownFrame /\ Is(down[d][j], "call")
      BY <1>3 DEF Typed, WireOK, FliesNext
    <2>2. down[d][j].about \in Requests /\ op[down[d][j].about] # "none"
      BY <2>1, DownAbout DEF MadeBefore
    <2> QED
      BY <1>1, <1>3, <2>2 DEF FliesNext, Flying
  <1> QED
    BY <1>2, <1>3

\* Nothing that is on the wire would spawn a thread that is fresh.
LEMMA FreshNotFlying ==
    ASSUME Typed, MadeBefore, NEW t \in Threads, Fresh(t), NEW d \in Clients
    PROVE  /\ \A j \in DOMAIN up[d] : ~Flying(up[d][j], t)
           /\ \A j \in DOMAIN down[d] : ~Flying(down[d][j], t)
  <1>1. ASSUME NEW j \in DOMAIN up[d], Flying(up[d][j], t)
        PROVE  FALSE
    <2>1. up[d][j] \in UpFrame /\ Is(up[d][j], "call")
      BY <1>1 DEF Typed, WireOK, Flying
    <2>2. up[d][j].about \in Requests
      BY <2>1, UpAbout
    <2> QED
      BY <1>1, <2>2 DEF Flying, Fresh
  <1>2. ASSUME NEW j \in DOMAIN down[d], Flying(down[d][j], t)
        PROVE  FALSE
    <2>1. down[d][j] \in DownFrame /\ Is(down[d][j], "call")
      BY <1>2 DEF Typed, WireOK, Flying
    <2>2. down[d][j].about \in Requests
      BY <2>1, DownAbout
    <2> QED
      BY <1>2, <2>2 DEF Flying, Fresh
  <1> QED
    BY <1>1, <1>2

\* A thread that gets its place is not spawned by anything still on the wire.
LeavesNew ==
    \A t \in Threads : stage[t] = "new" /\ stage'[t] # "new" =>
        \A d \in Clients : /\ \A i \in DOMAIN up'[d] : ~FliesNext(up'[d][i], t)
                           /\ \A i \in DOMAIN down'[d] : ~FliesNext(down'[d][i], t)

LEMMA SpawningQuiet ==
    ASSUME Typed, MadeBefore, Spawning, Next, QuietUp, PlainDown, LeavesNew
    PROVE  Spawning'
  <1>0. Typed' /\ \A t \in Threads : stage'[t] = "new" => stage[t] = "new"
    BY TypedStep, StageMoves
  <1>1. ASSUME NEW d \in Clients, NEW i \in DOMAIN up'[d], NEW t \in Threads, FliesNext(up'[d][i], t)
        PROVE  stage'[t] = "new" /\ \E j \in DOMAIN up[d] : Flying(up[d][j], t)
    <2>1. ~Quiet(up'[d][i])
      BY <1>1 DEF Quiet, FliesNext
    <2>2. PICK j \in DOMAIN up[d] : up'[d][i] = up[d][j]
      BY <2>1 DEF QuietUp
    <2>3. Flying(up[d][j], t)
      BY <1>1, <2>2, FlyingWas
    <2> QED
      BY <1>1, <2>3 DEF Spawning, FlyingIsNew, LeavesNew
  <1>2. ASSUME NEW d \in Clients
        PROVE  \E k \in Nat : \A i \in DOMAIN down'[d] : \A t \in Threads : FliesNext(down'[d][i], t) =>
                  stage'[t] = "new" /\ i + k \in DOMAIN down[d] /\ Flying(down[d][i + k], t)
    <2>1. PICK k \in Nat : \A i \in DOMAIN down'[d] :
              (i + k \in DOMAIN down[d] /\ down'[d][i] = down[d][i + k]) \/ Plain(down'[d][i])
      BY DEF PlainDown
    <2>2. ASSUME NEW i \in DOMAIN down'[d], NEW t \in Threads, FliesNext(down'[d][i], t)
          PROVE  stage'[t] = "new" /\ i + k \in DOMAIN down[d] /\ Flying(down[d][i + k], t)
      <3>1. ~Plain(down'[d][i])
        BY <2>2 DEF Plain, FliesNext, Is
      <3>2. i + k \in DOMAIN down[d] /\ down'[d][i] = down[d][i + k]
        BY <2>1, <3>1
      <3>3. Flying(down[d][i + k], t)
        BY <2>2, <3>2, FlyingWas
      <3> QED
        BY <2>2, <3>2, <3>3 DEF Spawning, FlyingIsNew, LeavesNew
    <2> QED
      BY <2>2
  <1>3. FlyingIsNew'
    <2>1. ASSUME NEW d \in Clients, NEW i \in DOMAIN up'[d], NEW t \in Threads, Flying(up[d][i], t)'
          PROVE  stage'[t] = "new"
      BY <1>1, <2>1 DEF Flying, FliesNext
    <2>2. ASSUME NEW d \in Clients, NEW i \in DOMAIN down'[d], NEW t \in Threads, Flying(down[d][i], t)'
          PROVE  stage'[t] = "new"
      BY <1>2, <2>2 DEF Flying, FliesNext
    <2> QED
      BY <2>1, <2>2 DEF FlyingIsNew
  <1>4. FlyingOnce'
    <2>1. ASSUME NEW d \in Clients, NEW e \in Clients, NEW i \in DOMAIN up'[d], NEW j \in DOMAIN down'[e],
                 NEW t \in Threads, Flying(up[d][i], t)', Flying(down[e][j], t)'
          PROVE  FALSE
      <3>1. FliesNext(up'[d][i], t) /\ FliesNext(down'[e][j], t)
        BY <2>1 DEF Flying, FliesNext
      <3>2. PICK x \in DOMAIN up[d] : Flying(up[d][x], t)
        BY <1>1, <3>1
      <3>3. PICK y \in DOMAIN down[e] : Flying(down[e][y], t)
        BY <1>2, <3>1
      <3> QED
        BY <3>2, <3>3 DEF Spawning, FlyingOnce
    <2>2. ASSUME NEW d \in Clients, NEW e \in Clients, NEW i \in DOMAIN down'[d], NEW j \in DOMAIN down'[e],
                 NEW t \in Threads, Flying(down[d][i], t)', Flying(down[e][j], t)'
          PROVE  d = e /\ i = j
      <3>1. FliesNext(down'[d][i], t) /\ FliesNext(down'[e][j], t)
        BY <2>2 DEF Flying, FliesNext
      <3>2. d = e
        <4>1. PICK x \in DOMAIN down[d] : Flying(down[d][x], t)
          BY <1>2, <3>1
        <4>2. PICK y \in DOMAIN down[e] : Flying(down[e][y], t)
          BY <1>2, <3>1
        <4> QED
          BY <4>1, <4>2 DEF Spawning, FlyingOnce
      <3>3. PICK k \in Nat : \A x \in DOMAIN down'[d] : \A s \in Threads : FliesNext(down'[d][x], s) =>
                  stage'[s] = "new" /\ x + k \in DOMAIN down[d] /\ Flying(down[d][x + k], s)
        BY <1>2
      <3>4. i + k = j + k
        BY <3>1, <3>2, <3>3 DEF Spawning, FlyingOnce
      <3>5. i \in Nat /\ j \in Nat
        <4>1. down'[d] \in Seq(DownFrame) /\ down'[e] \in Seq(DownFrame)
          BY <1>0 DEF Typed, WireOK
        <4> QED
          BY <4>1
      <3> QED
        BY <3>2, <3>4, <3>5
    <2> QED
      BY <2>1, <2>2 DEF FlyingOnce
  <1>5. AskedIsPlaced'
    <2>1. ASSUME NEW d \in Clients, NEW i \in DOMAIN up'[d], Is(up'[d][i], "thread")
          PROVE  stage'[up'[d][i].about] # "new"
      <3>1. ~Quiet(up'[d][i])
        BY <2>1 DEF Quiet
      <3>2. PICK j \in DOMAIN up[d] : up'[d][i] = up[d][j]
        BY <3>1 DEF QuietUp
      <3>3. up[d][j] \in UpFrame
        BY DEF Typed, WireOK
      <3>4. up[d][j].about \in Threads
        BY <2>1, <3>2, <3>3, UpAbout
      <3> QED
        BY <1>0, <2>1, <3>2, <3>4 DEF Spawning, AskedIsPlaced
    <2>2. ASSUME NEW d \in Clients, NEW i \in DOMAIN down'[d], down'[d][i].about \in Threads
          PROVE  stage'[down'[d][i].about] # "new"
      BY <1>0, <2>2 DEF Spawning, AskedIsPlaced, PlainDown, Plain
    <2> QED
      BY <2>1, <2>2 DEF AskedIsPlaced, Is
  <1> QED
    BY <1>3, <1>4, <1>5 DEF Spawning

\* A frame is put up that concerns one thread that is fresh, or none.
LEMMA SpawningPut ==
    ASSUME Typed, MadeBefore, Spawning, Next, NEW x \in Clients, NEW f \in UpFrame, ClientSends(x, <<f>>), down' = down,
           \A t \in Threads : stage[t] = "new" /\ stage'[t] # "new" => Fresh(t) /\ ~FliesNext(f, t),
           \A t \in Threads : FliesNext(f, t) => Fresh(t),
           Is(f, "thread") => stage'[f.about] # "new"
    PROVE  Spawning'
  <1>0. /\ \A t \in Threads : stage'[t] = "new" => stage[t] = "new"
        /\ WireOK
    BY StageMoves DEF Typed
  <1>1. ASSUME NEW d \in Clients, NEW i \in DOMAIN up'[d], NEW t \in Threads, FliesNext(up'[d][i], t)
        PROVE  /\ stage'[t] = "new"
               /\ Fresh(t) \/ \E j \in DOMAIN up[d] : Flying(up[d][j], t)
    <2>1. CASE up'[d][i] = f
      <3>1. Fresh(t)
        BY <1>1, <2>1
      <3> QED
        BY <1>1, <2>1, <3>1 DEF Fresh
    <2>2. CASE i \in DOMAIN up[d] /\ up'[d][i] = up[d][i]
      <3>1. Flying(up[d][i], t)
        BY <1>1, <2>2, FlyingWas
      <3>2. ~Fresh(t) /\ stage[t] = "new"
        BY <2>2, <3>1, FreshNotFlying DEF Spawning, FlyingIsNew
      <3> QED
        BY <2>2, <3>1, <3>2
    <2> QED
      BY <1>0, <2>1, <2>2, PutsOne
  <1>2. ASSUME NEW d \in Clients, NEW i \in DOMAIN down'[d], NEW t \in Threads, FliesNext(down'[d][i], t)
        PROVE  stage'[t] = "new" /\ Flying(down[d][i], t) /\ ~Fresh(t)
    <2>1. Flying(down[d][i], t)
      BY <1>2, FlyingWas
    <2>2. ~Fresh(t) /\ stage[t] = "new"
      BY <2>1, FreshNotFlying DEF Spawning, FlyingIsNew
    <2> QED
      BY <2>1, <2>2
  <1>3. FlyingIsNew'
    BY <1>1, <1>2 DEF FlyingIsNew, Flying, FliesNext
  <1>4. FlyingOnce'
    <2>1. ASSUME NEW d \in Clients, NEW e \in Clients, NEW i \in DOMAIN up'[d], NEW j \in DOMAIN down'[e],
                 NEW t \in Threads, FliesNext(up'[d][i], t), FliesNext(down'[e][j], t)
          PROVE  FALSE
      <3>1. Flying(down[e][j], t) /\ ~Fresh(t)
        BY <1>2, <2>1
      <3> QED
        BY <1>1, <2>1, <3>1 DEF Spawning, FlyingOnce
    <2>2. ASSUME NEW d \in Clients, NEW e \in Clients, NEW i \in DOMAIN down'[d], NEW j \in DOMAIN down'[e],
                 NEW t \in Threads, FliesNext(down'[d][i], t), FliesNext(down'[e][j], t)
          PROVE  d = e /\ i = j
      BY <1>2, <2>2 DEF Spawning, FlyingOnce
    <2> QED
      BY <2>1, <2>2 DEF FlyingOnce, Flying, FliesNext
  <1>5. AskedIsPlaced'
    <2>1. ASSUME NEW d \in Clients, NEW i \in DOMAIN up'[d], Is(up'[d][i], "thread")
          PROVE  stage'[up'[d][i].about] # "new"
      <3>1. CASE up'[d][i] = f
        BY <2>1, <3>1
      <3>2. CASE i \in DOMAIN up[d] /\ up'[d][i] = up[d][i]
        <4>1. up[d][i] \in UpFrame
          BY <3>2 DEF Typed, WireOK
        <4>2. up[d][i].about \in Threads
          BY <2>1, <3>2, <4>1, UpAbout
        <4> QED
          BY <1>0, <2>1, <3>2, <4>2 DEF Spawning, AskedIsPlaced
      <3> QED
        BY <1>0, <3>1, <3>2, PutsOne
    <2>2. ASSUME NEW d \in Clients, NEW i \in DOMAIN down'[d], down'[d][i].about \in Threads
          PROVE  stage'[down'[d][i].about] # "new"
      BY <1>0, <2>2 DEF Spawning, AskedIsPlaced
    <2> QED
      BY <2>1, <2>2 DEF AskedIsPlaced, Is
  <1> QED
    BY <1>3, <1>4, <1>5 DEF Spawning

LEMMA SpawningSpawn ==
    ASSUME Typed, MadeBefore, Spawning, NEW c \in Clients, NEW u \in Threads, SpawnLocally(c, u)
    PROVE  Spawning'
  <1>1. Next
    BY DEF Next, ConnectionStep
  <1>2. /\ ClientSends(c, <<ThreadFrame("thread", u)>>) /\ Fresh(u) /\ down' = down
        /\ stage' = [stage EXCEPT ![u] = "asked"]
    BY DEF SpawnLocally
  <1>3. ThreadFrame("thread", u) \in UpFrame /\ ThreadFrame("thread", u).about = u
    BY UpFrames DEF ThreadFrame
  <1>4. \A t \in Threads : ~FliesNext(ThreadFrame("thread", u), t)
    BY DEF FliesNext, ThreadFrame, Is
  <1>5. \A t \in Threads : stage'[t] = IF t = u THEN "asked" ELSE stage[t]
    BY <1>2 DEF Typed, ClientsOK
  <1> QED
    BY <1>1, <1>2, <1>3, <1>4, <1>5, SpawningPut

LEMMA SpawningIssue ==
    ASSUME Typed, MadeBefore, Spawning, NEW r \in Requests, Issue(r)
    PROVE  Spawning'
  <1>1. Next
    BY DEF Next
  <1>2. PICK c \in Clients, o \in Ops, u \in Threads :
            /\ o = "spawn" => Fresh(u)
            /\ op' = [op EXCEPT ![r] = o] /\ target' = [target EXCEPT ![r] = u]
            /\ ClientSends(c, <<CallFrame(r)>>)
    BY DEF Issue
  <1>3. CallFrame(r) \in UpFrame /\ CallFrame(r).about = r /\ ~Is(CallFrame(r), "thread")
    BY UpFrames DEF CallFrame, Is
  <1>4. op'[r] = o /\ target'[r] = u
    BY <1>2 DEF Typed, ClientsOK
  <1>5. \A t \in Threads : FliesNext(CallFrame(r), t) => Fresh(t)
    BY <1>2, <1>3, <1>4 DEF FliesNext
  <1>6. stage' = stage /\ down' = down
    BY DEF Issue, workerVars
  <1> QED
    BY <1>1, <1>2, <1>3, <1>5, <1>6, SpawningPut

\* One frame is put down on one connection, behind what is there.
LEMMA SentPutsOne ==
    ASSUME WireOK, NEW x, NEW f \in DownFrame, down' = Sent(down, x, <<f>>)
    PROVE  \A d \in Clients : \A i \in DOMAIN down'[d] :
              \/ i \in DOMAIN down[d] /\ down'[d][i] = down[d][i]
              \/ d = x /\ i = Len(down[x]) + 1 /\ i \notin DOMAIN down[d] /\ down'[d][i] = f
  <1>1. down \in [Clients -> Seq(DownFrame)]
    BY DEF WireOK
  <1>2. CASE down' = down
    BY <1>2
  <1>3. CASE down' = [down EXCEPT ![x] = down[x] \o <<f>>] /\ x \in Clients
    <2>1. down[x] \in Seq(DownFrame)
      BY <1>1, <1>3
    <2>2. \A i \in DOMAIN (down[x] \o <<f>>) :
              \/ i \in DOMAIN down[x] /\ (down[x] \o <<f>>)[i] = down[x][i]
              \/ i = Len(down[x]) + 1 /\ i \notin DOMAIN down[x] /\ (down[x] \o <<f>>)[i] = f
      BY <2>1
    <2> QED
      BY <1>1, <1>3, <2>2
  <1>4. CASE x \notin Clients
    <2>1. down' = down
      BY <1>1, <1>4 DEF Sent
    <2> QED
      BY <1>2, <2>1
  <1> QED
    BY <1>2, <1>3, <1>4 DEF Sent

\* The endpoint moves a call from one connection to another.
LEMMA SpawningTake ==
    ASSUME Typed, MadeBefore, Once, Spawning, NEW c \in Clients, TakeCall(c)
    PROVE  Spawning'
  <1>0. Next /\ WireOK /\ stage' = stage /\ op' = op /\ target' = target /\ up[c] # <<>> /\ Taken(c) /\ Takes(c, "call")
    BY DEF Next, ServerStep, Typed, TakeCall, Takes, workerVars, callerVars
  <1>1. PICK r \in Requests : r = Head(up[c]).about
    BY <1>0, TakenCall
  <1>2. PICK x : RelayTo(r, x)
    BY <1>1 DEF TakeCall
  <1>3. CallFrame(r) \in DownFrame /\ CallFrame(r).about = r
    BY DownFrames DEF CallFrame
  <1>4. 1 \in DOMAIN up[c] /\ Head(up[c]) = up[c][1]
    BY <1>0, TakenShifts
  <1>5. \A d \in Clients : \A i \in DOMAIN down'[d] :
              \/ i \in DOMAIN down[d] /\ down'[d][i] = down[d][i]
              \/ d = x /\ i = Len(down[x]) + 1 /\ down'[d][i] = CallFrame(r)
    BY <1>0, <1>2, <1>3, SentPutsOne DEF RelayTo
  <1>6. \A t \in Threads : Flying(CallFrame(r), t) => Flying(up[c][1], t)
    BY <1>0, <1>1, <1>3, <1>4 DEF Flying, Takes
  <1>7. ASSUME NEW d \in Clients, NEW i \in DOMAIN up'[d], NEW t \in Threads, Flying(up'[d][i], t)
        PROVE  /\ \E j \in DOMAIN up[d] : Flying(up[d][j], t)
               /\ ~Flying(up[c][1], t)
    <2>1. PICK j \in DOMAIN up[d] : up'[d][i] = up[d][j] /\ (d = c => j # 1)
      <3>1. CASE d = c
        <4>1. i + 1 \in DOMAIN up[c] /\ up'[c][i] = up[c][i + 1]
          BY <1>0, <3>1, TakenShifts
        <4>2. i \in Nat \ {0}
          <5>1. up'[c] \in Seq(UpFrame)
            BY <1>0, TypedStep DEF Typed, WireOK
          <5> QED
            BY <3>1, <5>1
        <4> QED
          BY <3>1, <4>1, <4>2
      <3> QED
        BY <1>0, <3>1, TakenShifts
    <2>2. Brings(up[d][j], t)
      BY <1>7, <2>1 DEF Flying, Brings
    <2>3. Flying(up[c][1], t) => Brings(up[c][1], t)
      BY DEF Flying, Brings
    <2> QED
      BY <1>4, <1>7, <2>1, <2>2, <2>3 DEF Once, BroughtOnce
  <1>8. FlyingIsNew'
    <2>1. ASSUME NEW d \in Clients, NEW i \in DOMAIN up'[d], NEW t \in Threads, Flying(up'[d][i], t)
          PROVE  stage[t] = "new"
      BY <1>7, <2>1 DEF Spawning, FlyingIsNew
    <2>2. ASSUME NEW d \in Clients, NEW i \in DOMAIN down'[d], NEW t \in Threads, Flying(down'[d][i], t)
          PROVE  stage[t] = "new"
      BY <1>4, <1>5, <1>6, <2>2 DEF Spawning, FlyingIsNew
    <2> QED
      BY <1>0, <2>1, <2>2 DEF FlyingIsNew, Flying
  <1>9. FlyingOnce'
    <2>1. ASSUME NEW d \in Clients, NEW e \in Clients, NEW i \in DOMAIN up'[d], NEW j \in DOMAIN down'[e],
                 NEW t \in Threads, Flying(up'[d][i], t), Flying(down'[e][j], t)
          PROVE  FALSE
      BY <1>5, <1>6, <1>7, <2>1 DEF Spawning, FlyingOnce
    <2>2. ASSUME NEW d \in Clients, NEW e \in Clients, NEW i \in DOMAIN down'[d], NEW j \in DOMAIN down'[e],
                 NEW t \in Threads, Flying(down'[d][i], t), Flying(down'[e][j], t)
          PROVE  d = e /\ i = j
      BY <1>4, <1>5, <1>6, <2>2 DEF Spawning, FlyingOnce
    <2> QED
      BY <1>0, <2>1, <2>2 DEF FlyingOnce, Flying
  <1>10. AskedIsPlaced'
    <2>1. ASSUME NEW d \in Clients, NEW i \in DOMAIN up'[d], Is(up'[d][i], "thread")
          PROVE  stage[up'[d][i].about] # "new"
      <3>1. PICK j \in DOMAIN up[d] : up'[d][i] = up[d][j]
        BY <1>0, TakenShifts
      <3> QED
        BY <2>1, <3>1 DEF Spawning, AskedIsPlaced
    <2>2. ASSUME NEW d \in Clients, NEW i \in DOMAIN down'[d], down'[d][i].about \in Threads
          PROVE  stage[down'[d][i].about] # "new"
      BY <1>3, <1>5, <2>2, RemoteAssumption DEF Spawning, AskedIsPlaced
    <2> QED
      BY <1>0, <2>1, <2>2 DEF AskedIsPlaced, Is
  <1> QED
    BY <1>8, <1>9, <1>10 DEF Spawning

LEMMA SpawningStep ==
    ASSUME Typed, MadeBefore, Once, Spawning, [Next]_vars
    PROVE  Spawning'
  <1>1. CASE UNCHANGED vars
    BY <1>1 DEF vars, wireVars, workerVars, callerVars, Spawning, FlyingIsNew, FlyingOnce, AskedIsPlaced, Flying
  <1>2. CASE Next
    <2>1. CASE \E r \in Requests : Issue(r)
      BY <2>1, SpawningIssue
    <2>2. CASE \E c \in Clients, t \in Threads : SpawnLocally(c, t)
      BY <2>2, SpawningSpawn
    <2>3. CASE \E c \in Clients : TakeCall(c)
      BY <2>3, SpawningTake
    <2>4. CASE /\ ~\E r \in Requests : Issue(r)
               /\ ~\E c \in Clients, t \in Threads : SpawnLocally(c, t)
               /\ ~\E c \in Clients : TakeCall(c)
      <3>1. QuietUp /\ PlainDown
        BY <1>2, <2>4, UpMoves, DownMoves
      <3>2. LeavesNew
        <4> SUFFICES ASSUME NEW t \in Threads, stage[t] = "new", stage'[t] # "new", NEW d \in Clients
                     PROVE  /\ \A i \in DOMAIN up'[d] : ~FliesNext(up'[d][i], t)
                            /\ \A i \in DOMAIN down'[d] : ~FliesNext(down'[d][i], t)
          BY DEF LeavesNew
        <4>1. PICK c \in Clients : Gets(c, "call") /\ Got(c) /\ Flying(Head(down[c]), t)
          BY <1>2, <2>4, PlacedStep DEF Placed
        <4>2. down[c] # <<>> /\ WireOK
          BY <4>1 DEF Gets, Typed
        <4>3. 1 \in DOMAIN down[c] /\ Head(down[c]) = down[c][1]
          BY <4>1, <4>2, GotShifts
        <4>4. ASSUME NEW i \in DOMAIN up'[d], FliesNext(up'[d][i], t)
              PROVE  FALSE
          <5>1. ~Quiet(up'[d][i])
            BY <4>4 DEF Quiet, FliesNext
          <5>2. PICK j \in DOMAIN up[d] : up'[d][i] = up[d][j]
            BY <3>1, <5>1 DEF QuietUp
          <5>3. Flying(up[d][j], t)
            BY <1>2, <4>4, <5>2, FlyingWas
          <5> QED
            BY <4>1, <4>3, <5>3 DEF Spawning, FlyingOnce
        <4>5. ASSUME NEW i \in DOMAIN down'[d], FliesNext(down'[d][i], t)
              PROVE  FALSE
          <5>1. PICK j \in DOMAIN down[d] : down'[d][i] = down[d][j] /\ (d = c => j # 1)
            <6>1. CASE d = c
              <7>1. i + 1 \in DOMAIN down[c] /\ down'[c][i] = down[c][i + 1]
                BY <4>1, <4>2, <6>1, GotShifts
              <7>2. i \in Nat \ {0}
                <8>1. down'[c] \in Seq(DownFrame)
                  BY <1>2, TypedStep DEF Typed, WireOK
                <8> QED
                  BY <6>1, <8>1
              <7> QED
                BY <6>1, <7>1, <7>2
            <6> QED
              BY <4>1, <4>2, <6>1, GotShifts
          <5>2. Flying(down[d][j], t)
            BY <1>2, <4>5, <5>1, FlyingWas
          <5> QED
            BY <4>1, <4>3, <5>1, <5>2 DEF Spawning, FlyingOnce
        <4> QED
          BY <4>4, <4>5
      <3> QED
        BY <1>2, <3>1, <3>2, SpawningQuiet
    <2> QED
      BY <2>1, <2>2, <2>3, <2>4
  <1> QED
    BY <1>1, <1>2

----------------------------------------------------------------------------
(* A thread that has a place is behind a connection that was made.         *)

Linked ==
    /\ \A c \in Clients : /\ client[c] = "open" => link[c] # "none"
                          /\ link[c] = "up" => client[c] = "open"
    /\ \A t \in Threads : stage[t] # "new" => home[t] \in Clients /\ link[home[t]] # "none"

LEMMA LinkMoves ==
    ASSUME Typed, Next
    PROVE  \A c \in Clients :
              \/ link'[c] = link[c] /\ client'[c] = client[c]
              \/ link[c] = "none" /\ link'[c] = "up" /\ client'[c] = "open"
              \/ link[c] = "up" /\ link'[c] = "down" /\ client'[c] = client[c]
              \/ link[c] = "down" /\ link'[c] = "down" /\ client'[c] = "closed"
  <1>0. link \in [Clients -> {"none", "up", "down"}] /\ client \in [Clients -> {"none", "open", "closed"}]
    BY DEF Typed, WireOK
  <1>1. ASSUME NEW c \in Clients, Connect(c) \/ Drop(c) \/ ClientCloses(c)
        PROVE  \A d \in Clients :
              \/ link'[d] = link[d] /\ client'[d] = client[d]
              \/ link[d] = "none" /\ link'[d] = "up" /\ client'[d] = "open"
              \/ link[d] = "up" /\ link'[d] = "down" /\ client'[d] = client[d]
              \/ link[d] = "down" /\ link'[d] = "down" /\ client'[d] = "closed"
    BY <1>0, <1>1 DEF Connect, Drop, ClientCloses
  <1>2. ASSUME NEW c \in Clients, ConnectionStep(c) \/ ServerStep(c) \/ GetAnswer(c) \/ GetCall(c)
        PROVE  UNCHANGED <<link, client>> \/ Connect(c) \/ Drop(c)
    BY <1>2 DEF ConnectionStep, Join, Leave, SpawnLocally, ServerStep, TakeRegister, GetAnswer, GetCall,
       TakeDeregister, TakeThread, TakeThreadGone, TakeEvent, TakeCall, TakeAnswer, ServerCloses, Cleanup
  <1>3. ASSUME NEW t \in Threads, ThreadStep(t)
        PROVE  UNCHANGED <<link, client>>
    BY <1>3 DEF ThreadStep, Begin, End, TearDown
  <1>4. ASSUME NEW r \in Requests, Relayed(r) \/ Issue(r)
        PROVE  UNCHANGED <<link, client>>
    BY <1>4 DEF Relayed, Issue
  <1> QED
    BY <1>1, <1>2, <1>3, <1>4 DEF Next, ClientStep

LEMMA LinkedStep ==
    ASSUME Typed, MadeBefore, Spawning, Linked, [Next]_vars
    PROVE  Linked'
  <1>1. CASE UNCHANGED vars
    BY <1>1 DEF vars, wireVars, workerVars, Linked
  <1>2. CASE Next
    <2>1. \A c \in Clients : /\ client'[c] = "open" => link'[c] # "none"
                             /\ link'[c] = "up" => client'[c] = "open"
                             /\ link[c] # "none" => link'[c] # "none"
      BY <1>2, LinkMoves DEF Linked
    <2>2. ASSUME NEW t \in Threads, stage'[t] # "new"
          PROVE  home'[t] \in Clients /\ link'[home'[t]] # "none"
      <3>1. home'[t] \in Clients /\ link[home'[t]] # "none"
        BY <1>2, <2>2, PlacedStep DEF Placed, Linked
      <3> QED
        BY <2>1, <3>1
    <2> QED
      BY <2>1, <2>2 DEF Linked
  <1> QED
    BY <1>1, <1>2

LEMMA PlacesInit == Init => Working /\ Spawning /\ Linked
  <1> SUFFICES ASSUME Init PROVE Working /\ Spawning /\ Linked
    OBVIOUS
  <1>1. DOMAIN <<>> = {}
    OBVIOUS
  <1>2. \A d \in Clients : DOMAIN up[d] = {} /\ DOMAIN down[d] = {} /\ link[d] = "none" /\ client[d] = "none"
    BY <1>1 DEF Init
  <1>3. \A t \in Threads : DOMAIN queue[t] = {} /\ cycle[t] = Nobody /\ stage[t] = "new"
    BY <1>1 DEF Init
  <1> QED
    BY <1>2, <1>3 DEF Working, Spawning, FlyingIsNew, FlyingOnce, AskedIsPlaced, Linked

----------------------------------------------------------------------------
(* Where the value of a request comes from.                                *)

Yes(f, r) == Is(f, "answer") /\ f.about = r /\ f.ok = TRUE

\* The value has left the connection of the worker.
Delivered(r) ==
    \/ fut[r] = "value" \/ relay[r] = "value"
    \/ \E c \in Clients : \E i \in DOMAIN down[c] : Yes(down[c][i], r)

LEMMA FutFrom ==
    ASSUME Typed, Next, NEW r \in Requests, fut'[r] = "value"
    PROVE  fut[r] = "value" \/ \E c \in Clients : \E i \in DOMAIN down[c] : Yes(down[c][i], r)
  <1>0. fut \in [Requests -> {"new", "pending", "value", "error"}]
    BY DEF Typed, ClientsOK
  <1>1. ASSUME NEW c \in Clients, GetAnswer(c)
        PROVE  fut[r] = "value" \/ \E i \in DOMAIN down[c] : Yes(down[c][i], r)
    <2>1. down[c] # <<>> /\ Got(c) /\ Is(Head(down[c]), "answer") /\ WireOK
      BY <1>1 DEF GetAnswer, Gets, Typed
    <2>2. 1 \in DOMAIN down[c] /\ Head(down[c]) = down[c][1] /\ Head(down[c]) \in DownFrame
      BY <2>1, GotShifts
    <2>3. Head(down[c]).ok \in BOOLEAN
      BY <2>1, <2>2, DownAbout
    <2>4. fut'[r] = fut[r] \/ (Head(down[c]).about = r /\ Head(down[c]).ok)
      BY <1>0, <1>1 DEF GetAnswer
    <2>5. fut[r] = "value" \/ Yes(Head(down[c]), r)
      BY <2>1, <2>3, <2>4 DEF Yes
    <2> QED
      BY <2>2, <2>5
  <1>2. ASSUME NEW c \in Clients, ClientCloses(c)
        PROVE  fut[r] = "value"
    BY <1>0, <1>2 DEF ClientCloses
  <1>3. ASSUME NEW c \in Clients, ConnectionStep(c) \/ ServerStep(c) \/ GetCall(c)
        PROVE  fut' = fut
    BY <1>3 DEF ConnectionStep, Connect, Join, Leave, Drop, SpawnLocally, ServerStep, TakeRegister, GetCall,
       TakeDeregister, TakeThread, TakeThreadGone, TakeEvent, TakeCall, TakeAnswer, ServerCloses, Cleanup, callerVars
  <1>4. ASSUME NEW t \in Threads, ThreadStep(t)
        PROVE  fut' = fut
    BY <1>4 DEF ThreadStep, Begin, End, TearDown, callerVars
  <1>5. ASSUME NEW q \in Requests, Relayed(q)
        PROVE  fut' = fut
    BY <1>5 DEF Relayed, callerVars
  <1>6. ASSUME NEW q \in Requests, Issue(q)
        PROVE  fut[r] = "value"
    BY <1>0, <1>6 DEF Issue
  <1> QED
    BY <1>1, <1>2, <1>3, <1>4, <1>5, <1>6 DEF Next, ClientStep

LEMMA RelayFrom ==
    ASSUME Typed, MadeBefore, Next, NEW r \in Requests, relay'[r] = "value"
    PROVE  relay[r] = "value" \/ \E c \in Clients : up[c] # <<>> /\ Taken(c) /\ Yes(Head(up[c]), r)
  <1>0. relay \in [Requests -> {"none", "waiting", "value", "error", "orphan", "done"}] /\ WireOK
    BY DEF Typed, EndpointOK
  <1>1. ASSUME NEW c \in Clients, TakeAnswer(c)
        PROVE  relay[r] = "value" \/ (up[c] # <<>> /\ Taken(c) /\ Yes(Head(up[c]), r))
    <2>1. up[c] # <<>> /\ Taken(c) /\ Is(Head(up[c]), "answer")
      BY <1>1 DEF TakeAnswer, Takes
    <2>2. Head(up[c]) \in UpFrame
      BY <1>0, <2>1, TakenShifts
    <2>3. Head(up[c]).ok \in BOOLEAN
      BY <2>1, <2>2, UpAbout
    <2>4. relay'[r] = relay[r] \/ (Head(up[c]).about = r /\ Head(up[c]).ok)
      BY <1>0, <1>1 DEF TakeAnswer
    <2> QED
      BY <2>1, <2>3, <2>4 DEF Yes
  <1>2. ASSUME NEW c \in Clients, ServerCloses(c)
        PROVE  relay[r] = "value"
    BY <1>0, <1>2 DEF ServerCloses
  <1>3. ASSUME NEW c \in Clients, TakeCall(c)
        PROVE  relay[r] = "value"
    <2>1. PICK q, x : RelayTo(q, x)
      BY <1>3 DEF TakeCall
    <2> QED
      BY <1>0, <2>1 DEF RelayTo
  <1>4. ASSUME NEW c \in Clients, ConnectionStep(c) \/ ClientStep(c)
        PROVE  relay' = relay
    BY <1>4 DEF ConnectionStep, Connect, Join, Leave, Drop, SpawnLocally, ClientStep, GetAnswer, GetCall,
       ClientCloses, relayVars
  <1>5. ASSUME NEW c \in Clients, ServerStep(c)
        PROVE  relay' = relay \/ TakeAnswer(c) \/ TakeCall(c) \/ ServerCloses(c)
    BY <1>5 DEF ServerStep, TakeRegister, TakeDeregister, TakeThread, TakeThreadGone, TakeEvent, Cleanup, relayVars
  <1>6. ASSUME NEW t \in Threads, ThreadStep(t)
        PROVE  relay' = relay
    BY <1>6 DEF ThreadStep, Begin, End, TearDown, relayVars
  <1>7. ASSUME NEW q \in Requests, Relayed(q)
        PROVE  relay[r] = "value"
    BY <1>0, <1>7 DEF Relayed
  <1>8. ASSUME NEW q \in Requests, Issue(q)
        PROVE  relay' = relay
    BY <1>8 DEF Issue, relayVars
  <1> QED
    BY <1>1, <1>2, <1>3, <1>4, <1>5, <1>6, <1>7, <1>8 DEF Next

\* A value that is put down was in the relay.
YesFrom ==
    \A d \in Clients : \A i \in DOMAIN down'[d] : \A r \in Requests : Yes(down'[d][i], r) =>
        relay[r] = "value" \/ \E j \in DOMAIN down[d] : down[d][j] = down'[d][i]

LEMMA YesExtends ==
    ASSUME NEW F, Extends(down, down', F), \A f \in F : \A r \in Requests : Yes(f, r) => relay[r] = "value"
    PROVE  YesFrom
  BY DEF YesFrom, Extends

LEMMA YesAnswer ==
    ASSUME WireOK, NEW x, NEW a \in Wids \cup Threads \cup Requests, NEW ok \in BOOLEAN,
           down' = Sent(down, x, <<Answer(a, ok)>>), a \in Requests /\ ok => relay[a] = "value"
    PROVE  YesFrom
  <1>1. Answer(a, ok) \in DownFrame
    BY DownFrames
  <1>2. \A r \in Requests : Yes(Answer(a, ok), r) => r = a /\ ok
    BY DEF Answer, Yes
  <1>3. Extends(down, down', {Answer(a, ok)})
    BY <1>1, SentOne DEF WireOK
  <1> QED
    BY <1>2, <1>3, YesExtends

LEMMA YesStep ==
    ASSUME Typed, MadeBefore, Next
    PROVE  YesFrom
  <1>0. WireOK
    BY DEF Typed
  <1>1. ASSUME down' = down
        PROVE  YesFrom
    BY <1>1 DEF YesFrom
  <1>2. ASSUME NEW c \in Clients, Drop(c)
        PROVE  YesFrom
    BY <1>0, <1>2, DropCuts DEF YesFrom
  <1>3. ASSUME NEW c \in Clients, TakeRegister(c)
        PROVE  YesFrom
    <2>1. Head(up[c]).about \in Wids /\ Head(up[c]).about \notin Requests
      BY <1>0, <1>3, TakenType, UpAbout, RemoteAssumption DEF TakeRegister, WireOK
    <2>2. down' = Sent(down, c, <<Answer(Head(up[c]).about, pool[Head(up[c]).about] = Nobody)>>)
      BY <1>3 DEF TakeRegister
    <2> QED
      BY <1>0, <2>1, <2>2, YesAnswer
  <1>4. ASSUME NEW c \in Clients, TakeThread(c)
        PROVE  YesFrom
    <2>1. Head(up[c]).about \in Threads /\ Head(up[c]).about \notin Requests
      BY <1>0, <1>4, TakenType, UpAbout, RemoteAssumption DEF TakeThread, WireOK
    <2>2. down' = Sent(down, c, <<Answer(Head(up[c]).about, pool[wid[c]] # Nobody)>>)
      BY <1>4 DEF TakeThread
    <2> QED
      BY <1>0, <2>1, <2>2, YesAnswer
  <1>5. ASSUME NEW c \in Clients, TakeCall(c)
        PROVE  YesFrom
    <2>1. Takes(c, "call")
      BY <1>5 DEF TakeCall
    <2>2. PICK r \in Requests : r = Head(up[c]).about
      BY <2>1, TakenCall
    <2>3. PICK d : RelayTo(r, d)
      BY <1>5, <2>2 DEF TakeCall
    <2>4. CASE down' = Sent(down, d, <<CallFrame(r)>>)
      <3>1. CallFrame(r) \in DownFrame /\ \A q \in Requests : ~Yes(CallFrame(r), q)
        BY DownFrames DEF CallFrame, Yes, Is
      <3>2. Extends(down, down', {CallFrame(r)})
        BY <1>0, <2>4, <3>1, SentOne DEF WireOK
      <3> QED
        BY <3>1, <3>2, YesExtends
    <2> QED
      BY <1>1, <2>3, <2>4 DEF RelayTo
  <1>6. ASSUME NEW r \in Requests, Relayed(r)
        PROVE  YesFrom
    <2>1. CASE down' = Sent(down, by[r], <<Answer(r, relay[r] = "value")>>)
      <3>1. (relay[r] = "value") \in BOOLEAN
        OBVIOUS
      <3> QED
        BY <1>0, <2>1, <3>1, YesAnswer
    <2> QED
      BY <1>1, <1>6, <2>1 DEF Relayed
  <1>7. ASSUME NEW c \in Clients, down[c] # <<>>, Got(c)
        PROVE  YesFrom
    BY <1>0, <1>7, GotShifts DEF YesFrom
  <1>8. ASSUME NEW c \in Clients, ConnectionStep(c)
        PROVE  YesFrom
    BY <1>1, <1>2, <1>8 DEF ConnectionStep, Connect, Join, Leave, SpawnLocally
  <1>9. ASSUME NEW c \in Clients, ServerStep(c)
        PROVE  YesFrom
    BY <1>1, <1>3, <1>4, <1>5, <1>9
       DEF ServerStep, TakeDeregister, TakeThreadGone, TakeEvent, TakeAnswer, ServerCloses, Cleanup
  <1>10. ASSUME NEW c \in Clients, ClientStep(c)
         PROVE  YesFrom
    BY <1>1, <1>7, <1>10 DEF ClientStep, GetAnswer, GetCall, ClientCloses, Gets
  <1>11. ASSUME NEW t \in Threads, ThreadStep(t)
         PROVE  YesFrom
    BY <1>1, <1>11 DEF ThreadStep, Begin, End, TearDown
  <1>12. ASSUME NEW r \in Requests, Issue(r)
         PROVE  YesFrom
    BY <1>1, <1>12 DEF Issue
  <1> QED
    BY <1>6, <1>8, <1>9, <1>10, <1>11, <1>12 DEF Next

\* A value is delivered once the endpoint has read it.
LEMMA DeliveredStep ==
    ASSUME Typed, MadeBefore, Next, NEW r \in Requests, Delivered(r)'
    PROVE  Delivered(r) \/ \E c \in Clients : up[c] # <<>> /\ Taken(c) /\ Yes(Head(up[c]), r)
  <1>1. CASE fut'[r] = "value"
    BY <1>1, FutFrom DEF Delivered
  <1>2. CASE relay'[r] = "value"
    BY <1>2, RelayFrom DEF Delivered
  <1>3. CASE \E c \in Clients : \E i \in DOMAIN down'[c] : Yes(down'[c][i], r)
    BY <1>3, YesStep DEF YesFrom, Delivered
  <1> QED
    BY <1>1, <1>2, <1>3 DEF Delivered, Yes, Is

\* A request that is a submit, or may become one.
Owed(r) == op[r] \in {"none", "submit"}

LEMMA OwedWas ==
    ASSUME Typed, MadeBefore, Next, NEW r \in Requests
    PROVE  /\ Owed(r)' => Owed(r)
           /\ op[r] # "none" => op'[r] = op[r] /\ target'[r] = target[r]
  BY CallersMove DEF Owed

\* The log of a thread only grows.
LEMMA LogGrows ==
    ASSUME Typed, Next, NEW t \in Threads
    PROVE  \A i \in DOMAIN log[t] : i \in DOMAIN log'[t] /\ log'[t][i] = log[t][i]
  <1>0. log \in [Threads -> Seq(Kinds)] /\ WireOK
    BY DEF Typed, EndpointOK
  <1>1. \A e \in Kinds : \A i \in DOMAIN log[t] : i \in DOMAIN Append(log[t], e) /\ Append(log[t], e)[i] = log[t][i]
    <2>1. log[t] \in Seq(Kinds)
      BY <1>0
    <2> QED
      BY <2>1
  <1>2. ASSUME log' = log \/ \E e \in Kinds : log'[t] = Append(log[t], e)
        PROVE  \A i \in DOMAIN log[t] : i \in DOMAIN log'[t] /\ log'[t][i] = log[t][i]
    BY <1>1, <1>2
  <1>3. ASSUME NEW W, LoseWorkers(W)
        PROVE  log'[t] = log[t] \/ log'[t] = Append(log[t], "lost")
    BY <1>3 DEF LoseWorkers
  <1>4. "lost" \in Kinds
    BY DEF Kinds
  <1>5. ASSUME NEW c \in Clients, TakeEvent(c)
        PROVE  log'[t] = log[t] \/ \E e \in Kinds : log'[t] = Append(log[t], e)
    <2>1. Head(up[c]).event \in Kinds
      BY <1>0, <1>5, TakenType, UpAbout DEF TakeEvent, WireOK
    <2> QED
      BY <1>0, <1>5, <2>1 DEF TakeEvent
  <1>6. ASSUME NEW c \in Clients, ServerStep(c)
        PROVE  log' = log \/ TakeEvent(c) \/ \E W : LoseWorkers(W)
    BY <1>6 DEF ServerStep, TakeRegister, TakeDeregister, TakeThread, TakeThreadGone, TakeCall, TakeAnswer,
       ServerCloses, Cleanup, coordVars
  <1>7. ASSUME NEW c \in Clients, ConnectionStep(c) \/ ClientStep(c)
        PROVE  log' = log
    BY <1>7 DEF ConnectionStep, Connect, Join, Leave, Drop, SpawnLocally, ClientStep, GetAnswer, GetCall,
       ClientCloses, coordVars
  <1>8. ASSUME NEW s \in Threads, ThreadStep(s)
        PROVE  log' = log
    BY <1>8 DEF ThreadStep, Begin, End, TearDown, coordVars
  <1>9. ASSUME NEW q \in Requests, Relayed(q) \/ Issue(q)
        PROVE  log' = log
    BY <1>9 DEF Relayed, Issue, coordVars
  <1>10. log' = log \/ log'[t] = log[t] \/ \E e \in Kinds : log'[t] = Append(log[t], e)
    BY <1>3, <1>4, <1>5, <1>6, <1>7, <1>8, <1>9 DEF Next
  <1> QED
    BY <1>2, <1>10

\* A cycle that runs after a step was running, or begins in it.
LEMMA CyclesFrom ==
    ASSUME Typed, MadeBefore, Next, NEW t \in Threads, cycle'[t] # Nobody
    PROVE  cycle'[t] = cycle[t] \/ Begin(t)
  <1>0. cycle \in [Threads -> Requests \cup {Nobody}]
    BY DEF Typed, ClientsOK
  <1>1. ASSUME NEW c \in Clients, GetCall(c)
        PROVE  cycle'[t] = cycle[t] \/ cycle'[t] = Nobody
    <2>1. PICK r \in Requests, u \in Threads : AnswersCall(c, r, u)
      BY <1>1, GetCallCases
    <2> QED
      BY <1>0, <2>1 DEF AnswersCall
  <1>2. ASSUME NEW c \in Clients, ConnectionStep(c) \/ ServerStep(c) \/ GetAnswer(c) \/ ClientCloses(c)
        PROVE  cycle' = cycle
    BY <1>2 DEF ConnectionStep, Connect, Join, Leave, Drop, SpawnLocally, ServerStep, TakeRegister, GetAnswer,
       TakeDeregister, TakeThread, TakeThreadGone, TakeEvent, TakeCall, TakeAnswer, ServerCloses, Cleanup,
       ClientCloses, workerVars
  <1>3. ASSUME NEW s \in Threads, ThreadStep(s)
        PROVE  cycle'[t] = cycle[t] \/ cycle'[t] = Nobody \/ Begin(t)
    BY <1>0, <1>3 DEF ThreadStep, Begin, End, TearDown
  <1>4. ASSUME NEW q \in Requests, Relayed(q) \/ Issue(q)
        PROVE  cycle' = cycle
    BY <1>4 DEF Relayed, Issue, workerVars
  <1> QED
    BY <1>1, <1>2, <1>3, <1>4 DEF Next, ClientStep

\* Frames are put behind those that are there, and a submit is answered with a
\* value only by the cycle that ran it.
PutsUp ==
    \A d \in Clients :
        /\ \A i \in DOMAIN up[d] : i \in DOMAIN up'[d] /\ up'[d][i] = up[d][i]
        /\ \A i \in DOMAIN up'[d] : i \notin DOMAIN up[d] =>
              /\ link[d] = "up"
              /\ \A r \in Requests : Owed(r) /\ Yes(up'[d][i], r) => \E t \in Threads : cycle[t] = r /\ home[t] = d

LEMMA PutsUpSame ==
    ASSUME up' = up
    PROVE  PutsUp
  BY DEF PutsUp

LEMMA PutsUpFrames ==
    ASSUME WireOK, NEW x, NEW f \in UpFrame, NEW g \in UpFrame,
           \/ ClientSends(x, <<f>>)
           \/ ClientSends(x, <<f, g>>),
           \A r \in Requests : Owed(r) /\ Yes(f, r) => \E t \in Threads : cycle[t] = r /\ home[t] = x,
           \A r \in Requests : ~Yes(g, r) \/ g = f
    PROVE  PutsUp
  <1>1. Puts(x, {f, g})
    BY PutsFrames
  <1>2. \A r \in Requests : Owed(r) /\ Yes(g, r) => \E t \in Threads : cycle[t] = r /\ home[t] = x
    OBVIOUS
  <1> QED
    BY <1>1, <1>2 DEF Puts, PutsUp

LEMMA NoFrames ==
    /\ \A w, r : ~Yes(WorkerFrame("register", w), r) /\ ~Yes(WorkerFrame("deregister", w), r)
    /\ \A t, r : ~Yes(ThreadFrame("thread", t), r) /\ ~Yes(ThreadFrame("unthread", t), r)
    /\ \A t, e, r : ~Yes(EventFrame(t, e), r)
    /\ \A q, r : ~Yes(CallFrame(q), r)
    /\ \A q, r : ~Yes(Answer(q, FALSE), r)
    /\ \A q, ok, r : Yes(Answer(q, ok), r) => r = q
  BY DEF Yes, Is, WorkerFrame, ThreadFrame, EventFrame, CallFrame, Answer

LEMMA UpConnection ==
    ASSUME Typed, NEW c \in Clients, ConnectionStep(c)
    PROVE  PutsUp \/ Drop(c)
  <1>0. WireOK /\ wid[c] \in Wids
    BY DEF Typed, ClientsOK
  <1>1. CASE Connect(c)
    BY <1>1, PutsUpSame DEF Connect
  <1>2. CASE Join(c)
    <2>1. ClientSends(c, <<WorkerFrame("register", wid[c])>>) /\ WorkerFrame("register", wid[c]) \in UpFrame
      BY <1>0, <1>2, UpFrames DEF Join
    <2> QED
      BY <1>0, <2>1, NoFrames, PutsUpFrames
  <1>3. CASE Leave(c)
    <2>1. ClientSends(c, <<WorkerFrame("deregister", wid[c])>>) /\ WorkerFrame("deregister", wid[c]) \in UpFrame
      BY <1>0, <1>3, UpFrames DEF Leave
    <2> QED
      BY <1>0, <2>1, NoFrames, PutsUpFrames
  <1>4. ASSUME NEW t \in Threads, SpawnLocally(c, t)
        PROVE  PutsUp
    <2>1. ClientSends(c, <<ThreadFrame("thread", t)>>) /\ ThreadFrame("thread", t) \in UpFrame
      BY <1>4, UpFrames DEF SpawnLocally
    <2> QED
      BY <1>0, <2>1, NoFrames, PutsUpFrames
  <1> QED
    BY <1>1, <1>2, <1>3, <1>4 DEF ConnectionStep

LEMMA UpClient ==
    ASSUME Typed, MadeBefore, NEW c \in Clients, ClientStep(c)
    PROVE  PutsUp
  <1>0. WireOK /\ "cancelled" \in Kinds
    BY DEF Typed, Kinds
  <1>1. CASE GetAnswer(c) \/ ClientCloses(c)
    BY <1>1, PutsUpSame DEF GetAnswer, ClientCloses
  <1>2. CASE GetCall(c)
    <2>1. PICK r \in Requests, t \in Threads :
              /\ AnswersCall(c, r, t) /\ op[r] # "none"
              /\ op[r] = "submit" => up' = up \/ ClientSends(c, <<Answer(r, FALSE)>>)
      BY <1>2, GetCallKinds
    <2>2. Answer(r, TRUE) \in UpFrame /\ Answer(r, FALSE) \in UpFrame /\ EventFrame(t, "cancelled") \in UpFrame
      BY <1>0, UpFrames
    <2>3. CASE up' = up
      BY <2>3, PutsUpSame
    <2>4. CASE ClientSends(c, <<Answer(r, FALSE)>>)
      BY <1>0, <2>2, <2>4, NoFrames, PutsUpFrames
    <2>5. CASE op[r] # "submit"
      <3>1. \A q \in Requests : ~(Owed(q) /\ Yes(Answer(r, TRUE), q))
        BY <2>1, <2>5, NoFrames DEF Owed
      <3>2. CASE ClientSends(c, <<Answer(r, TRUE)>>)
        BY <1>0, <2>2, <3>1, <3>2, PutsUpFrames
      <3>3. CASE ClientSends(c, <<Answer(r, TRUE), EventFrame(t, "cancelled")>>)
        BY <1>0, <2>2, <3>1, <3>3, NoFrames, PutsUpFrames
      <3> QED
        BY <2>1, <2>3, <2>4, <3>2, <3>3 DEF AnswersCall
    <2> QED
      BY <2>1, <2>3, <2>4, <2>5
  <1> QED
    BY <1>1, <1>2 DEF ClientStep

LEMMA UpThread ==
    ASSUME Typed, NEW t \in Threads, ThreadStep(t)
    PROVE  PutsUp
  <1>0. WireOK /\ {"started", "completed", "failed"} \subseteq Kinds
    BY DEF Typed, Kinds
  <1>1. CASE Begin(t)
    <2>1. ClientSends(home[t], <<EventFrame(t, "started")>>) /\ EventFrame(t, "started") \in UpFrame
      BY <1>0, <1>1, UpFrames DEF Begin
    <2> QED
      BY <1>0, <2>1, NoFrames, PutsUpFrames
  <1>2. CASE End(t)
    <2>1. cycle[t] \in Requests
      BY <1>2 DEF End, Typed, ClientsOK
    <2>2. PICK ok \in BOOLEAN, e \in Kinds : ClientSends(home[t], <<Answer(cycle[t], ok), EventFrame(t, e)>>)
      BY <1>0, <1>2 DEF End
    <2>3. Answer(cycle[t], ok) \in UpFrame /\ EventFrame(t, e) \in UpFrame
      BY <2>1, UpFrames
    <2>4. \A r \in Requests : Yes(Answer(cycle[t], ok), r) => \E s \in Threads : cycle[s] = r /\ home[s] = home[t]
      BY NoFrames
    <2>5. \A r \in Requests : ~Yes(EventFrame(t, e), r)
      BY NoFrames
    <2> DEFINE x == home[t]
               f == Answer(cycle[t], ok)
               g == EventFrame(t, e)
    <2>6. /\ f \in UpFrame /\ g \in UpFrame /\ ClientSends(x, <<f, g>>)
          /\ \A r \in Requests : Owed(r) /\ Yes(f, r) => \E s \in Threads : cycle[s] = r /\ home[s] = x
          /\ \A r \in Requests : ~Yes(g, r)
      BY <2>2, <2>3, <2>4, <2>5
    <2> HIDE DEF x, f, g
    <2> QED
      BY <1>0, <2>6, PutsUpFrames
  <1>3. CASE TearDown(t)
    <2>1. ClientSends(home[t], <<ThreadFrame("unthread", t)>>) /\ ThreadFrame("unthread", t) \in UpFrame
      BY <1>3, UpFrames DEF TearDown
    <2> QED
      BY <1>0, <2>1, NoFrames, PutsUpFrames
  <1> QED
    BY <1>1, <1>2, <1>3 DEF ThreadStep

\* The endpoint takes a frame.
ServerTakes(c) ==
    \/ TakeRegister(c) \/ TakeDeregister(c) \/ TakeThread(c) \/ TakeThreadGone(c)
    \/ TakeEvent(c) \/ TakeCall(c) \/ TakeAnswer(c)

LEMMA ServerTaken ==
    ASSUME NEW c \in Clients, ServerTakes(c)
    PROVE  up[c] # <<>> /\ Taken(c) /\ UNCHANGED workerVars /\ (Is(Head(up[c]), "append") => TakeEvent(c))
  BY DEF ServerTakes, Takes, Is, TakeRegister, TakeDeregister, TakeThread, TakeThreadGone, TakeEvent, TakeCall, TakeAnswer

LEMMA UpStep ==
    ASSUME Typed, MadeBefore, Next
    PROVE  \/ PutsUp
           \/ \E c \in Clients : Drop(c)
           \/ \E c \in Clients : ServerTakes(c)
  <1>1. ASSUME NEW c \in Clients, ServerStep(c)
        PROVE  up' = up \/ ServerTakes(c)
    BY <1>1 DEF ServerStep, ServerTakes, ServerCloses, Cleanup
  <1>2. ASSUME NEW r \in Requests, Relayed(r)
        PROVE  PutsUp
    BY <1>2, PutsUpSame DEF Relayed
  <1>3. ASSUME NEW r \in Requests, Issue(r)
        PROVE  PutsUp
    <2>1. PICK c \in Clients : ClientSends(c, <<CallFrame(r)>>)
      BY <1>3 DEF Issue
    <2> QED
      BY <2>1, UpFrames, NoFrames, PutsUpFrames DEF Typed
  <1> QED
    BY <1>1, <1>2, <1>3, PutsUpSame, UpConnection, UpClient, UpThread DEF Next

----------------------------------------------------------------------------
(* A slot: the STARTED event of the cycle of a submit, at pos[r] of the    *)
(* log of its thread or of the frames that the process in[r] has sent.     *)

StartedAt(t, c, p) ==
    \/ c = Nobody /\ p \in DOMAIN log[t] /\ log[t][p] = "started"
    \/ c \in Clients /\ c = home[t] /\ p \in DOMAIN up[c] /\ up[c][p] = EventFrame(t, "started")

Held(in, pos) ==
    \A r \in Requests : pos[r] # 0 =>
        op[r] = "submit" /\ stage[target[r]] # "new" /\ StartedAt(target[r], in[r], pos[r])

Apart(in, pos) ==
    \A r \in Requests, q \in Requests :
        r # q /\ pos[r] # 0 /\ pos[q] # 0 /\ target[r] = target[q] /\ in[r] = in[q] => pos[r] # pos[q]

\* A value that was read is behind its slot, a cycle that can answer has one,
\* and an answer on the wire follows its own.
ReadHeld(in, pos) == \A r \in Requests : Owed(r) /\ Delivered(r) => in[r] = Nobody /\ pos[r] # 0

RunHeld(pos) == \A t \in Threads : cycle[t] # Nobody /\ link[home[t]] = "up" => pos[cycle[t]] # 0

SentHeld(in, pos) ==
    \A r \in Requests, c \in Clients : \A j \in DOMAIN up[c] :
        Owed(r) /\ Yes(up[c][j], r) => pos[r] # 0 /\ (in[r] = Nobody \/ (in[r] = c /\ pos[r] < j))

Slots(in, pos) == Held(in, pos) /\ Apart(in, pos) /\ ReadHeld(in, pos) /\ RunHeld(pos) /\ SentHeld(in, pos)

Backed == \E in \in [Requests -> Clients \cup {Nobody}], pos \in [Requests -> Nat] : Slots(in, pos)

Sound == Typed /\ MadeBefore /\ Once /\ Working /\ Spawning /\ Linked

LEMMA SoundStep == Sound /\ [Next]_vars => Sound'
  BY TypedStep, MadeStep, OnceStep, WorkingStep, SpawningStep, LinkedStep DEF Sound

\* What a step keeps of a request that has a slot.
LEMMA HeldStays ==
    ASSUME Sound, Next, NEW r \in Requests, op[r] = "submit", stage[target[r]] # "new"
    PROVE  /\ op'[r] = "submit" /\ target'[r] = target[r] /\ target[r] \in Threads
           /\ stage'[target[r]] # "new" /\ home'[target[r]] = home[target[r]]
           /\ \A i \in DOMAIN log[target[r]] : i \in DOMAIN log'[target[r]] /\ log'[target[r]][i] = log[target[r]][i]
  <1>1. target[r] \in Threads /\ op'[r] = op[r] /\ target'[r] = target[r]
    BY OwedWas, MadeHasTarget DEF Sound
  <1>2. stage'[target[r]] # "new" /\ home'[target[r]] = home[target[r]]
    BY <1>1, PlacedStep DEF Placed, Sound
  <1>3. \A i \in DOMAIN log[target[r]] : i \in DOMAIN log'[target[r]] /\ log'[target[r]][i] = log[target[r]][i]
    BY <1>1, LogGrows DEF Sound
  <1> QED
    BY <1>1, <1>2, <1>3

\* A connection is not made under a thread that runs.
LEMMA RunsOn ==
    ASSUME Sound, Next, NEW t \in Threads, cycle[t] # Nobody
    PROVE  home'[t] = home[t] /\ (link'[home'[t]] = "up" => link[home[t]] = "up")
  <1>1. stage[t] # "new"
    BY DEF Sound, Working
  <1>2. home'[t] = home[t]
    BY <1>1, PlacedStep DEF Placed, Sound
  <1>3. home[t] \in Clients /\ link[home[t]] # "none"
    BY <1>1 DEF Sound, Linked
  <1> QED
    BY <1>2, <1>3, LinkMoves DEF Sound

\* The slots stay as they are, but for one request that gets a new frame.
Gains(in, pos, in2, pos2, n) ==
    \A r \in Requests :
        \/ in2[r] = in[r] /\ pos2[r] = pos[r]
        \/ /\ r = n /\ pos[r] = 0 /\ op[r] = "submit" /\ stage[target[r]] # "new"
           /\ in2[r] \in Clients /\ in2[r] = home[target[r]]
           /\ pos2[r] \in DOMAIN up'[in2[r]] /\ pos2[r] \notin DOMAIN up[in2[r]]
           /\ up'[in2[r]][pos2[r]] = EventFrame(target[r], "started")

\* Frames are put up; a slot is kept, or is a frame that is new.
LEMMA SlotsPut ==
    ASSUME Sound, Next, PutsUp,
           NEW in \in [Requests -> Clients \cup {Nobody}], NEW pos \in [Requests -> Nat], Slots(in, pos),
           NEW in2 \in [Requests -> Clients \cup {Nobody}], NEW pos2 \in [Requests -> Nat], NEW n,
           Gains(in, pos, in2, pos2, n),
           \A t \in Threads : cycle'[t] # Nobody /\ link'[home'[t]] = "up" /\ pos2[cycle'[t]] = 0 => cycle'[t] = cycle[t],
           \A r \in Requests : Delivered(r)' => Delivered(r)
    PROVE  Slots(in2, pos2)'
  <1>0. Sound' /\ \A r \in Requests :
                     \/ in2[r] = in[r] /\ pos2[r] = pos[r]
                     \/ /\ r = n /\ pos[r] = 0 /\ op[r] = "submit" /\ stage[target[r]] # "new"
                        /\ in2[r] \in Clients /\ in2[r] = home[target[r]]
                        /\ pos2[r] \in DOMAIN up'[in2[r]] /\ pos2[r] \notin DOMAIN up[in2[r]]
                        /\ up'[in2[r]][pos2[r]] = EventFrame(target[r], "started")
    BY SoundStep DEF Gains
  <1>1. Held(in2, pos2)'
    <2> SUFFICES ASSUME NEW r \in Requests, pos2[r] # 0
                 PROVE  op'[r] = "submit" /\ stage'[target'[r]] # "new" /\ StartedAt(target[r], in2[r], pos2[r])'
      BY DEF Held
    <2>1. op[r] = "submit" /\ stage[target[r]] # "new"
      BY <1>0 DEF Slots, Held
    <2>2. /\ op'[r] = "submit" /\ target'[r] = target[r] /\ target[r] \in Threads
          /\ stage'[target[r]] # "new" /\ home'[target[r]] = home[target[r]]
          /\ \A i \in DOMAIN log[target[r]] : i \in DOMAIN log'[target[r]] /\ log'[target[r]][i] = log[target[r]][i]
      BY <2>1, HeldStays
    <2>3. CASE in2[r] = in[r] /\ pos2[r] = pos[r]
      <3>1. StartedAt(target[r], in[r], pos[r])
        BY <2>3 DEF Slots, Held
      <3> QED
        BY <2>2, <2>3, <3>1 DEF StartedAt, PutsUp, EventFrame
    <2>4. CASE ~(in2[r] = in[r] /\ pos2[r] = pos[r])
      BY <1>0, <2>2, <2>4 DEF StartedAt, EventFrame
    <2> QED
      BY <2>2, <2>3, <2>4
  <1>2. ASSUME NEW r \in Requests, pos2[r] # 0, in2[r] = in[r], pos2[r] = pos[r], in[r] # Nobody
        PROVE  pos2[r] \in DOMAIN up[in2[r]]
    BY <1>2 DEF Slots, Held, StartedAt
  <1>3. Apart(in2, pos2)'
    <2> SUFFICES ASSUME NEW r \in Requests, NEW q \in Requests, r # q, pos2[r] # 0, pos2[q] # 0,
                        target'[r] = target'[q], in2[r] = in2[q]
                 PROVE  pos2[r] # pos2[q]
      BY DEF Apart
    <2>1. target'[r] = target[r] /\ target'[q] = target[q]
      <3>1. op[r] = "submit" /\ op[q] = "submit"
        BY <1>0 DEF Slots, Held
      <3> QED
        BY <3>1, OwedWas DEF Sound
    <2>2. CASE in2[r] = in[r] /\ pos2[r] = pos[r] /\ in2[q] = in[q] /\ pos2[q] = pos[q]
      BY <2>1, <2>2 DEF Slots, Apart
    <2>3. CASE ~(in2[r] = in[r] /\ pos2[r] = pos[r])
      <3>1. in2[q] = in[q] /\ pos2[q] = pos[q] /\ in2[r] \in Clients /\ pos2[r] \notin DOMAIN up[in2[r]]
        BY <1>0, <2>3
      <3> QED
        BY <1>2, <3>1, RemoteAssumption
    <2>4. CASE ~(in2[q] = in[q] /\ pos2[q] = pos[q])
      <3>1. in2[r] = in[r] /\ pos2[r] = pos[r] /\ in2[q] \in Clients /\ pos2[q] \notin DOMAIN up[in2[q]]
        BY <1>0, <2>4
      <3> QED
        BY <1>2, <3>1, RemoteAssumption
    <2> QED
      BY <2>2, <2>3, <2>4
  <1>4. ReadHeld(in2, pos2)'
    <2> SUFFICES ASSUME NEW r \in Requests, Owed(r)', Delivered(r)'
                 PROVE  in2[r] = Nobody /\ pos2[r] # 0
      BY DEF ReadHeld
    <2>1. Owed(r) /\ Delivered(r)
      BY OwedWas DEF Sound
    <2> QED
      BY <1>0, <2>1 DEF Slots, ReadHeld
  <1>5. RunHeld(pos2)'
    <2> SUFFICES ASSUME NEW t \in Threads, cycle'[t] # Nobody, link'[home'[t]] = "up", pos2[cycle'[t]] = 0
                 PROVE  FALSE
      BY DEF RunHeld
    <2>1. cycle'[t] = cycle[t] /\ cycle[t] \in Requests
      BY DEF Sound, Typed, ClientsOK
    <2>2. pos[cycle[t]] # 0
      BY <2>1, RunsOn DEF Slots, RunHeld
    <2> QED
      BY <1>0, <2>1, <2>2
  <1>6. SentHeld(in2, pos2)'
    <2> SUFFICES ASSUME NEW r \in Requests, NEW c \in Clients, NEW j \in DOMAIN up'[c], Owed(r)', Yes(up'[c][j], r)
                 PROVE  pos2[r] # 0 /\ (in2[r] = Nobody \/ (in2[r] = c /\ pos2[r] < j))
      BY DEF SentHeld, Yes, Is
    <2>1. Owed(r)
      BY OwedWas DEF Sound
    <2>2. CASE j \in DOMAIN up[c]
      <3>1. Yes(up[c][j], r)
        BY <2>2 DEF PutsUp
      <3> QED
        BY <1>0, <2>1, <2>2, <3>1 DEF Slots, SentHeld
    <2>3. CASE j \notin DOMAIN up[c]
      <3>1. link[c] = "up"
        BY <2>3 DEF PutsUp
      <3>2. PICK t \in Threads : cycle[t] = r /\ home[t] = c
        BY <2>1, <2>3 DEF PutsUp
      <3>3. r # Nobody
        BY RemoteAssumption
      <3>4. pos[r] # 0 /\ target[r] = t
        BY <3>1, <3>2, <3>3 DEF Slots, RunHeld, Sound, Working
      <3>5. in2[r] = in[r] /\ pos2[r] = pos[r]
        BY <1>0, <3>4
      <3>6. StartedAt(t, in[r], pos[r])
        BY <3>4 DEF Slots, Held
      <3>7. CASE in[r] # Nobody
        <4>1. in[r] = c /\ pos[r] \in DOMAIN up[c]
          BY <3>2, <3>6, <3>7 DEF StartedAt
        <4>2. up[c] \in Seq(UpFrame) /\ up'[c] \in Seq(UpFrame)
          BY <1>0 DEF Sound, Typed, WireOK
        <4>3. pos[r] < j
          BY <2>3, <4>1, <4>2
        <4> QED
          BY <3>4, <3>5, <4>1, <4>3
      <3> QED
        BY <3>4, <3>5, <3>7
    <2> QED
      BY <2>2, <2>3
  <1> QED
    BY <1>1, <1>3, <1>4, <1>5, <1>6 DEF Slots

\* The last frames of a connection are lost, and the slots among them.
LEMMA SlotsCut ==
    ASSUME Sound, Next, NEW c \in Clients, Drop(c),
           NEW in \in [Requests -> Clients \cup {Nobody}], NEW pos \in [Requests -> Nat], Slots(in, pos)
    PROVE  Backed'
  <1>0. WireOK /\ Sound'
    BY SoundStep DEF Sound, Typed
  <1>1. PICK n \in Nat : /\ \A i \in DOMAIN up'[c] : i \in DOMAIN up[c] /\ i <= n /\ up'[c][i] = up[c][i]
                         /\ \A i \in DOMAIN up[c] : i <= n => i \in DOMAIN up'[c]
    BY <1>0, DropCuts
  <1>2. /\ \A d \in Clients : d # c => up'[d] = up[d]
        /\ link'[c] = "down" /\ cycle' = cycle /\ fut' = fut /\ relay' = relay
    BY <1>0, DropCuts DEF Drop, workerVars, callerVars, relayVars, WireOK
  <1> DEFINE Lost(r) == in[r] = c /\ pos[r] > n
             in2 == [r \in Requests |-> IF Lost(r) THEN Nobody ELSE in[r]]
             pos2 == [r \in Requests |-> IF Lost(r) THEN 0 ELSE pos[r]]
  <1>3. /\ in2 \in [Requests -> Clients \cup {Nobody}] /\ pos2 \in [Requests -> Nat]
        /\ \A r \in Requests : (Lost(r) /\ pos2[r] = 0) \/ (~Lost(r) /\ in2[r] = in[r] /\ pos2[r] = pos[r])
    OBVIOUS
  <1> HIDE DEF in2, pos2
  <1>4. Held(in2, pos2)'
    <2> SUFFICES ASSUME NEW r \in Requests, pos2[r] # 0
                 PROVE  op'[r] = "submit" /\ stage'[target'[r]] # "new" /\ StartedAt(target[r], in2[r], pos2[r])'
      BY DEF Held
    <2>1. ~Lost(r) /\ in2[r] = in[r] /\ pos2[r] = pos[r]
      BY <1>3
    <2>2. op[r] = "submit" /\ stage[target[r]] # "new" /\ StartedAt(target[r], in[r], pos[r])
      BY <2>1 DEF Slots, Held
    <2>3. /\ op'[r] = "submit" /\ target'[r] = target[r] /\ target[r] \in Threads
          /\ stage'[target[r]] # "new" /\ home'[target[r]] = home[target[r]]
          /\ \A i \in DOMAIN log[target[r]] : i \in DOMAIN log'[target[r]] /\ log'[target[r]][i] = log[target[r]][i]
      BY <2>2, HeldStays
    <2>4. CASE in[r] = c
      <3>1. c # Nobody /\ pos[r] \in DOMAIN up[c] /\ up[c][pos[r]] = EventFrame(target[r], "started") /\ c = home[target[r]]
        BY <2>2, <2>4, RemoteAssumption DEF StartedAt
      <3>2. pos[r] \in DOMAIN up'[c] /\ up'[c][pos[r]] = up[c][pos[r]]
        BY <1>1, <2>1, <2>4, <3>1
      <3> QED
        BY <2>1, <2>3, <2>4, <3>1, <3>2 DEF StartedAt, EventFrame
    <2>5. CASE in[r] # c
      BY <1>2, <2>1, <2>2, <2>3, <2>5 DEF StartedAt, EventFrame
    <2> QED
      BY <2>4, <2>5
  <1>5. Apart(in2, pos2)'
    <2> SUFFICES ASSUME NEW r \in Requests, NEW q \in Requests, r # q, pos2[r] # 0, pos2[q] # 0,
                        target'[r] = target'[q], in2[r] = in2[q]
                 PROVE  pos2[r] # pos2[q]
      BY DEF Apart
    <2>1. in2[r] = in[r] /\ pos2[r] = pos[r] /\ in2[q] = in[q] /\ pos2[q] = pos[q]
      BY <1>3
    <2>2. target'[r] = target[r] /\ target'[q] = target[q]
      <3>1. op[r] = "submit" /\ op[q] = "submit"
        BY <2>1 DEF Slots, Held
      <3> QED
        BY <3>1, OwedWas DEF Sound
    <2> QED
      BY <2>1, <2>2 DEF Slots, Apart
  <1>6. ReadHeld(in2, pos2)'
    <2> SUFFICES ASSUME NEW r \in Requests, Owed(r)', Delivered(r)'
                 PROVE  in2[r] = Nobody /\ pos2[r] # 0
      BY DEF ReadHeld
    <2>1. Owed(r)
      BY OwedWas DEF Sound
    <2>2. Delivered(r)
      <3>1. ASSUME NEW d \in Clients, NEW i \in DOMAIN down'[d], Yes(down'[d][i], r)
            PROVE  Delivered(r)
        BY <1>0, <3>1, DropCuts DEF Delivered
      <3> QED
        BY <1>2, <3>1 DEF Delivered, Yes, Is
    <2>3. in[r] = Nobody /\ pos[r] # 0
      BY <2>1, <2>2 DEF Slots, ReadHeld
    <2> QED
      BY <1>3, <2>3, RemoteAssumption
  <1>7. RunHeld(pos2)'
    <2> SUFFICES ASSUME NEW t \in Threads, cycle'[t] # Nobody, link'[home'[t]] = "up"
                 PROVE  pos2[cycle'[t]] # 0
      BY DEF RunHeld
    <2>1. cycle'[t] = cycle[t] /\ cycle[t] \in Requests /\ home'[t] = home[t] /\ link[home[t]] = "up" /\ home[t] # c
      BY <1>2, RunsOn DEF Sound, Typed, ClientsOK
    <2>2. pos[cycle[t]] # 0 /\ target[cycle[t]] = t
      BY <2>1 DEF Slots, RunHeld, Sound, Working
    <2>3. in[cycle[t]] # c
      BY <2>1, <2>2, RemoteAssumption DEF Slots, Held, StartedAt
    <2> QED
      BY <1>3, <2>1, <2>2, <2>3
  <1>8. SentHeld(in2, pos2)'
    <2> SUFFICES ASSUME NEW r \in Requests, NEW d \in Clients, NEW j \in DOMAIN up'[d], Owed(r)', Yes(up'[d][j], r)
                 PROVE  pos2[r] # 0 /\ (in2[r] = Nobody \/ (in2[r] = d /\ pos2[r] < j))
      BY DEF SentHeld, Yes, Is
    <2>1. Owed(r)
      BY OwedWas DEF Sound
    <2>2. j \in DOMAIN up[d] /\ Yes(up[d][j], r) /\ (d = c => j <= n)
      BY <1>1, <1>2
    <2>3. pos[r] # 0 /\ (in[r] = Nobody \/ (in[r] = d /\ pos[r] < j))
      BY <2>1, <2>2 DEF Slots, SentHeld
    <2>4. j \in Nat
      <3>1. up'[d] \in Seq(UpFrame)
        BY <1>0 DEF Sound, Typed, WireOK
      <3> QED
        BY <3>1
    <2>5. ~Lost(r)
      BY <2>2, <2>3, <2>4, RemoteAssumption
    <2> QED
      BY <1>3, <2>3, <2>5
  <1>9. Slots(in2, pos2)'
    BY <1>4, <1>5, <1>6, <1>7, <1>8 DEF Slots
  <1> QED
    BY <1>3, <1>9 DEF Backed

\* The endpoint takes a frame: the slot that was in it moves to the log.
LEMMA SlotsTake ==
    ASSUME Sound, Next, NEW c \in Clients, ServerTakes(c),
           NEW in \in [Requests -> Clients \cup {Nobody}], NEW pos \in [Requests -> Nat], Slots(in, pos)
    PROVE  Backed'
  <1>0. WireOK /\ Sound' /\ up[c] # <<>> /\ Taken(c) /\ UNCHANGED workerVars /\ c # Nobody
    BY SoundStep, ServerTaken, RemoteAssumption DEF Sound, Typed
  <1>1. /\ \A d \in Clients : d # c => up'[d] = up[d]
        /\ 1 \in DOMAIN up[c] /\ Head(up[c]) = up[c][1]
        /\ \A i \in DOMAIN up'[c] : i + 1 \in DOMAIN up[c] /\ up'[c][i] = up[c][i + 1]
        /\ \A i \in DOMAIN up[c] : i # 1 => i - 1 \in DOMAIN up'[c] /\ up'[c][i - 1] = up[c][i]
    BY <1>0, TakenShifts
  <1> DEFINE First(r) == in[r] = c /\ pos[r] = 1
             Later(r) == in[r] = c /\ pos[r] # 0 /\ pos[r] # 1
  <1>2. \A r \in Requests : First(r) => target[r] \in Threads /\ Len(log[target[r]]) \in Nat
    <2> SUFFICES ASSUME NEW r \in Requests, First(r)
                 PROVE  target[r] \in Threads /\ Len(log[target[r]]) \in Nat
      OBVIOUS
    <2>1. op[r] = "submit"
      BY DEF Slots, Held
    <2>2. target[r] \in Threads
      BY <2>1, MadeHasTarget DEF Sound
    <2>3. log[target[r]] \in Seq(Kinds)
      BY <2>2 DEF Sound, Typed, EndpointOK
    <2> QED
      BY <2>2, <2>3
  <1>3. PICK in2 \in [Requests -> Clients \cup {Nobody}] :
            \A r \in Requests : in2[r] = IF First(r) THEN Nobody ELSE in[r]
    <2>1. [r \in Requests |-> IF First(r) THEN Nobody ELSE in[r]] \in [Requests -> Clients \cup {Nobody}]
      OBVIOUS
    <2> QED
      BY <2>1
  <1>4. PICK pos2 \in [Requests -> Nat] :
            \A r \in Requests : pos2[r] = IF First(r) THEN Len(log[target[r]]) + 1
                                          ELSE IF Later(r) THEN pos[r] - 1 ELSE pos[r]
    <2> DEFINE new == [r \in Requests |-> IF First(r) THEN Len(log[target[r]]) + 1
                                          ELSE IF Later(r) THEN pos[r] - 1 ELSE pos[r]]
    <2>1. new \in [Requests -> Nat]
      BY <1>2
    <2>2. \A r \in Requests : new[r] = IF First(r) THEN Len(log[target[r]]) + 1
                                       ELSE IF Later(r) THEN pos[r] - 1 ELSE pos[r]
      OBVIOUS
    <2> QED
      BY <2>1, <2>2
  <1>5. \A r \in Requests :
            \/ First(r) /\ in2[r] = Nobody /\ pos2[r] = Len(log[target[r]]) + 1 /\ pos2[r] # 0
            \/ Later(r) /\ in2[r] = in[r] /\ pos2[r] = pos[r] - 1 /\ pos2[r] # 0
            \/ ~First(r) /\ ~Later(r) /\ in2[r] = in[r] /\ pos2[r] = pos[r]
    BY <1>2, <1>3, <1>4
  <1>6. ASSUME NEW r \in Requests, pos2[r] # 0
        PROVE  /\ pos[r] # 0
               /\ op'[r] = "submit" /\ target'[r] = target[r] /\ target[r] \in Threads
               /\ stage'[target[r]] # "new" /\ home'[target[r]] = home[target[r]]
               /\ \A i \in DOMAIN log[target[r]] : i \in DOMAIN log'[target[r]] /\ log'[target[r]][i] = log[target[r]][i]
               /\ StartedAt(target[r], in[r], pos[r])
    <2>1. pos[r] # 0
      BY <1>5, <1>6
    <2>2. op[r] = "submit" /\ stage[target[r]] # "new" /\ StartedAt(target[r], in[r], pos[r])
      BY <2>1 DEF Slots, Held
    <2> QED
      BY <2>1, <2>2, HeldStays
  <1>7. Held(in2, pos2)'
    <2> SUFFICES ASSUME NEW r \in Requests, pos2[r] # 0
                 PROVE  op'[r] = "submit" /\ stage'[target'[r]] # "new" /\ StartedAt(target[r], in2[r], pos2[r])'
      BY DEF Held
    <2> DEFINE t == target[r]
    <2>1. /\ pos[r] # 0 /\ op'[r] = "submit" /\ target'[r] = t /\ t \in Threads /\ stage'[t] # "new" /\ home'[t] = home[t]
          /\ \A i \in DOMAIN log[t] : i \in DOMAIN log'[t] /\ log'[t][i] = log[t][i]
          /\ StartedAt(t, in[r], pos[r])
      BY <1>6
    <2>2. CASE First(r)
      <3>1. up[c][1] = EventFrame(t, "started")
        BY <1>0, <2>1, <2>2 DEF StartedAt
      <3>2. Head(up[c]).about = t /\ Head(up[c]).event = "started" /\ Is(Head(up[c]), "append")
        BY <1>1, <3>1 DEF EventFrame, Is
      <3>3. log'[t] = Append(log[t], "started")
        BY <2>1, <3>2, ServerTaken DEF TakeEvent, Sound, Typed, EndpointOK
      <3>4. log[t] \in Seq(Kinds) /\ "started" \in Kinds
        BY <2>1 DEF Sound, Typed, EndpointOK, Kinds
      <3>5. Len(log[t]) + 1 \in DOMAIN log'[t] /\ log'[t][Len(log[t]) + 1] = "started"
        BY <3>3, <3>4
      <3>6. in2[r] = Nobody /\ pos2[r] = Len(log[t]) + 1
        BY <1>3, <1>4, <2>2
      <3> QED
        BY <2>1, <3>5, <3>6 DEF StartedAt
    <2>3. CASE Later(r)
      <3>1. pos[r] \in DOMAIN up[c] /\ up[c][pos[r]] = EventFrame(t, "started") /\ c = home[t]
        BY <1>0, <2>1, <2>3 DEF StartedAt
      <3>2. pos[r] - 1 \in DOMAIN up'[c] /\ up'[c][pos[r] - 1] = up[c][pos[r]]
        BY <1>1, <2>3, <3>1
      <3>3. in2[r] = c /\ pos2[r] = pos[r] - 1
        BY <1>5, <2>3
      <3> QED
        BY <2>1, <3>1, <3>2, <3>3 DEF StartedAt, EventFrame
    <2>4. CASE ~First(r) /\ ~Later(r)
      <3>1. in2[r] = in[r] /\ pos2[r] = pos[r] /\ in[r] # c
        BY <1>5, <2>1, <2>4
      <3> QED
        BY <1>1, <2>1, <3>1 DEF StartedAt, EventFrame
    <2> QED
      BY <2>2, <2>3, <2>4
  <1>8. Apart(in2, pos2)'
    <2> SUFFICES ASSUME NEW r \in Requests, NEW q \in Requests, r # q, pos2[r] # 0, pos2[q] # 0,
                        target'[r] = target'[q], in2[r] = in2[q], pos2[r] = pos2[q]
                 PROVE  FALSE
      BY DEF Apart
    <2>1. target[r] = target[q] /\ pos[r] # 0 /\ pos[q] # 0 /\ target[r] \in Threads
      BY <1>6
    <2>2. in[r] # in[q] \/ pos[r] # pos[q]
      BY <2>1 DEF Slots, Apart
    <2>3. ASSUME NEW x \in Requests, NEW y \in Requests, First(x), ~First(y), pos2[y] # 0, in2[x] = in2[y],
                 target[x] = target[y]
          PROVE  pos2[x] # pos2[y]
      <3>1. in2[y] = Nobody /\ pos2[x] = Len(log[target[x]]) + 1 /\ target[x] \in Threads
        BY <1>2, <1>5, <2>3
      <3>2. in[y] = Nobody /\ pos2[y] = pos[y]
        BY <1>0, <1>5, <2>3, <3>1
      <3>3. pos[y] \in DOMAIN log[target[x]]
        BY <1>6, <2>3, <3>2, RemoteAssumption DEF StartedAt
      <3>4. log[target[x]] \in Seq(Kinds)
        BY <3>1 DEF Sound, Typed, EndpointOK
      <3> QED
        BY <3>1, <3>2, <3>3, <3>4
    <2>4. CASE First(r) /\ First(q)
      BY <2>2, <2>4
    <2>5. CASE First(r) /\ ~First(q)
      BY <2>1, <2>3, <2>5
    <2>6. CASE ~First(r) /\ First(q)
      BY <2>1, <2>3, <2>6
    <2>7. CASE ~First(r) /\ ~First(q)
      <3>1. in[r] = in[q]
        BY <1>3, <2>7
      <3>2. CASE in[r] = c
        <4>1. pos2[r] = pos[r] - 1 /\ pos2[q] = pos[q] - 1
          BY <1>5, <2>1, <2>7, <3>1, <3>2
        <4>2. pos[r] \in Nat /\ pos[q] \in Nat /\ pos[r] # pos[q]
          BY <2>2, <3>1
        <4>3. pos[r] - 1 # pos[q] - 1
          BY <4>2
        <4> QED
          BY <4>1, <4>3
      <3>3. CASE in[r] # c
        BY <1>5, <2>2, <2>7, <3>1, <3>3
      <3> QED
        BY <3>2, <3>3
    <2> QED
      BY <2>4, <2>5, <2>6, <2>7
  <1>9. ReadHeld(in2, pos2)'
    <2> SUFFICES ASSUME NEW r \in Requests, Owed(r)', Delivered(r)'
                 PROVE  in2[r] = Nobody /\ pos2[r] # 0
      BY DEF ReadHeld
    <2>1. Owed(r)
      BY OwedWas DEF Sound
    <2>2. in[r] = Nobody /\ pos[r] # 0
      <3>1. CASE Delivered(r)
        BY <2>1, <3>1 DEF Slots, ReadHeld
      <3>2. CASE ~Delivered(r)
        <4>1. PICK d \in Clients : up[d] # <<>> /\ Taken(d) /\ Yes(Head(up[d]), r)
          BY <3>2, DeliveredStep DEF Sound
        <4>2. 1 \in DOMAIN up[d] /\ Yes(up[d][1], r)
          BY <1>0, <4>1, TakenShifts
        <4>3. pos[r] # 0 /\ (in[r] = Nobody \/ pos[r] < 1)
          BY <2>1, <4>2 DEF Slots, SentHeld
        <4> QED
          BY <4>3
      <3> QED
        BY <3>1, <3>2
    <2> QED
      BY <1>0, <1>5, <2>2
  <1>10. RunHeld(pos2)'
    <2> SUFFICES ASSUME NEW t \in Threads, cycle'[t] # Nobody, link'[home'[t]] = "up"
                 PROVE  pos2[cycle'[t]] # 0
      BY DEF RunHeld
    <2>1. cycle'[t] = cycle[t] /\ cycle[t] \in Requests /\ link[home[t]] = "up"
      BY <1>0, RunsOn DEF Sound, Typed, ClientsOK, workerVars
    <2>2. pos[cycle[t]] # 0
      BY <2>1 DEF Slots, RunHeld
    <2> QED
      BY <1>5, <2>1, <2>2
  <1>11. SentHeld(in2, pos2)'
    <2> SUFFICES ASSUME NEW r \in Requests, NEW d \in Clients, NEW j \in DOMAIN up'[d], Owed(r)', Yes(up'[d][j], r)
                 PROVE  pos2[r] # 0 /\ (in2[r] = Nobody \/ (in2[r] = d /\ pos2[r] < j))
      BY DEF SentHeld, Yes, Is
    <2>1. Owed(r)
      BY OwedWas DEF Sound
    <2>2. j \in Nat
      <3>1. up'[d] \in Seq(UpFrame)
        BY <1>0 DEF Sound, Typed, WireOK
      <3> QED
        BY <3>1
    <2>3. CASE d = c
      <3>1. j + 1 \in DOMAIN up[c] /\ Yes(up[c][j + 1], r)
        BY <1>1, <2>3
      <3>2. pos[r] # 0 /\ (in[r] = Nobody \/ (in[r] = c /\ pos[r] < j + 1))
        BY <2>1, <3>1 DEF Slots, SentHeld
      <3> QED
        BY <1>0, <1>5, <2>2, <2>3, <3>2
    <2>4. CASE d # c
      <3>1. j \in DOMAIN up[d] /\ Yes(up[d][j], r)
        BY <1>1, <2>4
      <3>2. pos[r] # 0 /\ (in[r] = Nobody \/ (in[r] = d /\ pos[r] < j))
        BY <2>1, <3>1 DEF Slots, SentHeld
      <3> QED
        BY <1>0, <1>5, <2>4, <3>2
    <2> QED
      BY <2>3, <2>4
  <1>12. Slots(in2, pos2)'
    BY <1>7, <1>8, <1>9, <1>10, <1>11 DEF Slots
  <1> QED
    BY <1>12 DEF Backed

\* A cycle begins: its event is a slot, if it has none yet.
LEMMA SlotsBegin ==
    ASSUME Sound, NEW t \in Threads, Begin(t),
           NEW in \in [Requests -> Clients \cup {Nobody}], NEW pos \in [Requests -> Nat], Slots(in, pos)
    PROVE  Backed'
  <1>0. Next /\ ThreadStep(t)
    BY DEF Next, ThreadStep
  <1>1. PutsUp
    BY <1>0, UpThread DEF Sound
  <1>2. /\ stage[t] = "hosted" /\ op[Head(queue[t])] = "submit" /\ cycle' = [cycle EXCEPT ![t] = Head(queue[t])]
        /\ ClientSends(home[t], <<EventFrame(t, "started")>>)
        /\ UNCHANGED <<link, down, home, relay, fut>> /\ queue[t] # <<>> /\ queue[t] \in Seq(Requests)
    BY DEF Begin, relayVars, callerVars, Sound, Typed, ClientsOK
  <1>3. PICK r \in Requests : r = Head(queue[t]) /\ target[r] = t
    <2>1. Head(queue[t]) = queue[t][1] /\ 1 \in DOMAIN queue[t] /\ Head(queue[t]) \in Requests
      BY <1>2
    <2> QED
      BY <2>1 DEF Sound, Working
  <1>4. \A s \in Threads : cycle'[s] # Nobody => cycle'[s] = cycle[s] \/ (s = t /\ cycle'[s] = r)
    BY <1>2, <1>3 DEF Sound, Typed, ClientsOK
  <1>5. \A q \in Requests : Delivered(q)' => Delivered(q)
    BY <1>2 DEF Delivered, Yes, Is
  <1>6. CASE pos[r] # 0 \/ link[home[t]] # "up"
    <2>1. \A s \in Threads : cycle'[s] # Nobody /\ link'[home'[s]] = "up" /\ pos[cycle'[s]] = 0 => cycle'[s] = cycle[s]
      BY <1>2, <1>4, <1>6
    <2>2. Slots(in, pos)'
      BY <1>0, <1>1, <1>5, <2>1, SlotsPut DEF Gains
    <2> QED
      BY <2>2 DEF Backed
  <1>7. CASE pos[r] = 0 /\ link[home[t]] = "up"
    <2>1. home[t] \in Clients /\ client[home[t]] = "open" /\ up[home[t]] \in Seq(UpFrame)
      BY <1>2, <1>7 DEF Sound, Linked, Typed, WireOK
    <2>2. up'[home[t]] = up[home[t]] \o <<EventFrame(t, "started")>>
      BY <1>2, <1>7, <2>1 DEF ClientSends, Sent, Carries, Sound, Typed, WireOK
    <2> DEFINE x == home[t]
    <2>3. PICK p \in Nat : p # 0 /\ p \in DOMAIN up'[x] /\ p \notin DOMAIN up[x] /\ up'[x][p] = EventFrame(t, "started")
      <3> DEFINE f == EventFrame(t, "started")
                 s == up[x]
      <3>1. s \in Seq(UpFrame) /\ f \in UpFrame
        BY <2>1, UpFrames DEF Kinds
      <3> HIDE DEF f, s
      <3>2. Len(s) + 1 \in Nat /\ Len(s) + 1 # 0 /\ Len(s) + 1 \in DOMAIN (s \o <<f>>)
            /\ Len(s) + 1 \notin DOMAIN s /\ (s \o <<f>>)[Len(s) + 1] = f
        BY <3>1
      <3>3. up'[x] = s \o <<f>>
        BY <2>2 DEF s, f
      <3> QED
        BY <3>2, <3>3 DEF s, f
    <2>4. PICK y \in Clients : y = x
      BY <2>1
    <2>5. PICK in2 \in [Requests -> Clients \cup {Nobody}], pos2 \in [Requests -> Nat] :
              /\ in2[r] = y /\ pos2[r] = p
              /\ \A q \in Requests : q # r => in2[q] = in[q] /\ pos2[q] = pos[q]
      <3>1. /\ [in EXCEPT ![r] = y] \in [Requests -> Clients \cup {Nobody}]
            /\ [in EXCEPT ![r] = y][r] = y
            /\ \A q \in Requests : q # r => [in EXCEPT ![r] = y][q] = in[q]
        OBVIOUS
      <3>2. /\ [pos EXCEPT ![r] = p] \in [Requests -> Nat]
            /\ [pos EXCEPT ![r] = p][r] = p
            /\ \A q \in Requests : q # r => [pos EXCEPT ![r] = p][q] = pos[q]
        OBVIOUS
      <3> QED
        BY <3>1, <3>2
    <2>6. Gains(in, pos, in2, pos2, r)
      BY <1>2, <1>3, <1>7, <2>3, <2>4, <2>5 DEF Gains
    <2>7. \A s \in Threads : cycle'[s] # Nobody /\ link'[home'[s]] = "up" /\ pos2[cycle'[s]] = 0 => cycle'[s] = cycle[s]
      BY <1>4, <2>3, <2>5
    <2>8. Slots(in2, pos2)'
      BY <1>0, <1>1, <1>5, <2>5, <2>6, <2>7, SlotsPut
    <2> QED
      BY <2>5, <2>8 DEF Backed
  <1> QED
    BY <1>6, <1>7

LEMMA BackedStep ==
    ASSUME Sound, Backed, [Next]_vars
    PROVE  Backed'
  <1>0. PICK in \in [Requests -> Clients \cup {Nobody}], pos \in [Requests -> Nat] : Slots(in, pos)
    BY DEF Backed
  <1>1. CASE UNCHANGED vars
    <2>1. Slots(in, pos)'
      BY <1>0, <1>1 DEF vars, wireVars, coordVars, relayVars, workerVars, callerVars, Slots, Held, Apart, ReadHeld,
         RunHeld, SentHeld, StartedAt, Owed, Delivered, Yes, Is, EventFrame
    <2> QED
      BY <2>1 DEF Backed
  <1>2. CASE Next /\ \E c \in Clients : Drop(c)
    BY <1>0, <1>2, SlotsCut
  <1>3. CASE Next /\ \E c \in Clients : ServerTakes(c)
    BY <1>0, <1>3, SlotsTake
  <1>4. CASE \E t \in Threads : Begin(t)
    BY <1>0, <1>4, SlotsBegin
  <1>5. CASE Next /\ ~(\E t \in Threads : Begin(t)) /\ ~(\E c \in Clients : ServerTakes(c)) /\ ~(\E c \in Clients : Drop(c))
    <2>1. PutsUp
      BY <1>5, UpStep DEF Sound
    <2>2. \A t \in Threads : cycle'[t] # Nobody => cycle'[t] = cycle[t]
      BY <1>5, CyclesFrom DEF Sound
    <2>3. \A r \in Requests : Delivered(r)' => Delivered(r)
      <3> SUFFICES ASSUME NEW r \in Requests, Delivered(r)', ~Delivered(r)
                   PROVE  FALSE
        OBVIOUS
      <3>1. PICK c \in Clients : up[c] # <<>> /\ Taken(c)
        BY <1>5, DeliveredStep DEF Sound
      <3>2. up[c] \in Seq(UpFrame) /\ up'[c] = Tail(up[c])
        BY <3>1 DEF Taken, Sound, Typed, WireOK
      <3>3. \A i \in DOMAIN up[c] : i \in DOMAIN up'[c]
        BY <2>1 DEF PutsUp
      <3>4. Len(up[c]) \in DOMAIN up[c] /\ Len(up[c]) \notin DOMAIN Tail(up[c])
        BY <3>1, <3>2
      <3> QED
        BY <3>2, <3>3, <3>4
    <2>4. Slots(in, pos)'
      BY <1>0, <1>5, <2>1, <2>2, <2>3, SlotsPut DEF Gains
    <2> QED
      BY <2>4 DEF Backed
  <1> QED
    BY <1>1, <1>2, <1>3, <1>4, <1>5

LEMMA BackedInit == Init => Backed
  <1> SUFFICES ASSUME Init PROVE Backed
    OBVIOUS
  <1> DEFINE in == [r \in Requests |-> Nobody]
             pos == [r \in Requests |-> 0]
  <1>1. DOMAIN <<>> = {}
    OBVIOUS
  <1>2. \A c \in Clients : DOMAIN up[c] = {} /\ DOMAIN down[c] = {}
    BY <1>1 DEF Init
  <1>3. \A r \in Requests : ~Delivered(r)
    BY <1>2 DEF Init, Delivered
  <1>4. \A t \in Threads : cycle[t] = Nobody
    BY DEF Init
  <1>5. Slots(in, pos)
    BY <1>2, <1>3, <1>4 DEF Slots, Held, Apart, ReadHeld, RunHeld, SentHeld
  <1> QED
    BY <1>5 DEF Backed

\* Each value that a caller has stands on an event of its own.
LEMMA BackedIsLogged ==
    ASSUME Typed, Backed, NEW t \in Threads
    PROVE  Cardinality({r \in Requests : op[r] = "submit" /\ target[r] = t /\ fut[r] = "value"})
               <= Cardinality({i \in DOMAIN log[t] : log[t][i] = "started"})
  <1> DEFINE S == {r \in Requests : op[r] = "submit" /\ target[r] = t /\ fut[r] = "value"}
             I == {i \in DOMAIN log[t] : log[t][i] = "started"}
  <1>1. PICK in \in [Requests -> Clients \cup {Nobody}], pos \in [Requests -> Nat] : Slots(in, pos)
    BY DEF Backed
  <1>2. \A r \in S : pos[r] \in I /\ in[r] = Nobody /\ pos[r] # 0
    <2> SUFFICES ASSUME NEW r \in S PROVE pos[r] \in I /\ in[r] = Nobody /\ pos[r] # 0
      OBVIOUS
    <2>1. Owed(r) /\ Delivered(r) /\ target[r] = t
      BY DEF Owed, Delivered
    <2>2. in[r] = Nobody /\ pos[r] # 0
      BY <1>1, <2>1 DEF Slots, ReadHeld
    <2>3. StartedAt(t, in[r], pos[r])
      BY <1>1, <2>1, <2>2 DEF Slots, Held
    <2> QED
      BY <2>2, <2>3, RemoteAssumption DEF StartedAt
  <1>3. \A r, q \in S : r # q => pos[r] # pos[q]
    BY <1>1, <1>2 DEF Slots, Apart
  <1>4. IsFiniteSet(I)
    <2>1. log[t] \in Seq(Kinds)
      BY DEF Typed, EndpointOK
    <2>2. I \subseteq 1 .. Len(log[t]) /\ Len(log[t]) \in Nat
      BY <2>1
    <2> QED
      BY <2>2, FS_Interval, FS_Subset
  <1> DEFINE f == [r \in S |-> pos[r]]
  <1>5. f \in Injection(S, I)
    <2>1. f \in [S -> I] /\ \A r, q \in S : f[r] = f[q] => r = q
      BY <1>2, <1>3
    <2> QED
      BY <2>1 DEF Injection, IsInjective
  <1> HIDE DEF S, I, f
  <1>6. Cardinality(S) <= Cardinality(I)
    BY <1>4, <1>5, FS_Injection
  <1> QED
    BY <1>6 DEF S, I

\* For any number of connections, workers, threads and requests, and whichever
\* connections break: a caller that has the value of a submit finds its cycle in
\* the log of the thread.  Never are there more values than cycles that began
\* (_emit before the cycle and the future's answer of the worker, in the order
\* of one connection, against the relay of the endpoint).
THEOREM AnswersAlwaysAreLogged == Spec => []AnswersAreLogged
  <1>1. Init => Sound /\ Backed
    BY TypedInit, OnceInit, PlacesInit, BackedInit DEF Sound
  <1>2. Sound /\ Backed /\ [Next]_vars => (Sound /\ Backed)'
    BY SoundStep, BackedStep
  <1>3. Sound /\ Backed => AnswersAreLogged
    BY BackedIsLogged DEF Sound, AnswersAreLogged
  <1> QED
    BY <1>1, <1>2, <1>3, PTL DEF Spec
=============================================================================
