------------------------------- MODULE AgentProofs -------------------------------
(***************************************************************************)
(* Theorems about what runs inside a thread and around it: the host of a   *)
(* thread that is served, the approvals of its tools, a thread whose       *)
(* conversation an external agent owns, the service that remembers for it, *)
(* the events of a thread that a client is forwarded, and the compilation  *)
(* of a verified function.                                                 *)
(***************************************************************************)
EXTENDS Naturals, Sequences, FiniteSets, FiniteSetTheorems, SequenceTheorems,
        WellFoundedInduction, TLAPS

VARIABLES host, listed, connected, signalled, handlers, initial, poll, marked, raised, outcome
Host == INSTANCE ServeHost WITH cycle <- initial

CONSTANTS Askers, Ids, Decisions, DecideBound
VARIABLES asker, auto, remote, linked, hosted, running, pending, fut, waiting, told, up, down, log
Approval == INSTANCE Approvals WITH cycle <- running

CONSTANTS Backends, Messages, MaxAttempts, PostConditions, CycleBound
VARIABLES backend, pc, round, attempt, held, procs, tools, buffer, steering, turn, watcher, cancel, notified, given
Backed == INSTANCE BackedThread WITH cycle <- round

CONSTANTS Threads, Watched, EventBound
VARIABLES logged, forwarding, tasks, frames, open, screen, asked, listening, shown, replayed
Feed == INSTANCE EventFeed WITH log <- logged

CONSTANTS TopK, TurnBound, SessionBound
VARIABLES newestFirst, written, stored, records, doomed, purged, session, operation, todo, replaced, answer
Core == INSTANCE AgentCoreMemory
    WITH made <- written, events <- stored, call <- operation, saved <- replaced, told <- answer

CONSTANTS Processes, Tasks, ProcessOf, Nobody, Retries, MayCancel, MayCrash
VARIABLES at, local, file, disk, found, attempts, leaving
Lean == INSTANCE VerifiedCompile WITH MaxAttempts <- Retries, cancelled <- leaving

----------------------------------------------------------------------------
(* The host.  What the wait raised is kept until the end, and it raises    *)
(* nothing only if it was signalled or the cycle was over by then.         *)

WaitWasOver ==
    /\ host = "waiting" => poll # "stopped"
    /\ host # "waiting" /\ raised = "nothing" => signalled \/ Host!CycleOver
    /\ outcome \in {"clean", "result"} => host = "ended" /\ raised = "nothing"

HostInv == Host!TypeOK /\ WaitWasOver

LEMMA HostStarts == ASSUME Host!Init PROVE HostInv
BY DEF Host!Init, HostInv, Host!TypeOK, Host!Cycles, WaitWasOver, Host!CycleOver

LEMMA HostGoesOn == ASSUME HostInv, [Host!Next]_(Host!vars) PROVE HostInv'
<1> USE DEF HostInv, Host!TypeOK, Host!Cycles, WaitWasOver, Host!CycleOver
<1>1. CASE Host!Signal
  BY <1>1 DEF Host!Signal
<1>2. CASE Host!PeerTerminates
  BY <1>2 DEF Host!PeerTerminates
<1>3. CASE Host!MarkerReached
  BY <1>3 DEF Host!MarkerReached
<1>4. CASE Host!ConnectionDrops
  BY <1>4 DEF Host!ConnectionDrops
<1>5. CASE Host!PollFails
  BY <1>5 DEF Host!PollFails
<1>6. CASE Host!WaitReturns
  BY <1>6 DEF Host!WaitReturns
<1>7. CASE Host!RemoveHandlers
  BY <1>7 DEF Host!RemoveHandlers
<1>8. CASE Host!Terminate
  BY <1>8 DEF Host!Terminate
<1>9. CASE Host!CloseWorker
  BY <1>9 DEF Host!CloseWorker
<1>10. CASE Host!Leave
  BY <1>10 DEF Host!Leave
<1>11. ASSUME NEW how \in {"done", "failed", "cancelled"}, Host!CycleEnds(how) PROVE HostInv'
  BY <1>11 DEF Host!CycleEnds
<1>12. CASE UNCHANGED Host!vars
  BY <1>12 DEF Host!vars
<1> QED
  BY <1>1, <1>2, <1>3, <1>4, <1>5, <1>6, <1>7, <1>8, <1>9, <1>10, <1>11, <1>12 DEF Host!Next

LEMMA HostMeans == ASSUME HostInv PROVE Host!TypeOK /\ Host!SilentEndWasAsked
BY DEF HostInv, Host!TypeOK, WaitWasOver, Host!SilentEndWasAsked

\* aserve returns without an error only if it was told to shut down or its
\* cycle was over: a lost connection or a thread that went away is raised.
THEOREM SilentEndAlwaysWasAsked == Host!Spec => []Host!SilentEndWasAsked
BY HostMeans, HostStarts, HostGoesOn, PTL DEF Host!Spec

----------------------------------------------------------------------------
(* Approvals.  As long as an interrupt is parked nothing has decided it:   *)
(* the first decision on it in the log, if there is one, is the first on   *)
(* its way to the worker.  Once its future has a decision, it is the first *)
(* in the log, and the tool was told by it.                                *)

\* The states of a future are no decisions.
DecisionsApart == Decisions \cap {"none", "pending", "cancelled"} = {}

Requests == [event : {"request"}, id : Ids]
Decided == [event : {"decided"}, id : Ids, decision : Decisions]
Entries == Requests \cup Decided

ApprovalTypes ==
    /\ remote \in BOOLEAN /\ linked \in BOOLEAN /\ hosted \in BOOLEAN /\ running \in BOOLEAN
    /\ pending \subseteq Ids
    /\ fut \in [Ids -> Decisions \cup {"none", "pending", "cancelled"}]
    /\ told \in [Ids -> {"none", "run", "refuse"}]
    /\ log \in Seq(Entries) /\ up \in Seq(Requests) /\ down \in Seq(Decided)

\* The decision d on an interrupt is the first that s holds.
FirstOf(s, id, d) ==
    \E i \in 1..Len(s) :
        /\ s[i] = Approval!Decided(id, d)
        /\ \A j \in 1..i - 1 : ~(s[j].event = "decided" /\ s[j].id = id)

ParkedWhileHosted ==
    /\ running => hosted
    /\ ~hosted => pending = {}
    /\ \A id \in Ids : hosted /\ fut[id] = "pending" => id \in pending
    /\ \A id \in pending : fut[id] # "none"

\* Nobody can know of an interrupt that was not raised.
LoggedWereRaised ==
    /\ \A i \in 1..Len(log) : fut[log[i].id] # "none"
    /\ \A i \in 1..Len(up) : fut[up[i].id] # "none"

DownIsLogged ==
    /\ ~remote => up = <<>>
    /\ ~remote \/ ~linked => down = <<>>
    /\ \A k \in 1..Len(down) : \E i \in 1..Len(log) : log[i] = down[k]

FirstExists ==
    \A id \in Ids : Approval!DecisionsOn(id) # {} => \E d \in Decisions : FirstOf(log, id, d)

ParkedIsUndecided ==
    \A id \in pending :
        /\ ~remote => Approval!DecisionsOn(id) = {}
        /\ remote /\ linked => \A d \in Decisions : FirstOf(log, id, d) => FirstOf(down, id, d)

FutureIsFirst == \A id \in Ids : fut[id] \in Decisions => FirstOf(log, id, fut[id])

ToldByFuture ==
    \A id \in Ids : told[id] # "none" /\ fut[id] # "none" =>
        /\ fut[id] \in Decisions
        /\ told[id] = IF Approval!Allows(fut[id]) THEN "run" ELSE "refuse"

ApprovalInv ==
    /\ ApprovalTypes /\ ParkedWhileHosted /\ LoggedWereRaised /\ DownIsLogged /\ FirstExists
    /\ ParkedIsUndecided /\ FutureIsFirst /\ ToldByFuture

(* What the first decision of a sequence is, when it grows at its end and  *)
(* loses its head.                                                         *)

Decides(e, id) == e.event = "decided" /\ e.id = id

LEMMA FirstStays ==
    ASSUME NEW s \in Seq(Entries), NEW t \in Seq(Entries), NEW id, NEW d, FirstOf(s, id, d)
    PROVE  FirstOf(s \o t, id, d)
BY DEF FirstOf

LEMMA FirstWasThere ==
    ASSUME NEW s \in Seq(Entries), NEW t \in Seq(Entries), NEW id, NEW d, FirstOf(s \o t, id, d),
           \/ \E i \in 1..Len(s) : Decides(s[i], id)
           \/ \A i \in 1..Len(t) : ~Decides(t[i], id)
    PROVE  FirstOf(s, id, d)
<1>1. PICK i \in 1..Len(s \o t) :
        /\ (s \o t)[i] = Approval!Decided(id, d)
        /\ \A j \in 1..i - 1 : ~((s \o t)[j].event = "decided" /\ (s \o t)[j].id = id)
  BY DEF FirstOf
<1>2. i \in 1..Len(s)
  BY <1>1 DEF Decides, Approval!Decided
<1> QED
  BY <1>1, <1>2 DEF FirstOf

LEMMA FirstIsNew ==
    ASSUME NEW s \in Seq(Entries), NEW id \in Ids, NEW d \in Decisions,
           \A i \in 1..Len(s) : ~Decides(s[i], id)
    PROVE  FirstOf(Append(s, Approval!Decided(id, d)), id, d)
<1>1. Approval!Decided(id, d) \in Entries
  BY DEF Approval!Decided, Entries, Decided
<1> QED
  BY <1>1 DEF FirstOf, Decides

LEMMA FirstOfTail ==
    ASSUME NEW s \in Seq(Entries), s # <<>>, NEW id, NEW d, FirstOf(s, id, d), ~Decides(Head(s), id)
    PROVE  FirstOf(Tail(s), id, d)
<1>1. PICK i \in 1..Len(s) :
        /\ s[i] = Approval!Decided(id, d)
        /\ \A j \in 1..i - 1 : ~(s[j].event = "decided" /\ s[j].id = id)
  BY DEF FirstOf
<1>2. i # 1
  BY <1>1 DEF Decides, Approval!Decided
<1>3. i - 1 \in 1..Len(Tail(s)) /\ Tail(s)[i - 1] = s[i]
  BY <1>1, <1>2
<1>4. \A j \in 1..i - 2 : ~(Tail(s)[j].event = "decided" /\ Tail(s)[j].id = id)
  BY <1>1, <1>2
<1> QED
  BY <1>1, <1>3, <1>4 DEF FirstOf

LEMMA FirstIsOne ==
    ASSUME NEW s \in Seq(Entries), s # <<>>, NEW id, NEW d, FirstOf(s, id, d), Decides(Head(s), id)
    PROVE  Head(s) = Approval!Decided(id, d)
BY DEF FirstOf, Decides

LEMMA DecisionsAreDecides ==
    ASSUME NEW id, log \in Seq(Entries)
    PROVE  Approval!DecisionsOn(id) = {i \in 1..Len(log) : Decides(log[i], id)}
BY DEF Approval!DecisionsOn, Decides

\* What an entry holds.
LEMMA EntryKinds ==
    /\ \A e \in Requests : e.event = "request" /\ e.id \in Ids
    /\ \A e \in Decided : e.event = "decided" /\ e.id \in Ids /\ e.decision \in Decisions
    /\ \A e \in Entries : e.id \in Ids
    /\ \A id \in Ids : Approval!Request(id) \in Requests /\ Approval!Request(id).id = id
    /\ \A id \in Ids, d \in Decisions : Approval!Decided(id, d) \in Decided /\ Approval!Decided(id, d) \in Entries
    /\ \A e \in Decided : e = Approval!Decided(e.id, e.decision)
BY DEF Requests, Decided, Entries, Approval!Request, Approval!Decided

LEMMA ApprovalStarts == ASSUME Approval!Init, DecisionsApart PROVE ApprovalInv
<1> USE DEF Approval!Init, DecisionsApart
<1>1. ApprovalTypes
  <2>1. /\ remote \in BOOLEAN /\ linked \in BOOLEAN /\ hosted \in BOOLEAN /\ running \in BOOLEAN
        /\ pending \subseteq Ids
    OBVIOUS
  <2>2. fut \in [Ids -> Decisions \cup {"none", "pending", "cancelled"}] /\ told \in [Ids -> {"none", "run", "refuse"}]
    OBVIOUS
  <2>3. log \in Seq(Entries) /\ up \in Seq(Requests) /\ down \in Seq(Decided)
    OBVIOUS
  <2> QED
    BY <2>1, <2>2, <2>3 DEF ApprovalTypes
<1>2. ParkedWhileHosted /\ LoggedWereRaised /\ DownIsLogged
  BY DEF ParkedWhileHosted, LoggedWereRaised, DownIsLogged
<1>3. \A id : Approval!DecisionsOn(id) = {}
  BY DEF Approval!DecisionsOn
<1>4. FirstExists /\ ParkedIsUndecided
  BY <1>3, Zenon DEF FirstExists, ParkedIsUndecided
<1>5. FutureIsFirst /\ ToldByFuture
  BY DEF FutureIsFirst, ToldByFuture
<1> QED
  BY <1>1, <1>2, <1>4, <1>5 DEF ApprovalInv

\* What is logged or sent ahead of it and decides nothing changes no decision.
LEMMA RequestsDecideNothing ==
    ASSUME log \in Seq(Entries), NEW t \in Seq(Requests), log' = log \o t
    PROVE  /\ \A id : Approval!DecisionsOn(id)' = Approval!DecisionsOn(id)
           /\ \A id, d : FirstOf(log', id, d) <=> FirstOf(log, id, d)
<1>1. t \in Seq(Entries) /\ log' \in Seq(Entries)
  BY DEF Entries
<1>2. \A i \in 1..Len(t) : t[i].event = "request"
  <2>1. \A i \in 1..Len(t) : t[i] \in Requests
    OBVIOUS
  <2> QED
    BY <2>1, EntryKinds
<1>3. \A id : Approval!DecisionsOn(id)' = {i \in 1..Len(log') : Decides(log'[i], id)}
  BY <1>1, DecisionsAreDecides DEF Approval!DecisionsOn, Decides
<1>4. \A id : Approval!DecisionsOn(id)' = Approval!DecisionsOn(id)
  <2>1. \A i : i \in 1..Len(log') /\ ~(i \in 1..Len(log)) => i - Len(log) \in 1..Len(t) /\ log'[i] = t[i - Len(log)]
    BY <1>1
  <2>2. \A i \in 1..Len(log) : i \in 1..Len(log') /\ log'[i] = log[i]
    BY <1>1
  <2>3. \A i \in 1..Len(log') : log'[i].event = "decided" => i \in 1..Len(log)
    BY <1>2, <2>1
  <2>4. \A id : Approval!DecisionsOn(id) = {i \in 1..Len(log) : Decides(log[i], id)}
    BY DecisionsAreDecides
  <2> QED
    BY <1>3, <2>2, <2>3, <2>4 DEF Decides
<1>5. \A id, d : FirstOf(log', id, d) <=> FirstOf(log, id, d)
  BY <1>1, <1>2, FirstStays, FirstWasThere DEF Decides
<1> QED
  BY <1>4, <1>5

LEMMA InterruptsArePark ==
    ASSUME ApprovalInv, DecisionsApart, hosted, NEW batch \in Seq(Ids),
           \A i \in 1..Len(batch) : fut[batch[i]] = "none" /\ told[batch[i]] = "none",
           Approval!OnInterrupt(batch),
           UNCHANGED <<asker, auto, remote, linked, hosted, running, told, down>>
    PROVE  ApprovalInv'
<1> DEFINE batched == {batch[i] : i \in 1..Len(batch)}
           sent == [i \in DOMAIN batch |-> Approval!Request(batch[i])]
<1> USE DEF ApprovalInv, DecisionsApart
<1>1. Approval!ToSet(batch) = batched
  BY DEF Approval!ToSet
<1>2. /\ pending' = pending \cup batched
      /\ fut' = [i \in Ids |-> IF i \in batched THEN "pending" ELSE fut[i]]
      /\ Approval!Route(sent)
  BY <1>1 DEF Approval!OnInterrupt
<1>3. sent \in Seq(Requests) /\ Len(sent) = Len(batch)
  <2>1. \A i \in 1..Len(batch) : Approval!Request(batch[i]) \in Requests
    BY EntryKinds
  <2> QED
    BY <2>1
<1>4. \A i \in 1..Len(sent) : sent[i].id \in batched
  BY <1>3 DEF Approval!Request
<1>5. batched \subseteq Ids /\ \A id \in batched : fut[id] = "none" /\ told[id] = "none"
  OBVIOUS
<1> HIDE DEF batched, sent
<1>6. \E t \in Seq(Requests), u \in Seq(Requests) :
        /\ log' = log \o t /\ up' = up \o u
        /\ \A i \in 1..Len(t) : t[i].id \in batched
        /\ \A i \in 1..Len(u) : u[i].id \in batched
        /\ ~remote => u = <<>>
  <2>0. /\ <<>> \in Seq(Requests) /\ Len(<<>>) = 0
        /\ log = log \o <<>> /\ up = up \o <<>>
    BY DEF ApprovalTypes
  <2>1. CASE remote /\ linked
    <3>1. log' = log \o <<>> /\ up' = up \o sent
      BY <1>2, <2>0, <2>1 DEF Approval!Route
    <3> <<>> \in Seq(Requests) /\ sent \in Seq(Requests)
      BY <1>3, <2>0
    <3> WITNESS <<>> \in Seq(Requests), sent \in Seq(Requests)
    <3> QED
      BY <1>3, <1>4, <2>0, <2>1, <3>1
  <2>2. CASE remote /\ ~linked
    <3>1. log' = log \o <<>> /\ up' = up \o <<>>
      BY <1>2, <2>0, <2>2 DEF Approval!Route
    <3> <<>> \in Seq(Requests) /\ <<>> \in Seq(Requests)
      BY <1>3, <2>0
    <3> WITNESS <<>> \in Seq(Requests), <<>> \in Seq(Requests)
    <3> QED
      BY <2>0, <2>2, <3>1
  <2>3. CASE ~remote
    <3>1. log' = log \o sent /\ up' = up \o <<>>
      BY <1>2, <2>0, <2>3 DEF Approval!Route
    <3> sent \in Seq(Requests) /\ <<>> \in Seq(Requests)
      BY <1>3, <2>0
    <3> WITNESS sent \in Seq(Requests), <<>> \in Seq(Requests)
    <3> QED
      BY <1>3, <1>4, <2>0, <2>3, <3>1
  <2> QED
    BY <2>1, <2>2, <2>3
<1>7. PICK t \in Seq(Requests), u \in Seq(Requests) :
        /\ log' = log \o t /\ up' = up \o u
        /\ \A i \in 1..Len(t) : t[i].id \in batched
        /\ \A i \in 1..Len(u) : u[i].id \in batched
        /\ ~remote => u = <<>>
  BY <1>6
<1>8. /\ \A id : Approval!DecisionsOn(id)' = Approval!DecisionsOn(id)
      /\ \A id, d : FirstOf(log', id, d) <=> FirstOf(log, id, d)
  BY <1>7, RequestsDecideNothing DEF ApprovalTypes
<1>9. ApprovalTypes'
  BY <1>2, <1>5, <1>7 DEF ApprovalTypes, Entries
<1>10. \A id \in batched : Approval!DecisionsOn(id) = {} /\ \A d \in Decisions : ~FirstOf(log, id, d)
  <2> SUFFICES ASSUME NEW id \in batched
               PROVE  Approval!DecisionsOn(id) = {} /\ \A d \in Decisions : ~FirstOf(log, id, d)
    OBVIOUS
  <2>1. \A i \in 1..Len(log) : log[i].id # id
    BY <1>5 DEF LoggedWereRaised
  <2> QED
    BY <2>1 DEF Approval!DecisionsOn, FirstOf, ApprovalTypes, Approval!Decided
<1>11. ParkedWhileHosted'
  BY <1>2, <1>5, Zenon DEF ParkedWhileHosted, ApprovalTypes
<1>12. LoggedWereRaised'
  <2>1. \A id \in Ids : fut[id] # "none" => fut'[id] # "none"
    BY <1>2, <1>5 DEF ApprovalTypes
  <2>2. \A id \in batched : fut'[id] # "none"
    BY <1>2, <1>5
  <2>0. log \in Seq(Entries) /\ up \in Seq(Requests) /\ t \in Seq(Entries)
    BY <1>7 DEF ApprovalTypes, Entries
  <2>3. \A i \in 1..Len(log') : (i \in 1..Len(log) /\ log'[i] = log[i]) \/ log'[i].id \in batched
    <3>1. \A i \in 1..Len(log') :
            \/ i \in 1..Len(log) /\ log'[i] = log[i]
            \/ i - Len(log) \in 1..Len(t) /\ log'[i] = t[i - Len(log)]
      BY <1>7, <2>0
    <3> QED
      BY <1>7, <3>1
  <2>4. \A i \in 1..Len(up') : (i \in 1..Len(up) /\ up'[i] = up[i]) \/ up'[i].id \in batched
    <3>1. \A i \in 1..Len(up') :
            \/ i \in 1..Len(up) /\ up'[i] = up[i]
            \/ i - Len(up) \in 1..Len(u) /\ up'[i] = u[i - Len(up)]
      BY <1>7, <2>0
    <3> QED
      BY <1>7, <3>1
  <2>5. /\ \A i \in 1..Len(log) : log[i].id \in Ids
        /\ \A i \in 1..Len(up) : up[i].id \in Ids
    <3>1. /\ \A i \in 1..Len(log) : log[i] \in Entries
          /\ \A i \in 1..Len(up) : up[i] \in Requests
      BY <2>0
    <3> QED
      BY <3>1, EntryKinds
  <2> QED
    BY <2>1, <2>2, <2>3, <2>4, <2>5 DEF LoggedWereRaised
<1>13. DownIsLogged' /\ FirstExists'
  <2>1. \A i \in 1..Len(log) : i \in 1..Len(log') /\ log'[i] = log[i]
    BY <1>7, <1>9 DEF ApprovalTypes, Entries
  <2>2. ~remote => up' = <<>>
    BY <1>7 DEF DownIsLogged
  <2>3. DownIsLogged'
    BY <2>1, <2>2 DEF DownIsLogged
  <2>4. FirstExists'
    BY <1>8, Zenon DEF FirstExists
  <2> QED
    BY <2>3, <2>4
<1>14. ParkedIsUndecided'
  BY <1>2, <1>8, <1>10 DEF ParkedIsUndecided
<1>15. FutureIsFirst' /\ ToldByFuture'
  BY <1>2, <1>5, <1>8 DEF FutureIsFirst, ToldByFuture, ApprovalTypes, Approval!Allows
<1> QED
  BY <1>9, <1>11, <1>12, <1>13, <1>14, <1>15

\* What one more decision changes.
LEMMA FirstOfMore ==
    ASSUME NEW s \in Seq(Entries), NEW id \in Ids, NEW d \in Decisions
    PROVE  LET more == Append(s, Approval!Decided(id, d)) IN
           /\ more \in Seq(Entries)
           /\ \A o, e : FirstOf(s, o, e) => FirstOf(more, o, e)
           /\ \A o, e : FirstOf(more, o, e) => FirstOf(s, o, e) \/ (o = id /\ e = d)
           /\ (\A i \in 1..Len(s) : ~Decides(s[i], id)) => FirstOf(more, id, d)
           /\ (\E i \in 1..Len(s) : Decides(s[i], id)) => \A e : FirstOf(more, id, e) => FirstOf(s, id, e)
<1> DEFINE new == Approval!Decided(id, d)
           more == Append(s, new)
<1>1. new \in Entries /\ new.event = "decided" /\ new.id = id /\ new.decision = d
  BY EntryKinds DEF Approval!Decided
<1> HIDE DEF new
<1>2. /\ more \in Seq(Entries) /\ Len(more) = Len(s) + 1 /\ more[Len(s) + 1] = new
      /\ \A i \in 1..Len(s) : more[i] = s[i]
  BY <1>1
<1> HIDE DEF more
<1>3. \A o, e : FirstOf(s, o, e) => FirstOf(more, o, e)
  BY <1>2 DEF FirstOf
<1>4. ASSUME NEW o, NEW e, FirstOf(more, o, e)
      PROVE  FirstOf(s, o, e) \/ (o = id /\ e = d /\ \A i \in 1..Len(s) : ~Decides(s[i], id))
  <2>1. PICK i \in 1..Len(more) :
          /\ more[i] = Approval!Decided(o, e)
          /\ \A j \in 1..i - 1 : ~(more[j].event = "decided" /\ more[j].id = o)
    BY <1>4 DEF FirstOf
  <2>2. CASE i \in 1..Len(s)
    BY <1>2, <2>1, <2>2 DEF FirstOf
  <2>3. CASE i = Len(s) + 1
    <3>1. o = id /\ e = d
      BY <1>1, <1>2, <2>1, <2>3 DEF Approval!Decided
    <3> QED
      BY <1>2, <2>1, <2>3, <3>1 DEF Decides
  <2> QED
    BY <1>2, <2>2, <2>3
<1>5. (\A i \in 1..Len(s) : ~Decides(s[i], id)) => FirstOf(more, id, d)
  BY FirstIsNew DEF more, new
<1> QED
  BY <1>2, <1>3, <1>4, <1>5 DEF more, new

\* A step that decides nothing leaves alone what the decisions mean.
LEMMA NothingIsDecided ==
    ASSUME ApprovalInv, UNCHANGED <<remote, log>>, pending' \subseteq pending,
           (down' = down /\ linked' = linked) \/ (down' = <<>> /\ ~linked'),
           up' = up \/ up' = <<>>,
           \A id \in Ids : fut[id] # "none" => fut'[id] # "none",
           \A id \in Ids : fut'[id] \in Decisions => fut'[id] = fut[id]
    PROVE  /\ LoggedWereRaised' /\ DownIsLogged' /\ FirstExists' /\ ParkedIsUndecided' /\ FutureIsFirst'
           /\ log' \in Seq(Entries) /\ up' \in Seq(Requests) /\ down' \in Seq(Decided)
<1>0. log \in Seq(Entries) /\ up \in Seq(Requests) /\ down \in Seq(Decided)
  BY DEF ApprovalInv, ApprovalTypes
<1>1. log' \in Seq(Entries) /\ up' \in Seq(Requests) /\ down' \in Seq(Decided)
  <2>0. <<>> \in Seq(Requests) /\ <<>> \in Seq(Decided)
    OBVIOUS
  <2>1. up' \in Seq(Requests)
    BY <1>0, <2>0, Zenon
  <2>2. down' \in Seq(Decided)
    BY <1>0, <2>0, Zenon
  <2> QED
    BY <1>0, <2>1, <2>2
<1>2. \A id : Approval!DecisionsOn(id)' = Approval!DecisionsOn(id)
  BY DEF Approval!DecisionsOn
<1>3. LoggedWereRaised'
  <2>1. /\ \A i \in 1..Len(log) : log[i].id \in Ids
        /\ \A i \in 1..Len(up) : up[i].id \in Ids
    <3>1. /\ \A i \in 1..Len(log) : log[i] \in Entries
          /\ \A i \in 1..Len(up) : up[i] \in Requests
      BY <1>0
    <3> QED
      BY <3>1, EntryKinds
  <2>2. \A i \in 1..Len(up') : i \in 1..Len(up) /\ up'[i] = up[i]
    OBVIOUS
  <2> QED
    BY <2>1, <2>2 DEF ApprovalInv, LoggedWereRaised
<1>4. DownIsLogged'
  <2>1. \A k \in 1..Len(down') : k \in 1..Len(down) /\ down'[k] = down[k]
    <3>1. CASE down' = down
      BY <3>1
    <3>2. CASE down' = <<>>
      BY <3>2
    <3>3. down' = down \/ down' = <<>>
      OBVIOUS
    <3> QED
      BY <3>1, <3>2, <3>3
  <2>2. ~remote' => up' = <<>>
    BY DEF ApprovalInv, DownIsLogged
  <2>3. ~remote' \/ ~linked' => down' = <<>>
    BY DEF ApprovalInv, DownIsLogged
  <2> QED
    BY <2>1, <2>2, <2>3 DEF ApprovalInv, DownIsLogged
<1>5. FirstExists'
  BY <1>2 DEF ApprovalInv, FirstExists
<1>6. ParkedIsUndecided'
  BY <1>2 DEF ApprovalInv, ParkedIsUndecided
<1>7. FutureIsFirst'
  BY DEF ApprovalInv, FutureIsFirst
<1> QED
  BY <1>1, <1>3, <1>4, <1>5, <1>6, <1>7

LEMMA InterruptsGoOn ==
    ASSUME ApprovalInv, DecisionsApart, Approval!Interrupts
    PROVE  ApprovalInv'
<1>1. PICK i \in Approval!Fresh, j \in Approval!Fresh : Approval!OnInterrupt(IF i = j THEN <<i>> ELSE <<i, j>>)
  BY DEF Approval!Interrupts
<1> DEFINE batch == IF i = j THEN <<i>> ELSE <<i, j>>
<1>2. i \in Ids /\ j \in Ids /\ batch \in Seq(Ids)
  BY DEF Approval!Fresh
<1>3. \A k \in 1..Len(batch) : fut[batch[k]] = "none" /\ told[batch[k]] = "none"
  BY DEF Approval!Fresh
<1>4. hosted /\ UNCHANGED <<asker, auto, remote, linked, hosted, running, told, down>>
  BY DEF Approval!Interrupts, Approval!kind, ApprovalInv, ParkedWhileHosted
<1>5. Approval!OnInterrupt(batch)
  BY <1>1
<1> HIDE DEF batch
<1> QED
  BY <1>2, <1>3, <1>4, <1>5, InterruptsArePark

LEMMA AsksLeaveGoesOn ==
    ASSUME ApprovalInv, DecisionsApart, Approval!AsksLeave
    PROVE  ApprovalInv'
<1>1. PICK i \in Approval!Fresh :
        \/ auto /\ told' = [told EXCEPT ![i] = "run"] /\ UNCHANGED <<pending, fut, waiting, up, log>>
        \/ ~auto /\ ~running /\ told' = [told EXCEPT ![i] = "refuse"]
           /\ UNCHANGED <<pending, fut, waiting, up, log>>
        \/ ~auto /\ running /\ hosted /\ Approval!OnInterrupt(<<i>>) /\ UNCHANGED told
  BY DEF Approval!AsksLeave
<1>2. i \in Ids /\ fut[i] = "none" /\ told[i] = "none"
  BY DEF Approval!Fresh
<1>3. UNCHANGED <<asker, auto, remote, linked, hosted, running, down>>
  BY DEF Approval!AsksLeave, Approval!kind
<1>4. CASE /\ told' = [told EXCEPT ![i] = "run"] \/ told' = [told EXCEPT ![i] = "refuse"]
           /\ UNCHANGED <<pending, fut, waiting, up, log>>
  <2>1. /\ told' \in [Ids -> {"none", "run", "refuse"}]
        /\ \A id \in Ids : fut[id] # "none" => told'[id] = told[id]
    BY <1>2, <1>4 DEF ApprovalInv, ApprovalTypes
  <2>2. ToldByFuture'
    BY <1>3, <1>4, <2>1 DEF ApprovalInv, ToldByFuture, Approval!Allows
  <2>3. /\ LoggedWereRaised' /\ DownIsLogged' /\ FirstExists' /\ ParkedIsUndecided' /\ FutureIsFirst'
        /\ log' \in Seq(Entries) /\ up' \in Seq(Requests) /\ down' \in Seq(Decided)
    BY <1>3, <1>4, NothingIsDecided
  <2> QED
    BY <1>3, <1>4, <2>1, <2>2, <2>3 DEF ApprovalInv, ApprovalTypes, ParkedWhileHosted
<1>5. CASE hosted /\ Approval!OnInterrupt(<<i>>) /\ UNCHANGED told
  <2>1. <<i>> \in Seq(Ids) /\ \A k \in 1..Len(<<i>>) : fut[<<i>>[k]] = "none" /\ told[<<i>>[k]] = "none"
    BY <1>2
  <2> QED
    BY <1>3, <1>5, <2>1, InterruptsArePark
<1> QED
  BY <1>1, <1>4, <1>5

LEMMA ResumesGoesOn ==
    ASSUME ApprovalInv, DecisionsApart, Approval!Resumes
    PROVE  ApprovalInv'
<1>1. PICK batch \in waiting :
        /\ Approval!Gathered(batch)
        /\ told' = [i \in Ids |-> IF i \in Approval!ToSet(batch)
                                  THEN IF Approval!Allows(fut[i]) THEN "run" ELSE "refuse"
                                  ELSE told[i]]
  BY DEF Approval!Resumes
<1>2. UNCHANGED <<asker, auto, remote, linked, hosted, running, pending, fut, up, down, log>>
  BY DEF Approval!Resumes, Approval!kind
<1>3. \A i \in Approval!ToSet(batch) : fut[i] \in Decisions
  BY <1>1 DEF Approval!Gathered
<1>4. told' \in [Ids -> {"none", "run", "refuse"}]
  BY <1>1 DEF ApprovalInv, ApprovalTypes
<1>5. ToldByFuture'
  BY <1>1, <1>2, <1>3 DEF ApprovalInv, ToldByFuture, Approval!Allows
<1>6. /\ LoggedWereRaised' /\ DownIsLogged' /\ FirstExists' /\ ParkedIsUndecided' /\ FutureIsFirst'
      /\ log' \in Seq(Entries) /\ up' \in Seq(Requests) /\ down' \in Seq(Decided)
  BY <1>2, NothingIsDecided
<1> QED
  BY <1>2, <1>4, <1>5, <1>6 DEF ApprovalInv, ApprovalTypes, ParkedWhileHosted

\* The cycle begins and ends, is cancelled; the thread or its connection goes.
LEMMA CyclesGoOn ==
    ASSUME ApprovalInv, DecisionsApart,
           \/ Approval!CycleBegins \/ Approval!CycleEnds \/ Approval!Cancelled
           \/ Approval!TornDown \/ Approval!Disconnects
    PROVE  ApprovalInv'
<1>1. UNCHANGED <<asker, remote, log, told>> /\ pending' \subseteq pending
  BY DEF Approval!CycleBegins, Approval!CycleEnds, Approval!Cancelled, Approval!TornDown, Approval!Disconnects,
         Approval!kind
<1>2. ((down' = down /\ linked' = linked) \/ (down' = <<>> /\ ~linked')) /\ (up' = up \/ up' = <<>>)
  BY DEF Approval!CycleBegins, Approval!CycleEnds, Approval!Cancelled, Approval!TornDown, Approval!Disconnects,
         Approval!kind
<1>3. \/ fut' = fut
      \/ fut' = [i \in Ids |-> IF fut[i] = "pending" THEN "cancelled" ELSE fut[i]]
  BY DEF Approval!CycleBegins, Approval!CycleEnds, Approval!Cancelled, Approval!TornDown, Approval!Disconnects
<1>4. /\ fut' \in [Ids -> Decisions \cup {"none", "pending", "cancelled"}]
      /\ \A id \in Ids : fut'[id] = fut[id] \/ (fut[id] = "pending" /\ fut'[id] = "cancelled")
  BY <1>3 DEF ApprovalInv, ApprovalTypes
<1>5. \A id \in Ids : fut'[id] \in Decisions => fut'[id] = fut[id]
  BY <1>4 DEF DecisionsApart
<1>6. /\ LoggedWereRaised' /\ DownIsLogged' /\ FirstExists' /\ ParkedIsUndecided' /\ FutureIsFirst'
      /\ log' \in Seq(Entries) /\ up' \in Seq(Requests) /\ down' \in Seq(Decided)
  BY <1>1, <1>2, <1>4, <1>5, NothingIsDecided
<1>7. /\ linked' \in BOOLEAN /\ hosted' \in BOOLEAN /\ running' \in BOOLEAN
      /\ running' => hosted'
      /\ ~hosted' => pending' = {}
      /\ hosted' => hosted /\ pending' = pending
  <2> USE DEF Approval!kind, ApprovalInv, ApprovalTypes, ParkedWhileHosted
  <2>1. CASE Approval!CycleBegins
    BY <2>1 DEF Approval!CycleBegins
  <2>2. CASE Approval!CycleEnds
    BY <2>2 DEF Approval!CycleEnds
  <2>3. CASE Approval!Cancelled
    BY <2>3 DEF Approval!Cancelled
  <2>4. CASE Approval!TornDown
    BY <2>4 DEF Approval!TornDown
  <2>5. CASE Approval!Disconnects
    BY <2>5 DEF Approval!Disconnects
  <2> QED
    BY <2>1, <2>2, <2>3, <2>4, <2>5
<1>8. ApprovalTypes'
  BY <1>1, <1>4, <1>6, <1>7 DEF ApprovalInv, ApprovalTypes
<1>9. ParkedWhileHosted'
  BY <1>1, <1>4, <1>7 DEF ApprovalInv, ApprovalTypes, ParkedWhileHosted
<1>10. ToldByFuture'
  <2> SUFFICES ASSUME NEW id \in Ids, told'[id] # "none", fut'[id] # "none"
               PROVE  /\ fut'[id] \in Decisions
                      /\ told'[id] = IF Approval!Allows(fut'[id]) THEN "run" ELSE "refuse"
    BY <1>1 DEF ToldByFuture, Approval!Allows
  <2>1. told[id] # "none" /\ fut[id] # "none"
    BY <1>1, <1>4
  <2>2. fut[id] \in Decisions /\ told[id] = IF Approval!Allows(fut[id]) THEN "run" ELSE "refuse"
    BY <2>1 DEF ApprovalInv, ToldByFuture
  <2>3. fut'[id] = fut[id]
    BY <1>4, <2>2 DEF DecisionsApart
  <2> QED
    BY <1>1, <2>2, <2>3 DEF Approval!Allows
<1> QED
  BY <1>6, <1>8, <1>9, <1>10 DEF ApprovalInv

\* A request arrives in the log.
LEMMA EventArrivesGoesOn ==
    ASSUME ApprovalInv, DecisionsApart, Approval!EventArrives
    PROVE  ApprovalInv'
<1>1. /\ up # <<>> /\ log' = Append(log, Head(up)) /\ up' = Tail(up)
      /\ UNCHANGED <<asker, auto, remote, linked, hosted, running, pending, fut, waiting, told, down>>
  BY DEF Approval!EventArrives, Approval!kind
<1>2. log \in Seq(Entries) /\ up \in Seq(Requests) /\ Head(up) \in Requests /\ Head(up) \in Entries
  BY <1>1 DEF ApprovalInv, ApprovalTypes, Entries
<1>3. log' = log \o <<Head(up)>> /\ <<Head(up)>> \in Seq(Requests)
  BY <1>1, <1>2
<1>4. /\ \A id : Approval!DecisionsOn(id)' = Approval!DecisionsOn(id)
      /\ \A id, d : FirstOf(log', id, d) <=> FirstOf(log, id, d)
  BY <1>2, <1>3, RequestsDecideNothing
<1>5. ApprovalTypes'
  BY <1>1, <1>2 DEF ApprovalInv, ApprovalTypes
<1>6. ParkedWhileHosted' /\ ToldByFuture'
  BY <1>1 DEF ApprovalInv, ParkedWhileHosted, ToldByFuture, Approval!Allows
<1>7. /\ Len(log') = Len(log) + 1 /\ log'[Len(log) + 1] = up[1]
      /\ \A i \in 1..Len(log) : log'[i] = log[i]
      /\ 1 \in 1..Len(up)
      /\ \A i \in 1..Len(up') : i + 1 \in 1..Len(up) /\ up'[i] = up[i + 1]
  BY <1>1, <1>2
<1>8. LoggedWereRaised'
  <2>1. \A i \in 1..Len(log') : i \in 1..Len(log) \/ i = Len(log) + 1
    BY <1>2, <1>7
  <2> QED
    BY <1>1, <1>7, <2>1 DEF ApprovalInv, LoggedWereRaised
<1>9. DownIsLogged'
  <2>1. remote
    BY <1>1 DEF ApprovalInv, DownIsLogged
  <2>2. \A i \in 1..Len(log) : i \in 1..Len(log') /\ log'[i] = log[i]
    BY <1>2, <1>7
  <2> QED
    BY <1>1, <2>1, <2>2 DEF ApprovalInv, DownIsLogged
<1>10. FirstExists'
  BY <1>4, Zenon DEF ApprovalInv, FirstExists
<1>11. ParkedIsUndecided'
  BY <1>1, <1>4 DEF ApprovalInv, ParkedIsUndecided
<1>12. FutureIsFirst'
  BY <1>1, <1>4 DEF ApprovalInv, FutureIsFirst
<1> QED
  BY <1>5, <1>6, <1>8, <1>9, <1>10, <1>11, <1>12 DEF ApprovalInv

\* What a decision that reaches the worker does to the futures there.
LEMMA WorkerObeys ==
    ASSUME ApprovalTypes, DecisionsApart, NEW id \in Ids, NEW d \in Decisions, Approval!WorkerResolves(id, d)
    PROVE  /\ pending' \subseteq pending /\ (hosted => id \notin pending')
           /\ \A o \in Ids : o # id => (o \in pending <=> o \in pending') /\ fut'[o] = fut[o]
           /\ fut' \in [Ids -> Decisions \cup {"none", "pending", "cancelled"}]
           /\ fut'[id] = fut[id] \/ (hosted /\ id \in pending /\ fut[id] = "pending" /\ fut'[id] = d)
           /\ hosted /\ id \in pending /\ fut[id] = "pending" => fut'[id] = d
           /\ ~hosted => pending' = pending
<1>1. CASE hosted /\ id \in pending /\ fut[id] = "pending"
  BY <1>1 DEF Approval!WorkerResolves, ApprovalTypes
<1>2. CASE hosted /\ id \in pending /\ fut[id] # "pending"
  BY <1>2 DEF Approval!WorkerResolves, ApprovalTypes
<1>3. CASE ~(hosted /\ id \in pending)
  BY <1>3 DEF Approval!WorkerResolves, ApprovalTypes
<1> QED
  BY <1>1, <1>2, <1>3

\* Somebody decides: the worker is told, or will be, and the log is.
LEMMA ResolveApprovalGoesOn ==
    ASSUME ApprovalInv, DecisionsApart, Approval!ResolveApproval
    PROVE  ApprovalInv'
<1> USE DEF ApprovalInv
<1>1. PICK id \in Ids, d \in Decisions :
        /\ Approval!Request(id) \in Approval!ToSet(log)
        /\ IF remote
           THEN down' = Append(down, Approval!Decided(id, d)) /\ UNCHANGED <<pending, fut>>
           ELSE Approval!WorkerResolves(id, d) /\ UNCHANGED down
        /\ log' = Append(log, Approval!Decided(id, d))
  BY DEF Approval!ResolveApproval
<1>2. linked /\ hosted /\ UNCHANGED <<asker, auto, remote, linked, hosted, running, waiting, told, up>>
  BY DEF Approval!ResolveApproval, Approval!kind
<1>3. log \in Seq(Entries) /\ down \in Seq(Decided) /\ down \in Seq(Entries)
  BY DEF ApprovalTypes, Entries
<1>4. fut[id] # "none"
  <2>1. \E i \in 1..Len(log) : log[i].id = id
    BY <1>1, <1>3 DEF Approval!ToSet, Approval!Request
  <2> QED
    BY <2>1 DEF LoggedWereRaised
<1> DEFINE new == Approval!Decided(id, d)
<1>5. /\ log' \in Seq(Entries)
      /\ \A o, e : FirstOf(log, o, e) => FirstOf(log', o, e)
      /\ \A o, e : FirstOf(log', o, e) => FirstOf(log, o, e) \/ (o = id /\ e = d)
      /\ (\A i \in 1..Len(log) : ~Decides(log[i], id)) => FirstOf(log', id, d)
      /\ (\E i \in 1..Len(log) : Decides(log[i], id)) => \A e : FirstOf(log', id, e) => FirstOf(log, id, e)
  BY <1>1, <1>3, FirstOfMore
<1>6. /\ Len(log') = Len(log) + 1 /\ log'[Len(log) + 1] = new
      /\ \A i \in 1..Len(log) : i \in 1..Len(log') /\ log'[i] = log[i]
      /\ \A i \in 1..Len(log') : i \in 1..Len(log) \/ i = Len(log) + 1
  BY <1>1, <1>3, EntryKinds
<1>7. new \in Decided /\ new.id = id /\ new.event = "decided"
  BY EntryKinds DEF Approval!Decided
<1> HIDE DEF new
<1>8. \A o : Approval!DecisionsOn(o) = {i \in 1..Len(log) : Decides(log[i], o)}
  BY <1>3, DecisionsAreDecides
<1>9. \A o : Approval!DecisionsOn(o)' = {i \in 1..Len(log') : Decides(log'[i], o)}
  BY <1>5 DEF Approval!DecisionsOn, Decides
<1>10. \A o : o # id => Approval!DecisionsOn(o)' = Approval!DecisionsOn(o)
  BY <1>6, <1>7, <1>8, <1>9 DEF Decides
<1>11. /\ pending' \subseteq pending
       /\ \A o \in Ids : o # id => (o \in pending <=> o \in pending') /\ fut'[o] = fut[o]
       /\ fut' \in [Ids -> Decisions \cup {"none", "pending", "cancelled"}]
       /\ fut'[id] = fut[id] \/ (~remote /\ id \in pending /\ fut[id] = "pending" /\ fut'[id] = d)
       /\ ~remote => id \notin pending' /\ (id \in pending /\ fut[id] = "pending" => fut'[id] = d)
       /\ remote => pending' = pending /\ fut' = fut
  <2>1. CASE remote
    BY <1>1, <2>1 DEF ApprovalTypes
  <2>2. CASE ~remote
    BY <1>1, <1>2, <2>2, WorkerObeys
  <2> QED
    BY <2>1, <2>2
<1>12. ApprovalTypes'
  <2>1. down' \in Seq(Decided)
    <3>1. down' = Append(down, new) \/ down' = down
      BY <1>1, Zenon DEF new
    <3>2. Append(down, new) \in Seq(Decided)
      BY <1>3, <1>7
    <3> QED
      BY <1>3, <3>1, <3>2
  <2> QED
    BY <1>2, <1>5, <1>11, <2>1 DEF ApprovalTypes
<1>13. \A o \in Ids : fut[o] # "none" => fut'[o] # "none"
  BY <1>4, <1>11 DEF DecisionsApart
<1>14. ParkedWhileHosted'
  <2>1. \A o \in Ids : fut'[o] = "pending" => o \in pending'
    BY <1>2, <1>11 DEF ParkedWhileHosted, DecisionsApart
  <2> QED
    BY <1>2, <1>11, <1>13, <2>1 DEF ParkedWhileHosted, ApprovalTypes
<1>15. LoggedWereRaised'
  <2>1. /\ \A i \in 1..Len(log) : log[i].id \in Ids
        /\ \A i \in 1..Len(up) : up[i].id \in Ids
    <3>1. /\ \A i \in 1..Len(log) : log[i] \in Entries
          /\ \A i \in 1..Len(up) : up[i] \in Requests
      BY DEF ApprovalTypes
    <3> QED
      BY <3>1, EntryKinds
  <2> QED
    BY <1>2, <1>4, <1>6, <1>7, <1>13, <2>1 DEF LoggedWereRaised
<1>16. DownIsLogged'
  <2>1. ~remote => up' = <<>> /\ down' = <<>>
    BY <1>1, <1>2 DEF DownIsLogged
  <2>2. \A k \in 1..Len(down') : (k \in 1..Len(down) /\ down'[k] = down[k]) \/ down'[k] = new
    <3>1. CASE remote
      BY <1>1, <1>3, <1>7, <3>1 DEF new
    <3>2. CASE ~remote
      BY <1>1, <3>2
    <3> QED
      BY <3>1, <3>2
  <2>3. \A k \in 1..Len(down') : \E i \in 1..Len(log') : log'[i] = down'[k]
    <3>1. Len(log) + 1 \in 1..Len(log')
      BY <1>3, <1>6
    <3> QED
      BY <1>6, <2>2, <3>1 DEF DownIsLogged
  <2> QED
    BY <1>2, <2>1, <2>3 DEF DownIsLogged
<1>17. FirstExists'
  <2> SUFFICES ASSUME NEW o \in Ids, Approval!DecisionsOn(o)' # {}
               PROVE  \E e \in Decisions : FirstOf(log', o, e)
    BY DEF FirstExists
  <2>1. CASE Approval!DecisionsOn(o) # {}
    BY <1>5, <2>1 DEF FirstExists
  <2>2. CASE Approval!DecisionsOn(o) = {}
    BY <1>5, <1>8, <1>10, <2>2
  <2> QED
    BY <2>1, <2>2
<1>18. FutureIsFirst'
  <2> SUFFICES ASSUME NEW o \in Ids, fut'[o] \in Decisions
               PROVE  FirstOf(log', o, fut'[o])
    BY DEF FutureIsFirst
  <2>1. CASE fut'[o] = fut[o]
    BY <1>5, <2>1 DEF FutureIsFirst
  <2>2. CASE fut'[o] # fut[o]
    <3>1. o = id /\ ~remote /\ id \in pending /\ fut'[id] = d
      BY <1>11, <2>2
    <3>2. Approval!DecisionsOn(id) = {}
      BY <3>1 DEF ParkedIsUndecided
    <3> QED
      BY <1>5, <1>8, <3>1, <3>2
  <2> QED
    BY <2>1, <2>2
<1>19. ToldByFuture'
  <2> SUFFICES ASSUME NEW o \in Ids, told'[o] # "none", fut'[o] # "none"
               PROVE  /\ fut'[o] \in Decisions
                      /\ told'[o] = IF Approval!Allows(fut'[o]) THEN "run" ELSE "refuse"
    BY <1>2 DEF ToldByFuture, Approval!Allows
  <2>1. fut'[o] = fut[o]
    BY <1>2, <1>4, <1>11 DEF ToldByFuture, DecisionsApart
  <2> QED
    BY <1>2, <2>1 DEF ToldByFuture, Approval!Allows
<1>20. ParkedIsUndecided'
  <2> SUFFICES ASSUME NEW o \in pending'
               PROVE  /\ ~remote => Approval!DecisionsOn(o)' = {}
                      /\ remote => \A e \in Decisions : FirstOf(log', o, e) => FirstOf(down', o, e)
    BY <1>2 DEF ParkedIsUndecided
  <2>1. o \in pending /\ o \in Ids
    BY <1>11 DEF ApprovalTypes
  <2>2. ASSUME ~remote PROVE Approval!DecisionsOn(o)' = {}
    BY <1>10, <1>11, <2>1, <2>2 DEF ParkedIsUndecided
  <2>3. ASSUME remote, NEW e \in Decisions, FirstOf(log', o, e) PROVE FirstOf(down', o, e)
    <3>1. /\ \A a, b : FirstOf(down, a, b) => FirstOf(down', a, b)
          /\ (\A i \in 1..Len(down) : ~Decides(down[i], id)) => FirstOf(down', id, d)
      <4>1. down' = Append(down, Approval!Decided(id, d))
        BY <1>1, <2>3
      <4>2. \A a, b : FirstOf(down, a, b) => FirstOf(Append(down, Approval!Decided(id, d)), a, b)
        BY <1>3, FirstOfMore
      <4>3. (\A i \in 1..Len(down) : ~Decides(down[i], id)) => FirstOf(Append(down, Approval!Decided(id, d)), id, d)
        BY <1>3, FirstOfMore
      <4> QED
        BY <4>1, <4>2, <4>3
    <3>2. CASE FirstOf(log, o, e)
      BY <1>2, <2>1, <2>3, <3>1, <3>2 DEF ParkedIsUndecided
    <3>3. CASE ~FirstOf(log, o, e)
      <4>1. o = id /\ e = d /\ \A i \in 1..Len(log) : ~Decides(log[i], id)
        BY <1>5, <2>3, <3>3
      <4>2. \A k \in 1..Len(down) : ~Decides(down[k], id)
        BY <4>1 DEF DownIsLogged
      <4> QED
        BY <3>1, <4>1, <4>2
    <3> QED
      BY <3>2, <3>3
  <2> QED
    BY <2>2, <2>3
<1> QED
  BY <1>12, <1>14, <1>15, <1>16, <1>17, <1>18, <1>19, <1>20

\* A decision reaches the worker from the other process.
LEMMA ResolveArrivesGoesOn ==
    ASSUME ApprovalInv, DecisionsApart, Approval!ResolveArrives
    PROVE  ApprovalInv'
<1> USE DEF ApprovalInv
<1> DEFINE id == Head(down).id
           d == Head(down).decision
<1>1. /\ down # <<>> /\ down' = Tail(down) /\ Approval!WorkerResolves(id, d)
      /\ UNCHANGED <<asker, auto, remote, linked, hosted, running, waiting, told, up, log>>
  BY DEF Approval!ResolveArrives, Approval!kind
<1>2. remote /\ linked
  BY <1>1 DEF DownIsLogged, ApprovalTypes
<1>3. log \in Seq(Entries) /\ down \in Seq(Decided) /\ down \in Seq(Entries)
  BY DEF ApprovalTypes, Entries
<1>4. Head(down) \in Decided /\ Head(down) = down[1] /\ 1 \in 1..Len(down)
  BY <1>1, <1>3
<1>5. id \in Ids /\ d \in Decisions /\ Head(down).event = "decided"
  BY <1>4, EntryKinds
<1>6. Decides(Head(down), id)
  BY <1>5 DEF Decides
<1> HIDE DEF id, d
<1>7. /\ pending' \subseteq pending /\ (hosted => id \notin pending')
      /\ \A o \in Ids : o # id => (o \in pending <=> o \in pending') /\ fut'[o] = fut[o]
      /\ fut' \in [Ids -> Decisions \cup {"none", "pending", "cancelled"}]
      /\ fut'[id] = fut[id] \/ (hosted /\ id \in pending /\ fut[id] = "pending" /\ fut'[id] = d)
      /\ hosted /\ id \in pending /\ fut[id] = "pending" => fut'[id] = d
      /\ ~hosted => pending' = pending
  BY <1>1, <1>5, WorkerObeys
<1>8. /\ down' \in Seq(Decided)
      /\ \A k \in 1..Len(down') : k + 1 \in 1..Len(down) /\ down'[k] = down[k + 1]
  BY <1>1, <1>3
<1>9. ApprovalTypes'
  BY <1>1, <1>7, <1>8 DEF ApprovalTypes
<1>10. \A o \in Ids : fut[o] # "none" => fut'[o] # "none"
  BY <1>5, <1>7 DEF DecisionsApart
<1>11. ParkedWhileHosted'
  <2>1. \A o \in Ids : hosted /\ fut'[o] = "pending" => o \in pending'
    BY <1>5, <1>7 DEF ParkedWhileHosted, DecisionsApart
  <2> QED
    BY <1>1, <1>7, <1>10, <2>1 DEF ParkedWhileHosted, ApprovalTypes
<1>12. LoggedWereRaised'
  <2>1. /\ \A i \in 1..Len(log) : log[i].id \in Ids
        /\ \A i \in 1..Len(up) : up[i].id \in Ids
    <3>1. /\ \A i \in 1..Len(log) : log[i] \in Entries
          /\ \A i \in 1..Len(up) : up[i] \in Requests
      BY DEF ApprovalTypes
    <3> QED
      BY <3>1, EntryKinds
  <2> QED
    BY <1>1, <1>10, <2>1 DEF LoggedWereRaised
<1>13. DownIsLogged'
  BY <1>1, <1>2, <1>8 DEF DownIsLogged
<1>14. \A o : Approval!DecisionsOn(o)' = Approval!DecisionsOn(o)
  BY <1>1 DEF Approval!DecisionsOn
<1>15. FirstExists'
  BY <1>1, <1>14 DEF FirstExists
<1>16. FutureIsFirst'
  <2> SUFFICES ASSUME NEW o \in Ids, fut'[o] \in Decisions
               PROVE  FirstOf(log, o, fut'[o])
    BY <1>1 DEF FutureIsFirst
  <2>1. CASE fut'[o] = fut[o]
    BY <2>1 DEF FutureIsFirst
  <2>2. CASE fut'[o] # fut[o]
    <3>1. o = id /\ hosted /\ id \in pending /\ fut'[id] = d
      BY <1>7, <2>2
    <3>2. Approval!DecisionsOn(id) # {}
      <4>1. PICK i \in 1..Len(log) : log[i] = down[1]
        BY <1>4 DEF DownIsLogged
      <4>2. Decides(log[i], id)
        BY <1>4, <1>6, <4>1
      <4> QED
        BY <1>3, <4>2, DecisionsAreDecides
    <3>3. PICK e \in Decisions : FirstOf(log, id, e)
      BY <1>5, <3>2 DEF FirstExists
    <3>4. FirstOf(down, id, e)
      BY <1>2, <3>1, <3>3 DEF ParkedIsUndecided
    <3>5. Head(down) = Approval!Decided(id, e)
      BY <1>1, <1>3, <1>6, <3>4, FirstIsOne
    <3>6. d = e
      BY <3>5 DEF d, Approval!Decided
    <3> QED
      BY <3>1, <3>3, <3>6
  <2> QED
    BY <2>1, <2>2
<1>17. ToldByFuture'
  <2> SUFFICES ASSUME NEW o \in Ids, told'[o] # "none", fut'[o] # "none"
               PROVE  /\ fut'[o] \in Decisions
                      /\ told'[o] = IF Approval!Allows(fut'[o]) THEN "run" ELSE "refuse"
    BY <1>1 DEF ToldByFuture, Approval!Allows
  <2>1. fut'[o] = fut[o]
    BY <1>1, <1>7 DEF ToldByFuture, DecisionsApart
  <2> QED
    BY <1>1, <2>1 DEF ToldByFuture, Approval!Allows
<1>18. ParkedIsUndecided'
  <2> SUFFICES ASSUME NEW o \in pending', NEW e \in Decisions, FirstOf(log, o, e)
               PROVE  FirstOf(down', o, e)
    BY <1>1, <1>2 DEF ParkedIsUndecided
  <2>1. o \in pending /\ o \in Ids /\ o # id
    BY <1>7 DEF ApprovalTypes, ParkedWhileHosted
  <2>2. FirstOf(down, o, e)
    BY <1>2, <2>1 DEF ParkedIsUndecided
  <2>3. ~Decides(Head(down), o)
    BY <2>1 DEF Decides, id
  <2> QED
    BY <1>1, <1>3, <2>2, <2>3, FirstOfTail
<1> QED
  BY <1>9, <1>11, <1>12, <1>13, <1>15, <1>16, <1>17, <1>18

LEMMA ApprovalGoesOn ==
    ASSUME ApprovalInv, DecisionsApart, [Approval!Next]_(Approval!vars)
    PROVE  ApprovalInv'
<1>1. ASSUME UNCHANGED Approval!vars PROVE ApprovalInv'
  <2>1. /\ LoggedWereRaised' /\ DownIsLogged' /\ FirstExists' /\ ParkedIsUndecided' /\ FutureIsFirst'
        /\ log' \in Seq(Entries) /\ up' \in Seq(Requests) /\ down' \in Seq(Decided)
    BY <1>1, NothingIsDecided DEF Approval!vars
  <2>2. ApprovalTypes' /\ ParkedWhileHosted' /\ ToldByFuture'
    BY <1>1, <2>1 DEF Approval!vars, ApprovalInv, ApprovalTypes, ParkedWhileHosted, ToldByFuture, Approval!Allows
  <2> QED
    BY <2>1, <2>2 DEF ApprovalInv
<1> QED
  BY <1>1, InterruptsGoOn, AsksLeaveGoesOn, ResumesGoesOn, ResolveApprovalGoesOn, EventArrivesGoesOn,
     ResolveArrivesGoesOn, CyclesGoOn DEF Approval!Next

LEMMA ApprovalsMean == ASSUME ApprovalInv, DecisionsApart PROVE Approval!LogDecides /\ Approval!NoDecisionIsLost
<1> USE DEF ApprovalInv
<1>1. Approval!LogDecides
  <2> SUFFICES ASSUME NEW id \in Ids, told[id] # "none", fut[id] # "none"
               PROVE  \E i \in Approval!DecisionsOn(id) :
                        /\ \A j \in Approval!DecisionsOn(id) : i <= j
                        /\ told[id] = IF Approval!Allows(log[i].decision) THEN "run" ELSE "refuse"
    BY DEF Approval!LogDecides
  <2>1. /\ FirstOf(log, id, fut[id])
        /\ told[id] = IF Approval!Allows(fut[id]) THEN "run" ELSE "refuse"
    BY DEF ToldByFuture, FutureIsFirst
  <2>2. PICK i \in 1..Len(log) :
          /\ log[i] = Approval!Decided(id, fut[id])
          /\ \A j \in 1..i - 1 : ~(log[j].event = "decided" /\ log[j].id = id)
    BY <2>1 DEF FirstOf
  <2>3. Approval!DecisionsOn(id) = {k \in 1..Len(log) : Decides(log[k], id)}
    BY DecisionsAreDecides DEF ApprovalTypes
  <2>4. log[i].event = "decided" /\ log[i].id = id /\ log[i].decision = fut[id]
    BY <2>2 DEF Approval!Decided
  <2>5. \A j \in Approval!DecisionsOn(id) : i <= j
    BY <2>2, <2>3 DEF Decides, ApprovalTypes
  <2> QED
    BY <2>1, <2>3, <2>4, <2>5 DEF Decides
<1>2. Approval!NoDecisionIsLost
  <2> SUFFICES ASSUME NEW id \in Ids, hosted, linked, fut[id] = "pending", Approval!DecisionsOn(id) # {}
               PROVE  \E e \in Approval!ToSet(down) : e.id = id
    BY DEF Approval!NoDecisionIsLost
  <2>1. id \in pending /\ remote
    BY DEF ParkedWhileHosted, ParkedIsUndecided, ApprovalTypes
  <2>2. PICK d \in Decisions : FirstOf(down, id, d)
    BY <2>1 DEF FirstExists, ParkedIsUndecided
  <2>3. PICK k \in 1..Len(down) : down[k] = Approval!Decided(id, d)
    BY <2>2 DEF FirstOf
  <2>4. down[k] \in Approval!ToSet(down) /\ down[k].id = id
    BY <2>3 DEF Approval!ToSet, Approval!Decided, ApprovalTypes
  <2> QED
    BY <2>4
<1> QED
  BY <1>1, <1>2

\* Who asks, and whether everything is approved, is settled for good.
AskerIsKnown == asker \in Askers /\ auto \in BOOLEAN

LEMMA AskerStarts == ASSUME Approval!Init PROVE AskerIsKnown
BY DEF Approval!Init, AskerIsKnown

LEMMA AskerStays == ASSUME AskerIsKnown, [Approval!Next]_(Approval!vars) PROVE AskerIsKnown'
<1>1. asker' = asker /\ auto' = auto
  BY DEF Approval!Next, Approval!vars, Approval!kind, Approval!Interrupts, Approval!AsksLeave, Approval!Resumes,
         Approval!ResolveApproval, Approval!EventArrives, Approval!ResolveArrives, Approval!CycleBegins,
         Approval!CycleEnds, Approval!Cancelled, Approval!TornDown, Approval!Disconnects
<1> QED
  BY <1>1 DEF AskerIsKnown

LEMMA ApprovalTyped == ASSUME ApprovalInv, AskerIsKnown PROVE Approval!TypeOK
BY DEF ApprovalInv, ApprovalTypes, AskerIsKnown, Approval!TypeOK

\* A tool runs or is refused by the first decision on its interrupt in the log,
\* however many deciders compete and whichever process they decide in, and
\* nobody waits for a decision that was logged, unless it is on its way to the
\* worker or its connection is gone.
THEOREM FirstDecisionAlwaysRules ==
    ASSUME DecisionsApart
    PROVE  Approval!Spec => [](Approval!LogDecides /\ Approval!NoDecisionIsLost)
<1>1. DecisionsApart
  OBVIOUS
<1>2. Approval!Init => ApprovalInv
  BY <1>1, ApprovalStarts
<1>3. ApprovalInv /\ [Approval!Next]_(Approval!vars) => ApprovalInv'
  BY <1>1, ApprovalGoesOn
<1>4. ApprovalInv => Approval!LogDecides /\ Approval!NoDecisionIsLost
  BY <1>1, ApprovalsMean
<1> QED
  BY <1>2, <1>3, <1>4, PTL DEF Approval!Spec

----------------------------------------------------------------------------
(* The thread of an external agent.  A message is in one place at a time,  *)
(* and nowhere before it was handed in; what of the agent runs is told by  *)
(* where execute and teardown stand.                                       *)

\* The feedback of a cycle is no message.
FeedbackIsNoMessage == 0 \notin Messages

Letters == [text : Messages \cup {0}, of : Nat]

BackedTypes ==
    /\ round \in Nat /\ held \in BOOLEAN /\ buffer \in Seq(Letters)
    /\ notified \subseteq Messages /\ steering \subseteq notified /\ given \in [Messages -> Nat]

UnheardOfIsNowhere == \A m \in Messages \ notified : Backed!Buffered(m) = {} /\ given[m] = 0

\* What of the agent and of its tool server runs when.
AgentRuns ==
    backend = "codex" =>
        /\ pc \in {"tooled", "spawned", "closing", "closed", "torn", "connect"} => ~held
        /\ pc \in {"attempt", "send", "stream", "check"} => held
        /\ pc \in {"idle", "connect", "tooled", "spawned", "attempt", "send", "stream", "check", "closing", "closed",
                  "torn"}
        /\ procs = IF pc \in {"spawned", "closing"} \/ held THEN 1 ELSE 0
        /\ tools = IF pc \in {"tooled", "spawned", "closing", "closed"} \/ held THEN 1 ELSE 0

Leaving == {"closing", "closed", "torn"}
InOnePlace ==
    pc \notin Leaving =>
        \A m \in notified : Cardinality(Backed!Buffered(m)) + given[m] + Cardinality({m} \cap steering) = 1

BackedInv == BackedTypes /\ UnheardOfIsNowhere /\ AgentRuns /\ InOnePlace

LEMMA BackedCardinality == ASSUME NEW S PROVE Backed!Cardinality(S) = Cardinality(S)
BY DEF Backed!Cardinality, Cardinality

LEMMA BufferedAreFinite ==
    ASSUME buffer \in Seq(Letters), NEW m
    PROVE  /\ IsFiniteSet(Backed!Buffered(m)) /\ Cardinality(Backed!Buffered(m)) \in Nat
           /\ Backed!Buffered(m) = {} <=> Cardinality(Backed!Buffered(m)) = 0
<1>1. Backed!Buffered(m) \subseteq 1..Len(buffer)
  BY DEF Backed!Buffered
<1>2. IsFiniteSet(1..Len(buffer))
  BY FS_Interval
<1>3. IsFiniteSet(Backed!Buffered(m))
  BY <1>1, <1>2, FS_Subset
<1> QED
  BY <1>3, FS_CardinalityType, FS_EmptySet

\* One letter more in the buffer counts for the message it is.
LEMMA BufferGrows ==
    ASSUME buffer \in Seq(Letters), NEW letter \in Letters, buffer' = Append(buffer, letter), NEW m
    PROVE  /\ buffer' \in Seq(Letters)
           /\ letter.text # m => Backed!Buffered(m)' = Backed!Buffered(m)
           /\ letter.text = m => Cardinality(Backed!Buffered(m)') = Cardinality(Backed!Buffered(m)) + 1
<1>1. /\ buffer' \in Seq(Letters) /\ Len(buffer') = Len(buffer) + 1 /\ buffer'[Len(buffer) + 1] = letter
      /\ \A i \in 1..Len(buffer) : buffer'[i] = buffer[i]
  OBVIOUS
<1>2. /\ Backed!Buffered(m) = {i \in 1..Len(buffer) : buffer[i].text = m}
      /\ Backed!Buffered(m)' = {i \in 1..Len(buffer') : buffer'[i].text = m}
  BY DEF Backed!Buffered
<1>3. Len(buffer) \in Nat
  OBVIOUS
<1>4. ASSUME letter.text # m PROVE Backed!Buffered(m)' = Backed!Buffered(m)
  BY <1>1, <1>2, <1>3, <1>4
<1>5. ASSUME letter.text = m PROVE Cardinality(Backed!Buffered(m)') = Cardinality(Backed!Buffered(m)) + 1
  <2>1. Backed!Buffered(m)' = Backed!Buffered(m) \cup {Len(buffer) + 1} /\ Len(buffer) + 1 \notin Backed!Buffered(m)
    BY <1>1, <1>2, <1>3, <1>5
  <2> QED
    BY <2>1, BufferedAreFinite, FS_AddElement
<1> QED
  BY <1>1, <1>4, <1>5

\* A message is steered once or not at all.
LEMMA SteeredOnce ==
    ASSUME NEW m, NEW S
    PROVE  /\ m \in S => Cardinality({m} \cap S) = 1
           /\ m \notin S => Cardinality({m} \cap S) = 0
<1>1. ASSUME m \in S PROVE Cardinality({m} \cap S) = 1
  <2>1. {m} \cap S = {m}
    BY <1>1
  <2> QED
    BY <2>1, FS_Singleton
<1>2. ASSUME m \notin S PROVE Cardinality({m} \cap S) = 0
  <2>1. {m} \cap S = {}
    BY <1>2
  <2> QED
    BY <2>1, FS_EmptySet
<1> QED
  BY <1>1, <1>2

LEMMA BackedStarts == ASSUME Backed!Init PROVE BackedInv
<1> USE DEF Backed!Init
<1>1. BackedTypes
  <2>1. buffer \in Seq(Letters)
    OBVIOUS
  <2> QED
    BY <2>1 DEF BackedTypes
<1>2. UnheardOfIsNowhere
  BY DEF UnheardOfIsNowhere, Backed!Buffered
<1>3. AgentRuns
  BY DEF AgentRuns
<1>4. InOnePlace
  BY DEF InOnePlace
<1> QED
  BY <1>1, <1>2, <1>3, <1>4 DEF BackedInv

\* What execute and teardown do to the agent's process and its tool server.
LEMMA AgentGoesOn ==
    ASSUME BackedInv, [Backed!Next]_(Backed!vars)
    PROVE  AgentRuns'
<1> USE DEF BackedInv, BackedTypes, AgentRuns, Backed!connVars, Backed!mailVars
<1>1. CASE Backed!Execute
  BY <1>1 DEF Backed!Execute
<1>2. CASE Backed!Cancel
  BY <1>2 DEF Backed!Cancel
<1>3. CASE Backed!Connect
  BY <1>3 DEF Backed!Connect
<1>4. CASE Backed!ConnectFails
  BY <1>4 DEF Backed!ConnectFails
<1>5. CASE Backed!Attempt
  BY <1>5 DEF Backed!Attempt
<1>6. CASE Backed!Send
  BY <1>6 DEF Backed!Send
<1>7. CASE Backed!Interrupt
  BY <1>7 DEF Backed!Interrupt
<1>8. CASE Backed!StreamEnds
  BY <1>8 DEF Backed!StreamEnds
<1>9. CASE Backed!Abort
  BY <1>9 DEF Backed!Abort
<1>10. CASE Backed!Teardown
  BY <1>10 DEF Backed!Teardown
<1>11. ASSUME NEW how \in {"done", "failed"}, Backed!TurnEnds(how) PROVE AgentRuns'
  BY <1>11 DEF Backed!TurnEnds
<1>12. ASSUME NEW passed \in BOOLEAN, Backed!Check(passed) PROVE AgentRuns'
  BY <1>12 DEF Backed!Check
<1>13. ASSUME NEW m \in Messages, Backed!Notify(m) \/ Backed!Steer(m) PROVE AgentRuns'
  BY <1>13 DEF Backed!Notify, Backed!Steer
<1>14. CASE UNCHANGED Backed!vars
  BY <1>14 DEF Backed!vars
<1> QED
  BY <1>1, <1>2, <1>3, <1>4, <1>5, <1>6, <1>7, <1>8, <1>9, <1>10, <1>11, <1>12, <1>13, <1>14 DEF Backed!Next

MailInv == BackedTypes /\ UnheardOfIsNowhere /\ InOnePlace

\* A step that moves no message.
LEMMA MailStays ==
    ASSUME MailInv, UNCHANGED Backed!mailVars, round' \in Nat, held' \in BOOLEAN,
           pc \in Leaving => pc' \in Leaving
    PROVE  MailInv'
<1>1. UNCHANGED <<buffer, steering, notified, given>>
  BY DEF Backed!mailVars
<1>2. \A m : Backed!Buffered(m)' = Backed!Buffered(m)
  BY <1>1 DEF Backed!Buffered
<1>3. BackedTypes'
  BY <1>1 DEF MailInv, BackedTypes
<1>4. UnheardOfIsNowhere'
  BY <1>1, <1>2 DEF MailInv, UnheardOfIsNowhere
<1>5. InOnePlace'
  BY <1>1, <1>2 DEF MailInv, InOnePlace, Leaving
<1> QED
  BY <1>3, <1>4, <1>5 DEF MailInv

\* An attempt moves what is buffered into its turn.
LEMMA AttemptDrains ==
    ASSUME MailInv, Backed!Attempt
    PROVE  MailInv'
<1>1. /\ pc = "attempt" /\ pc' = "send" /\ buffer' = <<>>
      /\ given' = [m \in Messages |-> given[m] + Cardinality(Backed!Buffered(m))]
      /\ UNCHANGED <<held, round, steering, notified>>
  BY BackedCardinality DEF Backed!Attempt, Backed!Drained, Backed!connVars
<1>2. \A m : Backed!Buffered(m)' = {}
  BY <1>1 DEF Backed!Buffered
<1>3. \A m : Cardinality(Backed!Buffered(m)) \in Nat /\ (Backed!Buffered(m) = {} <=> Cardinality(Backed!Buffered(m)) = 0)
  BY BufferedAreFinite DEF MailInv, BackedTypes
<1>4. BackedTypes'
  BY <1>1, <1>3 DEF MailInv, BackedTypes
<1>5. UnheardOfIsNowhere'
  BY <1>1, <1>2, <1>3 DEF MailInv, UnheardOfIsNowhere, BackedTypes
<1>6. InOnePlace'
  <2> SUFFICES ASSUME NEW m \in notified
               PROVE  Cardinality(Backed!Buffered(m)') + given'[m] + Cardinality({m} \cap steering) = 1
    BY <1>1 DEF InOnePlace, Leaving
  <2>1. Cardinality(Backed!Buffered(m)) + given[m] + Cardinality({m} \cap steering) = 1
    BY <1>1 DEF MailInv, InOnePlace, Leaving
  <2>2. m \in Messages /\ given'[m] = given[m] + Cardinality(Backed!Buffered(m)) /\ given[m] \in Nat
    BY <1>1 DEF MailInv, BackedTypes
  <2>3. Cardinality(Backed!Buffered(m)') = 0
    BY <1>2, FS_EmptySet
  <2>4. Cardinality({m} \cap steering) \in {0, 1}
    BY SteeredOnce
  <2> QED
    BY <1>3, <2>1, <2>2, <2>3, <2>4
<1> QED
  BY <1>4, <1>5, <1>6 DEF MailInv

\* Feedback is buffered, which is no message.
LEMMA CheckMovesNone ==
    ASSUME MailInv, FeedbackIsNoMessage, NEW passed \in BOOLEAN, Backed!Check(passed)
    PROVE  MailInv'
<1>1. /\ pc = "check" /\ pc' \in {"idle", "attempt"}
      /\ buffer' = IF passed THEN buffer ELSE Append(buffer, Backed!Feedback)
      /\ UNCHANGED <<held, round, steering, notified, given>>
  BY DEF Backed!Check, Backed!connVars
<1>2. Backed!Feedback \in Letters /\ Backed!Feedback.text = 0
  BY DEF Backed!Feedback, Letters, MailInv, BackedTypes
<1>3. buffer' \in Seq(Letters) /\ \A m \in Messages : Backed!Buffered(m)' = Backed!Buffered(m)
  <2>1. CASE passed
    BY <1>1, <2>1 DEF Backed!Buffered, MailInv, BackedTypes
  <2>2. CASE ~passed
    <3>1. buffer' = Append(buffer, Backed!Feedback) /\ buffer \in Seq(Letters)
      BY <1>1, <2>2 DEF MailInv, BackedTypes
    <3>2. \A m \in Messages : Backed!Feedback.text # m
      BY <1>2 DEF FeedbackIsNoMessage
    <3>3. buffer' \in Seq(Letters)
      BY <1>2, <3>1
    <3> QED
      BY <1>2, <3>1, <3>2, <3>3, BufferGrows
  <2> QED
    BY <2>1, <2>2
<1>4. BackedTypes'
  BY <1>1, <1>3 DEF MailInv, BackedTypes
<1>5. UnheardOfIsNowhere'
  BY <1>1, <1>3 DEF MailInv, UnheardOfIsNowhere
<1>6. InOnePlace'
  BY <1>1, <1>3 DEF MailInv, InOnePlace, BackedTypes, Leaving
<1> QED
  BY <1>4, <1>5, <1>6 DEF MailInv

\* A message is handed in: a steer, or a letter in the buffer.
LEMMA NotifyHandsIn ==
    ASSUME MailInv, FeedbackIsNoMessage, NEW n \in Messages, Backed!Notify(n)
    PROVE  MailInv'
<1>1. /\ n \notin notified /\ notified' = notified \cup {n}
      /\ \/ steering' = steering \cup {n} /\ UNCHANGED buffer
         \/ buffer' = Append(buffer, Backed!Message(n)) /\ UNCHANGED steering
      /\ UNCHANGED <<held, round, pc, given>>
  BY DEF Backed!Notify, Backed!connVars
<1>2. Backed!Message(n) \in Letters /\ Backed!Message(n).text = n
  BY DEF Backed!Message, Letters
<1>3. buffer \in Seq(Letters) /\ steering \subseteq notified
  BY DEF MailInv, BackedTypes
<1>4. Cardinality(Backed!Buffered(n)) = 0 /\ given[n] = 0
  BY <1>1, FS_EmptySet DEF MailInv, UnheardOfIsNowhere
<1>5. /\ buffer' \in Seq(Letters)
      /\ \A m : m # n => Backed!Buffered(m)' = Backed!Buffered(m)
      /\ Cardinality(Backed!Buffered(n)') + Cardinality({n} \cap steering') = 1
      /\ Cardinality(Backed!Buffered(n)') \in {0, 1} /\ Cardinality({n} \cap steering') \in {0, 1}
  <2>1. CASE steering' = steering \cup {n} /\ UNCHANGED buffer
    <3>1. \A m : Backed!Buffered(m)' = Backed!Buffered(m)
      BY <2>1 DEF Backed!Buffered
    <3>2. Cardinality({n} \cap steering') = 1
      BY <2>1, SteeredOnce
    <3> QED
      BY <1>3, <1>4, <2>1, <3>1, <3>2
  <2>2. CASE buffer' = Append(buffer, Backed!Message(n)) /\ UNCHANGED steering
    <3>1. Cardinality({n} \cap steering') = 0
      BY <1>1, <1>3, <2>2, SteeredOnce
    <3>2. /\ buffer' \in Seq(Letters)
          /\ \A m : m # n => Backed!Buffered(m)' = Backed!Buffered(m)
          /\ Cardinality(Backed!Buffered(n)') = Cardinality(Backed!Buffered(n)) + 1
      BY <1>2, <1>3, <2>2, BufferGrows
    <3> QED
      BY <1>4, <3>1, <3>2
  <2> QED
    BY <1>1, <2>1, <2>2
<1>6. BackedTypes'
  BY <1>1, <1>3, <1>5 DEF MailInv, BackedTypes
<1>7. UnheardOfIsNowhere'
  BY <1>1, <1>5 DEF MailInv, UnheardOfIsNowhere
<1>8. InOnePlace'
  <2> SUFFICES ASSUME pc \notin Leaving, NEW m \in notified'
               PROVE  Cardinality(Backed!Buffered(m)') + given'[m] + Cardinality({m} \cap steering') = 1
    BY <1>1 DEF InOnePlace, Leaving
  <2>1. CASE m = n
    BY <1>1, <1>4, <1>5, <2>1
  <2>2. CASE m # n
    <3>1. m \in notified /\ {m} \cap steering' = {m} \cap steering
      BY <1>1, <2>2
    <3>2. Cardinality(Backed!Buffered(m)) + given[m] + Cardinality({m} \cap steering) = 1
      BY <3>1 DEF MailInv, InOnePlace, Leaving
    <3> QED
      BY <1>1, <1>5, <2>2, <3>1, <3>2
  <2> QED
    BY <2>1, <2>2
<1> QED
  BY <1>6, <1>7, <1>8 DEF MailInv

\* A steer arrives in the turn, or is buffered after all.
LEMMA SteerMoves ==
    ASSUME MailInv, FeedbackIsNoMessage, NEW n \in Messages, Backed!Steer(n)
    PROVE  MailInv'
<1>1. /\ n \in steering /\ steering' = steering \ {n}
      /\ \/ given' = [given EXCEPT ![n] = @ + 1] /\ UNCHANGED buffer
         \/ buffer' = Append(buffer, Backed!Message(n)) /\ UNCHANGED given
      /\ UNCHANGED <<held, round, pc, notified>>
  BY DEF Backed!Steer, Backed!connVars
<1>2. Backed!Message(n) \in Letters /\ Backed!Message(n).text = n
  BY DEF Backed!Message, Letters
<1>3. buffer \in Seq(Letters) /\ steering \subseteq notified /\ notified \subseteq Messages /\ given \in [Messages -> Nat]
  BY DEF MailInv, BackedTypes
<1>4. Cardinality(Backed!Buffered(n)) \in Nat
  BY <1>3, BufferedAreFinite
<1>5. /\ buffer' \in Seq(Letters) /\ given' \in [Messages -> Nat]
      /\ \A m \in Messages : m # n => Backed!Buffered(m)' = Backed!Buffered(m) /\ given'[m] = given[m]
      /\ Cardinality(Backed!Buffered(n)') \in Nat
      /\ Cardinality(Backed!Buffered(n)') + given'[n] = Cardinality(Backed!Buffered(n)) + given[n] + 1
  <2>1. CASE given' = [given EXCEPT ![n] = @ + 1] /\ UNCHANGED buffer
    <3>1. \A m : Backed!Buffered(m)' = Backed!Buffered(m)
      BY <2>1 DEF Backed!Buffered
    <3> QED
      BY <1>3, <1>4, <2>1, <3>1
  <2>2. CASE buffer' = Append(buffer, Backed!Message(n)) /\ UNCHANGED given
    <3>1. /\ buffer' \in Seq(Letters)
          /\ \A m : m # n => Backed!Buffered(m)' = Backed!Buffered(m)
          /\ Cardinality(Backed!Buffered(n)') = Cardinality(Backed!Buffered(n)) + 1
      BY <1>2, <1>3, <2>2, BufferGrows
    <3> QED
      BY <1>3, <1>4, <2>2, <3>1
  <2> QED
    BY <1>1, <2>1, <2>2
<1>6. BackedTypes'
  BY <1>1, <1>3, <1>5 DEF MailInv, BackedTypes
<1>7. UnheardOfIsNowhere'
  <2>1. n \in notified
    BY <1>1, <1>3
  <2> QED
    BY <1>1, <1>5, <2>1 DEF MailInv, UnheardOfIsNowhere
<1>8. InOnePlace'
  <2> SUFFICES ASSUME pc \notin Leaving, NEW m \in notified
               PROVE  Cardinality(Backed!Buffered(m)') + given'[m] + Cardinality({m} \cap steering') = 1
    BY <1>1 DEF InOnePlace, Leaving
  <2>1. Cardinality(Backed!Buffered(m)) + given[m] + Cardinality({m} \cap steering) = 1
    BY DEF MailInv, InOnePlace, Leaving
  <2>2. CASE m = n
    <3>1. Cardinality({n} \cap steering) = 1 /\ Cardinality({n} \cap steering') = 0
      BY <1>1, SteeredOnce
    <3>2. given[n] \in Nat /\ given'[n] \in Nat
      BY <1>3, <1>5
    <3> QED
      BY <1>4, <1>5, <2>1, <2>2, <3>1, <3>2
  <2>3. CASE m # n
    <3>1. {m} \cap steering' = {m} \cap steering /\ m \in Messages
      BY <1>1, <1>3, <2>3
    <3> QED
      BY <1>5, <2>1, <2>3, <3>1
  <2> QED
    BY <2>2, <2>3
<1> QED
  BY <1>6, <1>7, <1>8 DEF MailInv

\* Teardown throws away what is in no turn.
LEMMA TeardownLeaves ==
    ASSUME MailInv, Backed!Teardown
    PROVE  MailInv'
<1>1. CASE UNCHANGED Backed!mailVars
  BY <1>1, MailStays DEF Backed!Teardown, MailInv, BackedTypes, Leaving
<1>2. CASE ~UNCHANGED Backed!mailVars
  <2>1. /\ pc' \in Leaving /\ steering' = {} /\ buffer' = <<>> /\ held' = FALSE
        /\ UNCHANGED <<notified, given, round>>
    BY <1>2 DEF Backed!Teardown, Backed!mailVars, Leaving
  <2>2. \A m : Backed!Buffered(m)' = {}
    BY <2>1 DEF Backed!Buffered
  <2>3. <<>> \in Seq(Letters)
    OBVIOUS
  <2>4. BackedTypes'
    BY <2>1, <2>3 DEF MailInv, BackedTypes
  <2>5. UnheardOfIsNowhere'
    BY <2>1, <2>2 DEF MailInv, UnheardOfIsNowhere
  <2>6. InOnePlace'
    BY <2>1 DEF InOnePlace
  <2> QED
    BY <2>4, <2>5, <2>6 DEF MailInv
<1> QED
  BY <1>1, <1>2

LEMMA MailGoesOn ==
    ASSUME MailInv, FeedbackIsNoMessage, [Backed!Next]_(Backed!vars)
    PROVE  MailInv'
<1> DEFINE quiet == \/ Backed!Execute \/ Backed!Cancel \/ Backed!Connect \/ Backed!ConnectFails \/ Backed!Send
                    \/ Backed!Interrupt \/ Backed!StreamEnds \/ Backed!Abort
                    \/ UNCHANGED Backed!vars \/ \E how \in {"done", "failed"} : Backed!TurnEnds(how)
<1>1. CASE quiet
  <2>1. UNCHANGED Backed!mailVars
    BY <1>1 DEF Backed!Execute, Backed!Cancel, Backed!Connect, Backed!ConnectFails, Backed!Send, Backed!Interrupt,
                Backed!StreamEnds, Backed!Abort, Backed!vars, Backed!TurnEnds, Backed!mailVars
  <2>2. round' \in Nat /\ held' \in BOOLEAN
    <3> USE DEF Backed!connVars, MailInv, BackedTypes
    <3>1. CASE Backed!Execute
      BY <3>1 DEF Backed!Execute
    <3>2. CASE Backed!Connect
      BY <3>2 DEF Backed!Connect
    <3>3. CASE ~(Backed!Execute \/ Backed!Connect)
      <4>1. UNCHANGED <<held, round>>
        BY <1>1, <3>3 DEF Backed!Cancel, Backed!ConnectFails, Backed!Send, Backed!Interrupt, Backed!StreamEnds,
                          Backed!Abort, Backed!vars, Backed!TurnEnds
      <4> QED
        BY <4>1
    <3> QED
      BY <3>1, <3>2, <3>3
  <2>3. pc \in Leaving => pc' \in Leaving
    BY <1>1 DEF Backed!Execute, Backed!Cancel, Backed!Connect, Backed!ConnectFails, Backed!Send, Backed!Interrupt,
                Backed!StreamEnds, Backed!Abort, Backed!vars, Backed!TurnEnds, Backed!InCycle, Leaving
  <2> QED
    BY <2>1, <2>2, <2>3, MailStays
<1>2. ASSUME NEW passed \in BOOLEAN, Backed!Check(passed) PROVE MailInv'
  BY <1>2, CheckMovesNone
<1>3. ASSUME NEW m \in Messages, Backed!Notify(m) \/ Backed!Steer(m) PROVE MailInv'
  BY <1>3, NotifyHandsIn, SteerMoves
<1> QED
  BY <1>1, <1>2, <1>3, AttemptDrains, TeardownLeaves DEF Backed!Next

LEMMA BackedGoesOn ==
    ASSUME FeedbackIsNoMessage, BackedInv, [Backed!Next]_(Backed!vars)
    PROVE  BackedInv'
BY AgentGoesOn, MailGoesOn DEF BackedInv, MailInv

LEMMA BackedMeans == ASSUME BackedInv PROVE Backed!NotifiedOnce /\ Backed!EndpointOutlivesAgent
<1>1. Backed!EndpointOutlivesAgent
  BY DEF BackedInv, BackedTypes, AgentRuns, Backed!EndpointOutlivesAgent
<1>2. Backed!NotifiedOnce
  BY BackedCardinality DEF BackedInv, InOnePlace, Leaving, Backed!NotifiedOnce
<1> QED
  BY <1>1, <1>2

\* Where a cycle stands, and the counts it keeps.
BackedBounds == MaxAttempts \in Nat \ {0} /\ CycleBound \in Nat

BackedPlaces ==
    /\ pc \in {"idle", "connect", "tooled", "spawned", "attempt", "send", "stream", "check", "closing", "closed",
              "torn"}
    /\ attempt \in 0 .. Backed!Attempts /\ round \in 0 .. CycleBound
    /\ turn \in {"none", "running", "done", "failed", "interrupted"} /\ watcher \in BOOLEAN

LEMMA PlacesStart == ASSUME BackedBounds, Backed!Init PROVE BackedPlaces
<1>1. Backed!Attempts \in Nat /\ CycleBound \in Nat
  BY DEF Backed!Attempts, BackedBounds
<1>2. pc = "idle" /\ round = 0 /\ attempt = 0 /\ turn = "none" /\ watcher \in BOOLEAN
  BY DEF Backed!Init
<1> QED
  BY <1>1, <1>2 DEF BackedPlaces

LEMMA PlacesGoOn == ASSUME BackedBounds, BackedPlaces, [Backed!Next]_(Backed!vars) PROVE BackedPlaces'
<1>0. Backed!Attempts \in Nat /\ Backed!Attempts >= 1 /\ Backed!Attempts' = Backed!Attempts /\ CycleBound \in Nat
  BY DEF Backed!Attempts, BackedBounds
<1>1. CASE Backed!Execute
  BY <1>0, <1>1 DEF Backed!Execute, Backed!connVars, BackedPlaces
<1>2. CASE Backed!Cancel \/ Backed!Interrupt \/ \E how \in {"done", "failed"} : Backed!TurnEnds(how)
  BY <1>0, <1>2 DEF Backed!Cancel, Backed!Interrupt, Backed!TurnEnds, BackedPlaces
<1>3. CASE Backed!Connect \/ Backed!ConnectFails
  BY <1>0, <1>3 DEF Backed!Connect, Backed!ConnectFails, BackedPlaces
<1>4. CASE Backed!Attempt \/ Backed!Send \/ Backed!StreamEnds \/ Backed!Abort
  BY <1>0, <1>4 DEF Backed!Attempt, Backed!Send, Backed!StreamEnds, Backed!Abort, BackedPlaces
<1>5. ASSUME NEW passed \in BOOLEAN, Backed!Check(passed) PROVE BackedPlaces'
  <2>1. CASE passed \/ attempt = Backed!Attempts
    BY <1>0, <1>5, <2>1 DEF Backed!Check, BackedPlaces
  <2>2. CASE ~(passed \/ attempt = Backed!Attempts)
    BY <1>0, <1>5, <2>2 DEF Backed!Check, BackedPlaces
  <2> QED
    BY <2>1, <2>2
<1>6. ASSUME NEW m \in Messages, Backed!Notify(m) \/ Backed!Steer(m) PROVE BackedPlaces'
  BY <1>0, <1>6 DEF Backed!Notify, Backed!Steer, BackedPlaces
<1>7. CASE Backed!Teardown
  BY <1>0, <1>7 DEF Backed!Teardown, BackedPlaces
<1>8. CASE UNCHANGED Backed!vars
  BY <1>0, <1>8 DEF Backed!vars, BackedPlaces
<1> QED
  BY <1>1, <1>2, <1>3, <1>4, <1>5, <1>6, <1>7, <1>8 DEF Backed!Next

LEMMA BackedTyped == ASSUME BackedInv, BackedPlaces PROVE Backed!TypeOK
BY DEF BackedInv, BackedTypes, BackedPlaces, Backed!TypeOK

\* A message handed to a thread of an external agent is given to one of the
\* agent's turns once, whether it was steered, buffered, or both, and waits in
\* one place until then; no Codex process outlasts the tools it was started
\* with, and a thread that failed to connect holds neither.
THEOREM NotifiedIsAlwaysOnce ==
    ASSUME FeedbackIsNoMessage
    PROVE  Backed!Spec => [](Backed!NotifiedOnce /\ Backed!EndpointOutlivesAgent)
<1>1. FeedbackIsNoMessage
  OBVIOUS
<1>2. Backed!Init => BackedInv
  BY BackedStarts
<1>3. BackedInv /\ [Backed!Next]_(Backed!vars) => BackedInv'
  BY <1>1, BackedGoesOn
<1>4. BackedInv => Backed!NotifiedOnce /\ Backed!EndpointOutlivesAgent
  BY BackedMeans
<1> QED
  BY <1>2, <1>3, <1>4, PTL DEF Backed!Spec

----------------------------------------------------------------------------
(* The events a client is forwarded.  Of the watched thread, the frames on *)
(* the wire carry the events after b up to c and the forwards that have    *)
(* not run those after c, each in order and without a gap; b is what the   *)
(* screen was told last.                                                   *)

\* The hypothesis: the screen watches one of the threads.
FeedOfAThread == Watched \in Threads /\ EventBound \in Nat

AnEvent == [thread : Threads, at : 1 .. EventBound]

\* The number of an event of the watched thread; of anything else, 0.
Mark(e) == IF e.thread = Watched THEN e.at ELSE 0
Marks(s) == [i \in 1 .. Len(s) |-> Mark(s[i])]
FrameMark(f) == IF f.kind = "event" THEN Mark(f.events[1]) ELSE 0
FrameMarks(s) == [i \in 1 .. Len(s) |-> FrameMark(s[i])]

\* The marks of s are the numbers after b up to c, in their order.
Carries(s, b, c) ==
    /\ \A i \in 1 .. Len(s) : s[i] # 0 => s[i] \in b + 1 .. c
    /\ \A k \in b + 1 .. c : \E i \in 1 .. Len(s) : s[i] = k
    /\ \A i, j \in 1 .. Len(s) : i < j /\ s[i] # 0 /\ s[j] # 0 => s[i] < s[j]

Replay(m) == [i \in 1 .. m |-> Feed!Event(Watched, i)]

AFrame == {Feed!EventFrame(e) : e \in AnEvent} \cup {Feed!ResultFrame(s) : s \in Seq(AnEvent)}

IsResult(i) == frames[i].kind = "result"

FeedTypes ==
    /\ logged \in [Threads -> 0 .. EventBound] /\ forwarding \in BOOLEAN
    /\ tasks \in Seq(AnEvent) /\ frames \in Seq(AFrame)
    /\ DOMAIN open = {"endpoint", "client"}
    /\ screen \in {"new", "asking", "answered", "watching", "gone"}
    /\ asked \in BOOLEAN /\ listening \in BOOLEAN
    /\ shown \in Seq(AnEvent) /\ replayed \in 0 .. Len(shown)

\* One answer at most is awaited, and it is the log up to some event.
OneAnswer ==
    /\ \A i \in 1 .. Len(frames) : IsResult(i) =>
           /\ ~asked /\ \A j \in 1 .. Len(frames) : IsResult(j) => i = j
           /\ \E m \in 0 .. logged[Watched] : frames[i].events = Replay(m)
    /\ (asked \/ \E i \in 1 .. Len(frames) : IsResult(i)) =>
           screen = "asking" \/ (screen = "gone" /\ ~open["client"])
    /\ screen \in {"new", "asking", "answered"} => ~listening /\ Len(shown) = replayed
    /\ listening => screen = "watching"

Flow(b, c) ==
    /\ b <= c /\ c <= logged[Watched]
    /\ Carries(FrameMarks(frames), b, c)
    /\ open["endpoint"] => forwarding /\ Carries(Marks(tasks), c, logged[Watched])
    /\ listening /\ Len(shown) > replayed => shown[Len(shown)].at = b

FeedInv ==
    /\ FeedTypes /\ OneAnswer /\ Feed!FeedHasNoGap
    /\ \E b, c \in Nat : Flow(b, c)

LEMMA CarriesNothing == \A b \in Nat : Carries(<<>>, b, b)
BY DEF Carries

\* t is s with k after it.
Longer(s, t, k) ==
    /\ Len(s) \in Nat /\ Len(t) = Len(s) + 1 /\ t[Len(s) + 1] = k
    /\ \A i \in 1 .. Len(s) : s[i] \in Nat /\ t[i] = s[i]

LEMMA CarriesOther ==
    ASSUME NEW s, NEW t, Longer(s, t, 0), NEW b \in Nat, NEW c \in Nat, Carries(s, b, c)
    PROVE  Carries(t, b, c)
<1>1. \A i \in 1 .. Len(t) : i \in 1 .. Len(s) \/ i = Len(s) + 1
  BY DEF Longer
<1>2. \A k \in b + 1 .. c : \E i \in 1 .. Len(t) : t[i] = k
  <2> TAKE k \in b + 1 .. c
  <2>1. PICK i \in 1 .. Len(s) : s[i] = k
    BY DEF Carries
  <2> QED
    BY <2>1 DEF Longer
<1>3. \A i \in 1 .. Len(t) : t[i] # 0 => t[i] \in b + 1 .. c
  BY <1>1 DEF Longer, Carries
<1>4. \A i, j \in 1 .. Len(t) : i < j /\ t[i] # 0 /\ t[j] # 0 => t[i] < t[j]
  <2> SUFFICES ASSUME NEW i \in 1 .. Len(t), NEW j \in 1 .. Len(t), i < j, t[i] # 0, t[j] # 0
               PROVE  t[i] < t[j]
    OBVIOUS
  <2> QED
    BY <1>1 DEF Longer, Carries
<1> QED
  BY <1>2, <1>3, <1>4 DEF Carries

LEMMA CarriesNext ==
    ASSUME NEW s, NEW t, NEW b \in Nat, NEW c \in Nat, Longer(s, t, c + 1), b <= c, Carries(s, b, c)
    PROVE  Carries(t, b, c + 1)
<1>1. \A i \in 1 .. Len(t) : i \in 1 .. Len(s) \/ i = Len(s) + 1
  BY DEF Longer
<1>2. \A k \in b + 1 .. c + 1 : \E i \in 1 .. Len(t) : t[i] = k
  <2> TAKE k \in b + 1 .. c + 1
  <2>1. CASE k = c + 1
    BY <2>1 DEF Longer
  <2>2. CASE k # c + 1
    <3>1. PICK i \in 1 .. Len(s) : s[i] = k
      BY <2>2 DEF Carries
    <3> QED
      BY <3>1 DEF Longer
  <2> QED
    BY <2>1, <2>2
<1>3. \A i \in 1 .. Len(t) : t[i] # 0 => t[i] \in b + 1 .. c + 1
  BY <1>1 DEF Longer, Carries
<1>4. \A i, j \in 1 .. Len(t) : i < j /\ t[i] # 0 /\ t[j] # 0 => t[i] < t[j]
  <2> SUFFICES ASSUME NEW i \in 1 .. Len(t), NEW j \in 1 .. Len(t), i < j, t[i] # 0, t[j] # 0
               PROVE  t[i] < t[j]
    OBVIOUS
  <2>1. i \in 1 .. Len(s) /\ t[i] = s[i] /\ s[i] \in b + 1 .. c
    BY <1>1 DEF Longer, Carries
  <2>2. CASE j \in 1 .. Len(s)
    BY <2>1, <2>2 DEF Longer, Carries
  <2>3. CASE j = Len(s) + 1
    BY <2>1, <2>3 DEF Longer
  <2> QED
    BY <1>1, <2>2, <2>3
<1> QED
  BY <1>2, <1>3, <1>4 DEF Carries

\* t is s without its first element.
Shorter(s, t) ==
    /\ Len(s) \in Nat /\ Len(s) > 0 /\ Len(t) = Len(s) - 1 
    /\ \A i \in 1 .. Len(s) : s[i] \in Nat
    /\ \A i \in 1 .. Len(t) : t[i] = s[i + 1]

LEMMA HeadIsCarried ==
    ASSUME NEW s, NEW t, Shorter(s, t), NEW b \in Nat, NEW c \in Nat, b <= c, Carries(s, b, c)
    PROVE  /\ s[1] = 0 => Carries(t, b, c)
           /\ s[1] # 0 => s[1] = b + 1 /\ b + 1 <= c /\ Carries(t, b + 1, c)
<1>1. \A i \in 1 .. Len(s) : i # 1 => i - 1 \in 1 .. Len(t) /\ t[i - 1] = s[i]
  BY DEF Shorter
<1>2. \A i \in 1 .. Len(t) : i + 1 \in 1 .. Len(s) /\ t[i] = s[i + 1] /\ s[i + 1] \in Nat
  BY DEF Shorter
<1>3. 1 \in 1 .. Len(s)
  BY DEF Shorter
<1>4. \A j, k \in 1 .. Len(t) : j < k /\ t[j] # 0 /\ t[k] # 0 => t[j] < t[k]
  <2> SUFFICES ASSUME NEW j \in 1 .. Len(t), NEW k \in 1 .. Len(t), j < k, t[j] # 0, t[k] # 0
               PROVE  t[j] < t[k]
    OBVIOUS
  <2>1. j + 1 < k + 1
    BY DEF Shorter
  <2> QED
    BY <1>2, <2>1 DEF Carries
<1>5. ASSUME s[1] = 0 PROVE Carries(t, b, c)
  <2>1. \A k \in b + 1 .. c : \E i \in 1 .. Len(t) : t[i] = k
    <3> TAKE k \in b + 1 .. c
    <3>1. PICK i \in 1 .. Len(s) : s[i] = k
      BY DEF Carries
    <3>2. i # 1
      BY <1>5, <3>1
    <3> QED
      BY <1>1, <3>1, <3>2
  <2>2. \A i \in 1 .. Len(t) : t[i] # 0 => t[i] \in b + 1 .. c
    BY <1>2 DEF Carries
  <2> QED
    BY <1>4, <2>1, <2>2 DEF Carries
<1>6. ASSUME s[1] # 0 PROVE s[1] = b + 1 /\ b + 1 <= c /\ Carries(t, b + 1, c)
  <2>1. s[1] \in b + 1 .. c
    BY <1>3, <1>6 DEF Carries
  <2>2. b + 1 \in b + 1 .. c
    BY <2>1
  <2>3. PICK i \in 1 .. Len(s) : s[i] = b + 1
    BY <2>2 DEF Carries
  <2>4. ASSUME i # 1 PROVE FALSE
    <3>1. 1 < i
      BY <2>4, <1>3
    <3>2. s[1] < s[i]
      BY <1>3, <1>6, <2>3, <3>1 DEF Carries
    <3> QED
      BY <2>1, <2>3, <3>2
  <2>5. s[1] = b + 1 /\ b + 1 <= c
    BY <2>2, <2>3, <2>4
  <2>6. \A j \in 1 .. Len(t) : t[j] # 0 => t[j] \in b + 1 + 1 .. c
    <3> SUFFICES ASSUME NEW j \in 1 .. Len(t), t[j] # 0 PROVE t[j] \in b + 1 + 1 .. c
      OBVIOUS
    <3>1. 1 < j + 1
      BY DEF Shorter
    <3>2. s[j + 1] \in b + 1 .. c /\ s[1] < s[j + 1]
      BY <1>2, <1>3, <1>6, <3>1 DEF Carries
    <3> QED
      BY <1>2, <2>5, <3>2
  <2>7. \A k \in b + 1 + 1 .. c : \E j \in 1 .. Len(t) : t[j] = k
    <3> TAKE k \in b + 1 + 1 .. c
    <3>1. PICK m \in 1 .. Len(s) : s[m] = k
      BY DEF Carries
    <3>2. m # 1
      BY <2>5, <3>1
    <3> QED
      BY <1>1, <3>1, <3>2
  <2> QED
    BY <1>4, <2>5, <2>6, <2>7 DEF Carries
<1> QED
  BY <1>5, <1>6

LEMMA OneMore == \A s \in Seq(Nat), k \in Nat : Longer(s, Append(s, k), k)
<1> SUFFICES ASSUME NEW s \in Seq(Nat), NEW k \in Nat PROVE Longer(s, Append(s, k), k)
  OBVIOUS
<1> QED
  BY LenProperties, ElementOfSeq, AppendProperties DEF Longer

LEMMA OneLess == \A s \in Seq(Nat) : s # <<>> => Shorter(s, Tail(s))
<1> SUFFICES ASSUME NEW s \in Seq(Nat), s # <<>> PROVE Shorter(s, Tail(s))
  OBVIOUS
<1>1. Len(s) \in Nat \ {0} /\ \A i \in 1 .. Len(s) : s[i] \in Nat
  BY EmptySeq, ElementOfSeq
<1> QED
  BY <1>1, HeadTailProperties DEF Shorter

LEMMA MarksFollow ==
    ASSUME FeedOfAThread
    PROVE  /\ \A s \in Seq(AnEvent) : Marks(s) \in Seq(Nat) /\ Len(Marks(s)) = Len(s)
           /\ \A s \in Seq(AnEvent), e \in AnEvent : Marks(Append(s, e)) = Append(Marks(s), Mark(e))
           /\ \A s \in Seq(AnEvent) : s # <<>> => /\ Marks(s) # <<>> /\ Marks(s)[1] = Mark(Head(s))
                                                  /\ Marks(Tail(s)) = Tail(Marks(s))
<1>1. \A e \in AnEvent : Mark(e) \in Nat
  BY DEF Mark, AnEvent, FeedOfAThread
<1> HIDE DEF Mark, AnEvent
<1> QED
  BY <1>1 DEF Marks

LEMMA FrameMarksFollow ==
    ASSUME FeedOfAThread
    PROVE  /\ \A s \in Seq(AFrame) : FrameMarks(s) \in Seq(Nat) /\ Len(FrameMarks(s)) = Len(s)
           /\ \A s \in Seq(AFrame), f \in AFrame : FrameMarks(Append(s, f)) = Append(FrameMarks(s), FrameMark(f))
           /\ \A s \in Seq(AFrame) : s # <<>> => /\ FrameMarks(s) # <<>> /\ FrameMarks(s)[1] = FrameMark(Head(s))
                                                 /\ FrameMarks(Tail(s)) = Tail(FrameMarks(s))
<1>1. \A f \in AFrame : FrameMark(f) \in Nat
  <2>1. \A e \in AnEvent : Mark(e) \in Nat
    BY DEF Mark, AnEvent, FeedOfAThread
  <2> QED
    BY <2>1 DEF FrameMark, AFrame, Feed!EventFrame, Feed!ResultFrame
<1> HIDE DEF FrameMark, AFrame
<1>2. \A s \in Seq(AFrame) : FrameMarks(s) \in Seq(Nat) /\ Len(FrameMarks(s)) = Len(s)
  BY <1>1 DEF FrameMarks
<1>3. \A s \in Seq(AFrame), f \in AFrame : FrameMarks(Append(s, f)) = Append(FrameMarks(s), FrameMark(f))
  BY <1>1 DEF FrameMarks
<1>4. ASSUME NEW s \in Seq(AFrame), s # <<>>
      PROVE  /\ FrameMarks(s) # <<>> /\ FrameMarks(s)[1] = FrameMark(Head(s))
             /\ FrameMarks(Tail(s)) = Tail(FrameMarks(s))
  BY <1>1, <1>4 DEF FrameMarks
<1> QED
  BY <1>2, <1>3, <1>4

LEMMA FrameShapes ==
    /\ \A e \in AnEvent : /\ Feed!EventFrame(e) \in AFrame /\ Feed!EventFrame(e).kind = "event"
                          /\ FrameMark(Feed!EventFrame(e)) = Mark(e)
    /\ \A s \in Seq(AnEvent) : /\ Feed!ResultFrame(s) \in AFrame /\ Feed!ResultFrame(s).kind = "result"
                               /\ FrameMark(Feed!ResultFrame(s)) = 0 /\ Feed!ResultFrame(s).events = s
    /\ \A f \in AFrame :
          /\ f.events \in Seq(AnEvent)
          /\ f.kind = "event" => /\ f.events[1] \in AnEvent /\ f.events = <<f.events[1]>>
                                 /\ FrameMark(f) = Mark(f.events[1])
          /\ f.kind # "event" => f.kind = "result" /\ FrameMark(f) = 0
<1> USE DEF Feed!EventFrame, Feed!ResultFrame
<1>1. \A e \in AnEvent : Feed!EventFrame(e) \in AFrame
  BY DEF AFrame
<1>2. \A s \in Seq(AnEvent) : Feed!ResultFrame(s) \in AFrame
  BY DEF AFrame
<1>3. \A e \in AnEvent : Feed!EventFrame(e).kind = "event" /\ FrameMark(Feed!EventFrame(e)) = Mark(e)
  BY DEF FrameMark
<1>4. \A s \in Seq(AnEvent) : /\ Feed!ResultFrame(s).kind = "result" /\ FrameMark(Feed!ResultFrame(s)) = 0
                              /\ Feed!ResultFrame(s).events = s
  BY DEF FrameMark
<1>5. ASSUME NEW f \in AFrame
      PROVE  /\ f.events \in Seq(AnEvent)
             /\ f.kind = "event" => /\ f.events[1] \in AnEvent /\ f.events = <<f.events[1]>>
                                    /\ FrameMark(f) = Mark(f.events[1])
             /\ f.kind # "event" => f.kind = "result" /\ FrameMark(f) = 0
  <2>1. CASE \E e \in AnEvent : f = Feed!EventFrame(e)
    <3>1. PICK e \in AnEvent : f = Feed!EventFrame(e)
      BY <2>1
    <3>2. f.kind = "event" /\ f.events = <<e>>
      BY <3>1
    <3> QED
      BY <3>2 DEF FrameMark
  <2>2. CASE \E s \in Seq(AnEvent) : f = Feed!ResultFrame(s)
    <3>1. PICK s \in Seq(AnEvent) : f = Feed!ResultFrame(s)
      BY <2>2
    <3>2. f.kind = "result" /\ f.events = s
      BY <3>1
    <3> QED
      BY <3>2 DEF FrameMark
  <2> QED
    BY <2>1, <2>2 DEF AFrame
<1> QED
  BY <1>1, <1>2, <1>3, <1>4, <1>5

LEMMA FeedStarts == ASSUME FeedOfAThread, Feed!Init PROVE FeedInv
<1> USE DEF FeedOfAThread, Feed!Init
<1>1. FeedTypes
  <2>1. logged \in [Threads -> 0 .. EventBound] /\ 0 \in 0 .. Len(<<>>)
    <3>1. 0 \in 0 .. EventBound
      BY DEF Feed!Init
    <3>2. logged = [t \in Threads |-> 0]
      OBVIOUS
    <3> QED
      BY ONLY <3>1, <3>2
  <2>4. DOMAIN open = {"endpoint", "client"}
    <3>1. open = [endpoint |-> TRUE, client |-> TRUE]
      OBVIOUS
    <3> QED
      BY ONLY <3>1
  <2>2. /\ tasks = <<>> /\ frames = <<>> /\ shown = <<>> /\ replayed = 0 /\ screen = "new"
        /\ forwarding = TRUE /\ asked = FALSE /\ listening = FALSE
    OBVIOUS
  <2> HIDE DEF Feed!Init
  <2>3. \A S : <<>> \in Seq(S)
    BY EmptySeq
  <2> QED
    BY <2>1, <2>2, <2>3, <2>4 DEF FeedTypes
<1>2. OneAnswer
  BY DEF OneAnswer, IsResult
<1>3. Feed!FeedHasNoGap
  BY DEF Feed!FeedHasNoGap
<1>4. Marks(tasks) = <<>> /\ FrameMarks(frames) = <<>>
  BY DEF Marks, FrameMarks
<1>5. Flow(0, 0)
  BY <1>4, CarriesNothing DEF Flow
<1> QED
  BY <1>1, <1>2, <1>3, <1>5 DEF FeedInv

\* What of the invariant a change of the endpoint leaves alone.
LEMMA Unread ==
    ASSUME FeedOfAThread, FeedInv, Feed!Unread, logged' \in [Threads -> 0 .. EventBound],
           logged[Watched] <= logged'[Watched]
    PROVE  Feed!FeedHasNoGap'
<1>1. /\ logged[Watched] \in Nat /\ logged'[Watched] \in Nat /\ replayed \in Nat /\ Len(shown) \in Nat
      /\ \A i \in 1 .. Len(shown) : shown[i].at \in Nat
  <2>1. \A i \in 1 .. Len(shown) : shown[i] \in AnEvent
    BY ElementOfSeq DEF FeedInv, FeedTypes
  <2>2. Len(shown) \in Nat /\ replayed \in Nat
    BY LenProperties DEF FeedInv, FeedTypes
  <2>3. logged[Watched] \in 0 .. EventBound /\ logged'[Watched] \in 0 .. EventBound
    BY DEF FeedOfAThread, FeedInv, FeedTypes
  <2> QED
    BY <2>1, <2>2, <2>3 DEF FeedOfAThread, AnEvent
<1> QED
  BY <1>1 DEF FeedInv, Feed!FeedHasNoGap, Feed!Unread, Feed!Event

LEMMA Appending ==
    ASSUME FeedOfAThread, FeedInv, NEW t \in Threads, Feed!AppendEvent(t)
    PROVE  FeedInv'
<1> USE DEF FeedOfAThread
<1> DEFINE e == Feed!Event(t, logged[t] + 1)
<1>1. /\ logged \in [Threads -> 0 .. EventBound] /\ logged' = [logged EXCEPT ![t] = @ + 1] /\ logged[t] < EventBound
      /\ tasks' = IF forwarding /\ open["endpoint"] THEN Append(tasks, e) ELSE tasks
      /\ Feed!Unread /\ UNCHANGED <<forwarding, frames, open, asked>>
  BY DEF Feed!AppendEvent, FeedInv, FeedTypes
<1>2. /\ logged' \in [Threads -> 0 .. EventBound] /\ logged[Watched] \in Nat
      /\ logged'[Watched] = IF t = Watched THEN logged[Watched] + 1 ELSE logged[Watched]
  BY <1>1
<1>3. e \in AnEvent
  BY <1>1 DEF AnEvent, Feed!Event
<1>4. FeedTypes'
  BY <1>1, <1>2, <1>3, AppendProperties DEF FeedInv, FeedTypes, Feed!Unread
<1>5. OneAnswer'
  <2>1. \A m \in 0 .. logged[Watched] : m \in 0 .. logged'[Watched]
    BY <1>2
  <2> QED
    BY <1>1, <2>1 DEF FeedInv, OneAnswer, IsResult, Feed!Unread
<1>6. Feed!FeedHasNoGap'
  BY <1>1, <1>2, Unread
<1>7. PICK b, c \in Nat : Flow(b, c)
  BY DEF FeedInv
<1>8. open["endpoint"] => forwarding /\ Carries(Marks(tasks)', c, logged'[Watched])
  <2> SUFFICES ASSUME open["endpoint"] PROVE forwarding /\ Carries(Marks(tasks'), c, logged'[Watched])
    BY DEF Marks
  <2>1. forwarding /\ Carries(Marks(tasks), c, logged[Watched]) /\ c <= logged[Watched]
    BY <1>7 DEF Flow
  <2>2. Marks(tasks') = Append(Marks(tasks), Mark(e)) /\ Marks(tasks) \in Seq(Nat)
    BY <1>1, <1>3, <2>1, MarksFollow DEF FeedInv, FeedTypes
  <2>3. CASE t = Watched
    <3>1. Mark(e) = logged[Watched] + 1 /\ Mark(e) \in Nat
      BY <1>2, <2>3 DEF Mark, Feed!Event
    <3> HIDE DEF e
    <3> QED
      BY <1>2, <2>1, <2>2, <2>3, <3>1, OneMore, CarriesNext
  <2>4. CASE t # Watched
    <3>1. Mark(e) = 0
      BY <2>4 DEF Mark, Feed!Event
    <3> HIDE DEF e
    <3> QED
      BY <1>2, <2>1, <2>2, <2>4, <3>1, OneMore, CarriesOther
  <2> QED
    BY <2>3, <2>4
<1>9. Flow(b, c)'
  BY <1>1, <1>2, <1>7, <1>8 DEF Flow, Feed!Unread
<1> QED
  BY <1>4, <1>5, <1>6, <1>9 DEF FeedInv

LEMMA Sending ==
    ASSUME FeedOfAThread, FeedInv, Feed!SendEvent
    PROVE  FeedInv'
<1> USE DEF FeedOfAThread
<1> DEFINE e == Head(tasks)
<1>1. /\ tasks # <<>> /\ tasks' = Tail(tasks) /\ Feed!Unread /\ UNCHANGED <<logged, forwarding, open, asked>>
      /\ frames' = IF open["endpoint"] THEN Append(frames, Feed!EventFrame(e)) ELSE frames
  BY DEF Feed!SendEvent
<1>2. e \in AnEvent /\ tasks' \in Seq(AnEvent)
  BY <1>1, HeadTailProperties DEF FeedInv, FeedTypes
<1>3. Feed!EventFrame(e) \in AFrame /\ Feed!EventFrame(e).kind = "event"
  BY <1>2, FrameShapes
<1>4. frames' \in Seq(AFrame)
  BY <1>1, <1>3, AppendProperties DEF FeedInv, FeedTypes
<1>5. FeedTypes'
  BY <1>1, <1>2, <1>4 DEF FeedInv, FeedTypes, Feed!Unread
<1>6. OneAnswer'
  <2>1. Len(frames) \in Nat /\ Len(frames) <= Len(frames')
        /\ \A i \in 1 .. Len(frames) : frames'[i] = frames[i]
    BY <1>1, <1>3, AppendProperties, LenProperties DEF FeedInv, FeedTypes
  <2>2. \A i \in 1 .. Len(frames') : IsResult(i)' => i \in 1 .. Len(frames) /\ IsResult(i)
    BY <1>1, <1>3, <2>1, AppendProperties DEF FeedInv, FeedTypes, IsResult
  <2> QED
    BY <1>1, <2>1, <2>2 DEF FeedInv, OneAnswer, Feed!Unread, IsResult
<1>7. Feed!FeedHasNoGap'
  BY <1>1, Unread DEF FeedInv, FeedTypes
<1>8. PICK b, c \in Nat : Flow(b, c)
  BY DEF FeedInv
<1>9. CASE ~open["endpoint"]
  <2>1. Flow(b, c)'
    BY <1>1, <1>8, <1>9 DEF Flow, Feed!Unread, FrameMarks
  <2> QED
    BY <1>5, <1>6, <1>7, <2>1 DEF FeedInv
<1>10. CASE open["endpoint"]
  <2>1. /\ FrameMarks(frames') = Append(FrameMarks(frames), Mark(e)) /\ FrameMarks(frames) \in Seq(Nat)
        /\ Marks(tasks) \in Seq(Nat) /\ Marks(tasks) # <<>> /\ Marks(tasks)[1] = Mark(e)
        /\ Marks(tasks') = Tail(Marks(tasks))
    <3>1. tasks \in Seq(AnEvent) /\ frames \in Seq(AFrame)
      BY DEF FeedInv, FeedTypes
    <3> HIDE DEF FeedOfAThread, e
    <3>2. /\ FrameMarks(frames') = Append(FrameMarks(frames), FrameMark(Feed!EventFrame(e)))
          /\ FrameMarks(frames) \in Seq(Nat)
      BY <1>1, <1>3, <1>10, <3>1, FrameMarksFollow DEF e
    <3>3. FrameMark(Feed!EventFrame(e)) = Mark(e)
      BY <1>2, FrameShapes
    <3>4. /\ Marks(tasks) \in Seq(Nat) /\ Marks(tasks) # <<>> /\ Marks(tasks)[1] = Mark(e)
          /\ Marks(tasks') = Tail(Marks(tasks))
      BY <1>1, <3>1, MarksFollow DEF e
    <3> QED
      BY <3>2, <3>3, <3>4
  <2>2. /\ b <= c /\ c <= logged[Watched] /\ logged[Watched] \in Nat /\ forwarding
        /\ Carries(FrameMarks(frames), b, c) /\ Carries(Marks(tasks), c, logged[Watched])
    BY <1>8, <1>10 DEF Flow, FeedInv, FeedTypes
  <2>3. Mark(e) \in Nat
    BY <1>2 DEF Mark, AnEvent
  <2> HIDE DEF e
  <2>4. Shorter(Marks(tasks), Marks(tasks')) /\ Longer(FrameMarks(frames), FrameMarks(frames'), Mark(e))
    BY <2>1, <2>3, OneMore, OneLess
  <2>5. CASE Mark(e) = 0
    <3>1. Carries(Marks(tasks'), c, logged[Watched]) /\ Carries(FrameMarks(frames'), b, c)
      BY <2>1, <2>2, <2>4, <2>5, HeadIsCarried, CarriesOther
    <3>2. Flow(b, c)'
      BY <1>1, <1>8, <2>2, <3>1 DEF Flow, Feed!Unread, FrameMarks, Marks
    <3> QED
      BY <1>5, <1>6, <1>7, <3>2 DEF FeedInv
  <2>6. CASE Mark(e) # 0
    <3>1. /\ Mark(e) = c + 1 /\ c + 1 <= logged[Watched] /\ Carries(Marks(tasks'), c + 1, logged[Watched])
      BY <2>1, <2>2, <2>4, <2>6, HeadIsCarried
    <3>2. Carries(FrameMarks(frames'), b, c + 1)
      BY <2>2, <2>4, <3>1, CarriesNext
    <3>3. b <= c + 1 /\ c + 1 \in Nat
      BY <2>2
    <3>4. listening /\ Len(shown) > replayed => shown[Len(shown)].at = b
      BY <1>8 DEF Flow
    <3>5. Flow(b, c + 1)'
      BY <1>1, <3>1, <3>2, <3>3, <3>4, <2>2 DEF Flow, Feed!Unread, FrameMarks, Marks
    <3> QED
      BY <1>5, <1>6, <1>7, <3>3, <3>5 DEF FeedInv
  <2> QED
    BY <2>5, <2>6
<1> QED
  BY <1>9, <1>10 DEF FeedInv, FeedTypes

LEMMA Answering ==
    ASSUME FeedOfAThread, FeedInv, Feed!GetEvents
    PROVE  FeedInv'
<1> USE DEF FeedOfAThread
<1> DEFINE f == Feed!ResultFrame(Replay(logged[Watched]))
<1>1. /\ asked /\ asked' = FALSE /\ Feed!Unread /\ UNCHANGED <<logged, forwarding, tasks, open>>
      /\ frames' = Append(frames, f)
  BY DEF Feed!GetEvents, Feed!EventsOf, Replay
<1>2. logged[Watched] \in 0 .. EventBound
  BY DEF FeedInv, FeedTypes
<1>3. Replay(logged[Watched]) \in Seq(AnEvent)
  <2>1. \A i \in 1 .. logged[Watched] : Feed!Event(Watched, i) \in AnEvent
    BY <1>2 DEF AnEvent, Feed!Event
  <2>2. logged[Watched] \in Nat
    BY <1>2
  <2> QED
    BY <2>1, <2>2 DEF Replay
<1>4. f \in AFrame /\ f.kind = "result" /\ f.events = Replay(logged[Watched]) /\ FrameMark(f) = 0
  BY <1>3, FrameShapes
<1> HIDE DEF f
<1>5. frames \in Seq(AFrame) /\ frames' \in Seq(AFrame)
  BY <1>1, <1>4, AppendProperties DEF FeedInv, FeedTypes
<1>6. FeedTypes'
  BY <1>1, <1>5 DEF FeedInv, FeedTypes, Feed!Unread
<1>7. /\ Len(frames) \in Nat /\ Len(frames') = Len(frames) + 1
      /\ \A i \in 1 .. Len(frames) : frames'[i] = frames[i]
      /\ frames'[Len(frames) + 1] = f
  BY <1>1, <1>4, <1>5, AppendProperties, LenProperties
<1>8. \A i \in 1 .. Len(frames') : IsResult(i)' => i = Len(frames')
  <2>1. \A i \in 1 .. Len(frames) : ~IsResult(i)
    BY <1>1 DEF FeedInv, OneAnswer
  <2> QED
    BY <1>7, <2>1 DEF IsResult
<1>9. OneAnswer'
  <2>1. screen = "asking" \/ (screen = "gone" /\ ~open["client"])
    BY <1>1 DEF FeedInv, OneAnswer
  <2>2. ASSUME NEW i \in 1 .. Len(frames'), IsResult(i)'
        PROVE  /\ ~asked' /\ \A j \in 1 .. Len(frames') : IsResult(j)' => i = j
               /\ \E m \in 0 .. logged'[Watched] : frames'[i].events = Replay(m)
    <3>1. i = Len(frames) + 1
      BY <1>7, <1>8, <2>2
    <3>2. frames'[i].events = Replay(logged'[Watched]) /\ logged'[Watched] \in 0 .. logged'[Watched]
      BY <1>1, <1>2, <1>4, <1>7, <3>1
    <3> QED
      BY <1>1, <1>7, <1>8, <3>1, <3>2
  <2>3. Replay(0)' = Replay(0) /\ \A m : Replay(m)' = Replay(m)
    BY DEF Replay, Feed!Event
  <2> QED
    BY <1>1, <2>1, <2>2, <2>3 DEF FeedInv, OneAnswer, Feed!Unread
<1>10. Feed!FeedHasNoGap'
  <2>1. logged' \in [Threads -> 0 .. EventBound] /\ logged'[Watched] <= logged[Watched] /\ logged[Watched] <= logged'[Watched]
    BY <1>1, <1>2 DEF FeedInv, FeedTypes
  <2> QED
    BY <1>1, <2>1, Unread
<1>11. PICK b, c \in Nat : Flow(b, c)
  BY DEF FeedInv
<1>12. Carries(FrameMarks(frames'), b, c)
  <2>1. FrameMarks(frames') = Append(FrameMarks(frames), 0) /\ FrameMarks(frames) \in Seq(Nat)
    BY <1>1, <1>4, <1>5, FrameMarksFollow
  <2>2. Longer(FrameMarks(frames), FrameMarks(frames'), 0)
    BY <2>1, OneMore
  <2> QED
    BY <1>11, <2>2, CarriesOther DEF Flow
<1>13. Flow(b, c)'
  BY <1>1, <1>11, <1>12 DEF Flow, Feed!Unread, FrameMarks, Marks
<1> QED
  BY <1>6, <1>9, <1>10, <1>13 DEF FeedInv

\* The frame that is read is the oldest.
LEMMA Reading ==
    ASSUME FeedOfAThread, FeedInv, frames # <<>>, frames' = Tail(frames)
    PROVE  /\ Head(frames) \in AFrame /\ frames' \in Seq(AFrame) /\ frames[1] = Head(frames)
           /\ Len(frames) \in Nat /\ Len(frames') = Len(frames) - 1 /\ 1 \in 1 .. Len(frames)
           /\ \A i \in 1 .. Len(frames') : frames'[i] = frames[i + 1] /\ i + 1 \in 1 .. Len(frames) /\ i + 1 # 1
           /\ FrameMarks(frames)[1] = FrameMark(Head(frames))
           /\ Shorter(FrameMarks(frames), FrameMarks(frames'))
<1>1. frames \in Seq(AFrame)
  BY DEF FeedInv, FeedTypes
<1>2. /\ Head(frames) \in AFrame /\ frames' \in Seq(AFrame) /\ Len(frames') = Len(frames) - 1
      /\ \A i \in 1 .. Len(frames') : frames'[i] = frames[i + 1]
  BY <1>1, HeadTailProperties
<1>3. Len(frames) \in Nat /\ Len(frames) > 0 /\ frames[1] = Head(frames)
  BY <1>1, EmptySeq
<1>4. \A i \in 1 .. Len(frames') : i + 1 \in 1 .. Len(frames) /\ i + 1 # 1
  BY <1>2, <1>3
<1>5. /\ FrameMarks(frames) \in Seq(Nat) /\ FrameMarks(frames) # <<>>
      /\ FrameMarks(frames)[1] = FrameMark(Head(frames)) /\ FrameMarks(frames') = Tail(FrameMarks(frames))
  BY <1>1, FrameMarksFollow
<1>6. Shorter(FrameMarks(frames), FrameMarks(frames'))
  BY <1>5, OneLess
<1> QED
  BY <1>2, <1>3, <1>4, <1>5, <1>6

LEMMA Showing ==
    ASSUME FeedOfAThread, FeedInv, Feed!DispatchEvent
    PROVE  FeedInv'
<1> USE DEF FeedOfAThread
<1> DEFINE e == Head(frames).events[1]
<1>1. /\ frames # <<>> /\ Head(frames).kind = "event" /\ open["client"] /\ frames' = Tail(frames)
      /\ shown' = IF listening /\ e.thread = Watched THEN shown \o Head(frames).events ELSE shown
      /\ UNCHANGED <<logged, forwarding, tasks, open, screen, asked, listening, replayed>>
  BY DEF Feed!DispatchEvent, Feed!Matches
<1>2. e \in AnEvent /\ Head(frames).events = <<e>> /\ FrameMark(Head(frames)) = Mark(e)
  BY <1>1, Reading, FrameShapes
<1>3. /\ e.at \in Nat \ {0} /\ Mark(e) \in Nat
  BY <1>2 DEF AnEvent, Mark
<1> HIDE DEF e
<1>4. /\ shown \in Seq(AnEvent) /\ Len(shown) \in Nat /\ replayed \in 0 .. Len(shown)
      /\ logged[Watched] \in 0 .. EventBound /\ \A i \in 1 .. Len(shown) : shown[i] \in AnEvent
  BY LenProperties, ElementOfSeq DEF FeedInv, FeedTypes
<1>5. PICK b, c \in Nat : Flow(b, c)
  BY DEF FeedInv
<1>6. /\ b <= c /\ c <= logged[Watched] /\ Carries(FrameMarks(frames), b, c)
      /\ listening /\ Len(shown) > replayed => shown[Len(shown)].at = b
  BY <1>5 DEF Flow
<1>7. /\ Mark(e) = 0 => Carries(FrameMarks(frames'), b, c)
      /\ Mark(e) # 0 => Mark(e) = b + 1 /\ b + 1 <= c /\ Carries(FrameMarks(frames'), b + 1, c)
  BY <1>1, <1>2, <1>6, Reading, HeadIsCarried
<1>8. Mark(e) # 0 <=> e.thread = Watched
  BY <1>3 DEF Mark
<1>9. OneAnswer' /\ frames' \in Seq(AFrame)
  <2>1. \A i \in 1 .. Len(frames') : IsResult(i)' => i + 1 \in 1 .. Len(frames) /\ IsResult(i + 1)
    BY <1>1, Reading DEF IsResult
  <2>2. ASSUME NEW i \in 1 .. Len(frames'), IsResult(i)'
        PROVE  /\ ~asked' /\ \A j \in 1 .. Len(frames') : IsResult(j)' => i = j
               /\ \E m \in 0 .. logged'[Watched] : frames'[i].events = Replay(m)
    <3>1. /\ ~asked /\ \A j \in 1 .. Len(frames) : IsResult(j) => i + 1 = j
          /\ \E m \in 0 .. logged[Watched] : frames[i + 1].events = Replay(m)
      BY <2>1, <2>2 DEF FeedInv, OneAnswer
    <3>2. \A j \in 1 .. Len(frames') : IsResult(j)' => i = j
      BY <2>1, <3>1
    <3> QED
      BY <1>1, <3>1, <3>2, Reading
  <2>3. \A m : Replay(m)' = Replay(m)
    BY DEF Replay, Feed!Event
  <2>4. screen \in {"new", "asking", "answered"} => shown' = shown
    BY <1>1 DEF FeedInv, OneAnswer
  <2>5. (asked' \/ \E i \in 1 .. Len(frames') : IsResult(i)') =>
            screen = "asking" \/ (screen = "gone" /\ ~open["client"])
    BY <1>1, <2>1 DEF FeedInv, OneAnswer
  <2>6. /\ screen \in {"new", "asking", "answered"} => ~listening /\ Len(shown) = replayed
        /\ listening => screen = "watching"
    BY DEF FeedInv, OneAnswer
  <2> QED
    BY <1>1, <2>2, <2>3, <2>4, <2>5, <2>6, Reading DEF OneAnswer
<1>10. CASE listening /\ e.thread = Watched
  <2>1. shown' = Append(shown, e)
    BY <1>1, <1>2, <1>4, <1>10, AppendIsConcat
  <2>2. /\ shown' \in Seq(AnEvent) /\ Len(shown') = Len(shown) + 1
        /\ \A i \in 1 .. Len(shown) : shown'[i] = shown[i]
        /\ shown'[Len(shown) + 1] = e
    BY <1>2, <1>4, <2>1, AppendProperties
  <2>3. e.at = b + 1
    BY <1>7, <1>8, <1>10 DEF Mark
  <2>4. FeedTypes'
    <3>1. replayed' \in 0 .. Len(shown')
      BY <1>1, <1>4, <2>2
    <3> QED
      BY <1>1, <1>9, <2>2, <3>1 DEF FeedInv, FeedTypes
  <2>5. Feed!FeedHasNoGap'
    <3>1. \A i \in 1 .. replayed : i \in 1 .. Len(shown) /\ shown'[i] = shown[i]
      BY <1>4, <2>2
    <3>2. \A i \in 1 .. replayed : shown'[i] = Feed!Event(Watched, i)
      BY <3>1 DEF FeedInv, Feed!FeedHasNoGap
    <3>3. ASSUME NEW i \in replayed + 1 .. Len(shown')
          PROVE  /\ shown'[i].thread = Watched /\ shown'[i].at <= logged[Watched]
                 /\ i > replayed + 1 => shown'[i].at = shown'[i - 1].at + 1
      <4>1. CASE i \in replayed + 1 .. Len(shown)
        <5>1. /\ shown'[i] = shown[i]
              /\ i > replayed + 1 => shown'[i - 1] = shown[i - 1]
          BY <1>4, <2>2, <4>1
        <5>2. /\ shown[i].thread = Watched /\ shown[i].at <= logged[Watched]
              /\ i > replayed + 1 => shown[i].at = shown[i - 1].at + 1
          BY <4>1 DEF FeedInv, Feed!FeedHasNoGap
        <5> QED
          BY <5>1, <5>2
      <4>2. CASE i = Len(shown) + 1
        <5>1. shown'[i] = e /\ e.at <= logged[Watched]
          BY <1>4, <1>6, <1>7, <1>8, <1>10, <2>2, <2>3, <4>2
        <5>2. ASSUME i > replayed + 1 PROVE shown'[i].at = shown'[i - 1].at + 1
          <6>1. Len(shown) > replayed /\ i - 1 = Len(shown) /\ Len(shown) \in 1 .. Len(shown)
            BY <1>4, <4>2, <5>2
          <6>2. shown'[i - 1].at = b
            BY <1>6, <1>10, <2>2, <6>1
          <6> QED
            BY <2>3, <5>1, <6>2
        <5> QED
          BY <1>10, <5>1, <5>2
      <4> QED
        BY <1>4, <2>2, <4>1, <4>2
    <3>4. replayed <= logged[Watched]
      BY DEF FeedInv, Feed!FeedHasNoGap
    <3> QED
      BY <1>1, <3>2, <3>3, <3>4 DEF Feed!FeedHasNoGap, Feed!Event
  <2>6. b + 1 \in Nat /\ b + 1 <= c /\ Carries(FrameMarks(frames'), b + 1, c) /\ shown'[Len(shown')].at = b + 1
    BY <1>7, <1>8, <1>10, <2>2, <2>3
  <2>7. Flow(b + 1, c)'
    BY <1>1, <1>5, <2>6 DEF Flow, FrameMarks, Marks
  <2> QED
    BY <1>9, <2>4, <2>5, <2>6, <2>7 DEF FeedInv
<1>11. CASE ~(listening /\ e.thread = Watched)
  <2>1. shown' = shown
    BY <1>1, <1>11
  <2>2. FeedTypes'
    BY <1>1, <1>9, <2>1 DEF FeedInv, FeedTypes
  <2>3. Feed!FeedHasNoGap'
    BY <1>1, <2>1 DEF FeedInv, Feed!FeedHasNoGap, Feed!Event
  <2>4. CASE Mark(e) = 0
    <3>1. Flow(b, c)'
      BY <1>1, <1>5, <1>7, <2>1, <2>4 DEF Flow, FrameMarks, Marks
    <3> QED
      BY <1>9, <2>2, <2>3, <3>1 DEF FeedInv
  <2>5. CASE Mark(e) # 0
    <3>1. ~listening /\ b + 1 \in Nat /\ b + 1 <= c /\ Carries(FrameMarks(frames'), b + 1, c)
      BY <1>7, <1>8, <1>11, <2>5
    <3>2. Flow(b + 1, c)'
      BY <1>1, <1>5, <2>1, <3>1 DEF Flow, FrameMarks, Marks
    <3> QED
      BY <1>9, <2>2, <2>3, <3>1, <3>2 DEF FeedInv
  <2> QED
    BY <2>4, <2>5
<1> QED
  BY <1>10, <1>11

LEMMA Replaying ==
    ASSUME FeedOfAThread, FeedInv, Feed!DispatchResult
    PROVE  FeedInv'
<1> USE DEF FeedOfAThread
<1>1. /\ frames # <<>> /\ Head(frames).kind = "result" /\ open["client"] /\ frames' = Tail(frames)
      /\ screen' = "answered" /\ shown' = Head(frames).events /\ replayed' = Len(shown')
      /\ UNCHANGED <<logged, forwarding, tasks, open, asked, listening>>
  BY DEF Feed!DispatchResult
<1>2. FrameMark(Head(frames)) = 0 /\ Head(frames).events \in Seq(AnEvent)
  BY <1>1, Reading, FrameShapes
<1>3. IsResult(1) /\ 1 \in 1 .. Len(frames)
  BY <1>1, Reading DEF IsResult
<1>4. /\ ~asked /\ \A j \in 1 .. Len(frames) : IsResult(j) => 1 = j
      /\ screen = "asking" /\ ~listening
  BY <1>1, <1>3 DEF FeedInv, OneAnswer
<1>5. PICK m \in 0 .. logged[Watched] : shown' = Replay(m)
  BY <1>1, <1>3, Reading DEF FeedInv, OneAnswer
<1>6. logged[Watched] \in 0 .. EventBound /\ m \in Nat
  BY DEF FeedInv, FeedTypes
<1>7. Len(shown') = m /\ \A i \in 1 .. m : shown'[i] = Feed!Event(Watched, i)
  BY <1>5, <1>6 DEF Replay
<1>8. FeedTypes'
  <2>1. replayed' \in 0 .. Len(shown')
    BY <1>1, <1>6, <1>7
  <2> QED
    BY <1>1, <1>2, <2>1, Reading DEF FeedInv, FeedTypes
<1>9. \A i \in 1 .. Len(frames') : ~IsResult(i)'
  <2> SUFFICES ASSUME NEW i \in 1 .. Len(frames'), IsResult(i)' PROVE FALSE
    OBVIOUS
  <2>1. i + 1 \in 1 .. Len(frames) /\ i + 1 # 1 /\ IsResult(i + 1)
    BY <1>1, Reading DEF IsResult
  <2> QED
    BY <1>4, <2>1
<1>10. OneAnswer'
  BY <1>1, <1>4, <1>9 DEF OneAnswer
<1>11. Feed!FeedHasNoGap'
  <2>1. \A i \in replayed' + 1 .. Len(shown') : FALSE
    BY <1>1, <1>6, <1>7
  <2>2. replayed' <= logged'[Watched]
    BY <1>1, <1>6, <1>7
  <2> QED
    BY <1>1, <1>7, <2>1, <2>2 DEF Feed!FeedHasNoGap, Feed!Event
<1>12. PICK b, c \in Nat : Flow(b, c)
  BY DEF FeedInv
<1>13. Carries(FrameMarks(frames'), b, c)
  <2>1. b <= c /\ Carries(FrameMarks(frames), b, c)
    BY <1>12 DEF Flow
  <2>2. Shorter(FrameMarks(frames), FrameMarks(frames')) /\ FrameMarks(frames)[1] = 0
    BY <1>1, <1>2, Reading
  <2> QED
    BY <2>1, <2>2, HeadIsCarried
<1>14. Flow(b, c)'
  BY <1>1, <1>4, <1>12, <1>13 DEF Flow, FrameMarks, Marks
<1> QED
  BY <1>8, <1>10, <1>11, <1>14 DEF FeedInv

\* What leaves the logged, the forwards, the frames and what is shown alone.
LEMMA Elsewhere ==
    ASSUME FeedOfAThread, FeedInv, UNCHANGED <<logged, tasks, frames, shown, replayed>>,
           FeedTypes', OneAnswer', listening' => listening \/ Len(shown) = replayed,
           open'["endpoint"] => open["endpoint"], open'["endpoint"] => forwarding' = forwarding
    PROVE  FeedInv'
<1>1. Feed!FeedHasNoGap'
  BY DEF FeedInv, Feed!FeedHasNoGap, Feed!Event
<1>2. PICK b, c \in Nat : Flow(b, c)
  BY DEF FeedInv
<1>3. replayed \in Nat /\ Len(shown) \in Nat
  BY LenProperties DEF FeedInv, FeedTypes
<1>4. Flow(b, c)'
  BY <1>2, <1>3 DEF Flow, FrameMarks, Marks
<1> QED
  BY <1>1, <1>4 DEF FeedInv

LEMMA FeedGoesOn ==
    ASSUME FeedOfAThread, FeedInv, [Feed!Next]_(Feed!vars)
    PROVE  FeedInv'
<1>0. \A m : Replay(m)' = Replay(m)
  BY DEF Replay, Feed!Event
<1>1. ASSUME NEW e \in DOMAIN open, Feed!Closes(e) PROVE FeedInv'
  <2>1. /\ open' = [open EXCEPT ![e] = FALSE] /\ Feed!Unread /\ UNCHANGED <<logged, forwarding, tasks, frames, asked>>
    BY <1>1 DEF Feed!Closes
  <2>2. DOMAIN open' = {"endpoint", "client"} /\ \A x \in {"endpoint", "client"} : open'[x] => open[x]
    BY <2>1 DEF FeedInv, FeedTypes
  <2>3. FeedTypes'
    BY <2>1, <2>2 DEF FeedInv, FeedTypes, Feed!Unread
  <2>4. OneAnswer'
    BY <1>0, <2>1, <2>2 DEF FeedInv, OneAnswer, IsResult, Feed!Unread
  <2> QED
    BY <2>1, <2>2, <2>3, <2>4, Elsewhere DEF Feed!Unread
<1>2. ASSUME Feed!Unforward PROVE FeedInv'
  <2>1. /\ ~open["endpoint"] /\ forwarding' = FALSE /\ Feed!Unread /\ UNCHANGED <<logged, tasks, frames, open, asked>>
    BY <1>2 DEF Feed!Unforward
  <2>2. FeedTypes'
    BY <2>1 DEF FeedInv, FeedTypes, Feed!Unread
  <2>3. OneAnswer'
    BY <1>0, <2>1 DEF FeedInv, OneAnswer, IsResult, Feed!Unread
  <2> QED
    BY <2>1, <2>2, <2>3, Elsewhere DEF Feed!Unread
<1>3. ASSUME Feed!Mount PROVE FeedInv'
  <2>1. /\ screen = "new" /\ screen' = "asking" /\ asked' = TRUE
        /\ UNCHANGED <<logged, forwarding, tasks, frames, open, listening, shown, replayed>>
    BY <1>3 DEF Feed!Mount
  <2>2. FeedTypes'
    BY <2>1 DEF FeedInv, FeedTypes
  <2>3. \A i \in 1 .. Len(frames) : ~IsResult(i)
    BY <2>1 DEF FeedInv, OneAnswer
  <2>4. OneAnswer'
    BY <1>0, <2>1, <2>3 DEF FeedInv, OneAnswer, IsResult
  <2> QED
    BY <2>1, <2>2, <2>4, Elsewhere
<1>4. ASSUME Feed!Subscribe PROVE FeedInv'
  <2>1. /\ screen = "answered" /\ screen' = "watching" /\ listening' = TRUE
        /\ UNCHANGED <<logged, forwarding, tasks, frames, open, asked, shown, replayed>>
    BY <1>4 DEF Feed!Subscribe
  <2>2. FeedTypes'
    BY <2>1 DEF FeedInv, FeedTypes
  <2>3. ~asked /\ \A i \in 1 .. Len(frames) : ~IsResult(i)
    BY <2>1 DEF FeedInv, OneAnswer
  <2>4. OneAnswer' /\ Len(shown) = replayed
    BY <1>0, <2>1, <2>3 DEF FeedInv, OneAnswer, IsResult
  <2> QED
    BY <2>1, <2>2, <2>4, Elsewhere
<1>5. ASSUME Feed!Unmount PROVE FeedInv'
  <2>1. /\ screen = "watching" \/ (screen = "asking" /\ ~open["client"])
        /\ screen' = "gone" /\ listening' = FALSE
        /\ UNCHANGED <<logged, forwarding, tasks, frames, open, asked, shown, replayed>>
    BY <1>5 DEF Feed!Unmount
  <2>2. FeedTypes'
    BY <2>1 DEF FeedInv, FeedTypes
  <2>3. OneAnswer'
    BY <1>0, <2>1 DEF FeedInv, OneAnswer, IsResult
  <2> QED
    BY <2>1, <2>2, <2>3, Elsewhere
<1>6. ASSUME UNCHANGED Feed!vars PROVE FeedInv'
  <2>1. FeedTypes'
    BY <1>6 DEF FeedInv, FeedTypes, Feed!vars
  <2>2. OneAnswer'
    BY <1>0, <1>6 DEF FeedInv, OneAnswer, IsResult, Feed!vars
  <2> QED
    BY <1>6, <2>1, <2>2, Elsewhere DEF Feed!vars
<1> QED
  BY <1>1, <1>2, <1>3, <1>4, <1>5, <1>6, Appending, Sending, Answering, Showing, Replaying DEF Feed!Next

LEMMA FeedTyped == ASSUME FeedOfAThread, FeedInv PROVE Feed!TypeOK
<1>1. /\ \A i \in DOMAIN tasks : tasks[i] \in AnEvent
      /\ \A i \in DOMAIN shown : shown[i] \in AnEvent
  BY LenProperties, ElementOfSeq DEF FeedInv, FeedTypes
<1>2. AnEvent \subseteq {Feed!Event(t, i) : t \in Threads, i \in 1 .. EventBound}
  BY DEF AnEvent, Feed!Event
<1> QED
  BY <1>1, <1>2 DEF FeedInv, FeedTypes, OneAnswer, Feed!TypeOK, Feed!ToSet

\* Whatever the frames of a connection carry between each other, a subscriber
\* to a thread's events is told an unbroken stretch of its log in order, and
\* what get_events answered is the log from its beginning.
THEOREM FeedNeverHasAGap == ASSUME FeedOfAThread PROVE Feed!Spec => []Feed!FeedHasNoGap
<1>1. FeedInv => Feed!FeedHasNoGap
  BY DEF FeedInv
<1> QED
  BY <1>1, FeedStarts, FeedGoesOn, PTL DEF Feed!Spec

----------------------------------------------------------------------------
(* The memory service.  A turn that a deletion was accepted for stays gone *)
(* once the service has dropped it, as no later turn has its id: when a    *)
(* save writes, whatever it found is gone or will be, and nothing is       *)
(* extracted from it again.                                                *)

\* The hypothesis: a window has room for a turn.
WindowHasRoom == TopK \in Nat /\ TopK >= 2 /\ TurnBound \in Nat

TurnsHeld == {e.id : e \in {f \in Core!Mine : Core!Held(f)}}
IsGone(id) == id \in doomed \/ \A e \in stored : e.id # id

CoreTypes ==
    /\ written \in 0 .. TurnBound /\ session \in Nat \ {0}
    /\ stored \subseteq [id : 1 .. written, session : 1 .. session]
    /\ todo \subseteq [id : 1 .. written, session : 1 .. session]
    /\ doomed \subseteq 1 .. written /\ records \subseteq 1 .. TurnBound
    /\ operation \in [op : {"none", "save", "recall", "feedback", "delete"},
                      step : {"events", "records", "delete", "write", "wait", "done"},
                      strict : BOOLEAN, records : BOOLEAN, overfull : BOOLEAN]
    /\ replaced \in [turns : SUBSET (1 .. written), records : BOOLEAN, turn : 0 .. written]
    /\ \A e \in todo \cup stored, f \in stored : e.id = f.id => e = f

\* Which steps an operation takes.
Steps ==
    /\ operation.step \in {"events", "records"} => operation.op \in {"save", "recall", "delete"}
    /\ operation.step = "delete" => operation.op \in {"save", "delete"}
    /\ operation.step = "write" => operation.op \in {"save", "feedback"}
    /\ operation.op = "save" => operation.strict
    /\ operation.op \in {"save", "delete"} => replaced.turn = 0
    /\ operation.op # "none" => answer = Core!Silent

\* What a save found goes, and stays gone.
FoundGoes ==
    /\ operation.op = "save" /\ operation.step = "delete" =>
           /\ \A id \in replaced.turns : id \in Core!Found \/ IsGone(id)
           /\ operation.records = replaced.records
    /\ (operation.op = "save" /\ operation.step = "write") \/ replaced.turn # 0 =>
           \A id \in replaced.turns : IsGone(id) /\ (replaced.records => id \notin Core!HeldRecords)
    /\ replaced.turn # 0 => \E e \in Core!Mine : e.id = replaced.turn /\ Core!Held(e)

\* What a recall has read is what is stored, unless the window cut it off.
ReadsWhatStands ==
    /\ operation.op = "recall" /\ operation.step = "records" =>
           /\ ~operation.overfull => TurnsHeld \subseteq Core!Found
           /\ todo = {} => TurnsHeld = {}
    /\ answer.default => TurnsHeld = {}
    /\ ~answer.overfull => TurnsHeld \subseteq answer.turns

CoreInv == CoreTypes /\ Steps /\ FoundGoes /\ ReadsWhatStands

LEMMA Least == ASSUME NEW S \in SUBSET Nat, S # {} PROVE \E x \in S : \A y \in S : x <= y
<1>1. PICK x \in S : \A y \in S : ~ (<<y, x>> \in OpToRel(<, Nat))
  BY NatLessThanWellFounded, WFMin
<1>2. \A y \in S : ~(y < x)
  BY <1>1 DEF OpToRel
<1> QED
  BY <1>2

LEMMA FirstAndLast ==
    ASSUME NEW n \in Nat, NEW R, R # {}, \A e \in R : e.id \in 1 .. n
    PROVE  /\ \E e \in R : \A f \in R : e.id <= f.id
           /\ \E e \in R : \A f \in R : f.id <= e.id
<1>1. \E e \in R : \A f \in R : e.id <= f.id
  <2> DEFINE S == {e.id : e \in R}
  <2>1. S \in SUBSET Nat /\ S # {}
    OBVIOUS
  <2>2. PICK x \in S : \A y \in S : x <= y
    BY ONLY <2>1, Least
  <2> QED
    BY <2>2
<1>2. \E e \in R : \A f \in R : f.id <= e.id
  <2> DEFINE S == {n - e.id : e \in R}
  <2>1. S \in SUBSET Nat /\ S # {}
    OBVIOUS
  <2>2. PICK x \in S : \A y \in S : x <= y
    BY ONLY <2>1, Least
  <2>3. PICK e \in R : x = n - e.id
    OBVIOUS
  <2>4. ASSUME NEW f \in R PROVE f.id <= e.id
    <3>1. n - f.id \in S
      OBVIOUS
    <3>2. n - e.id <= n - f.id
      BY <2>2, <2>3, <3>1
    <3> QED
      BY <3>2
  <2> QED
    BY <2>4
<1> QED
  BY <1>1, <1>2

LEMMA WindowShowsSomething ==
    ASSUME WindowHasRoom, CoreTypes, Core!Mine # {}
    PROVE  Core!Window # {}
<1>1. /\ written \in Nat /\ \A e \in Core!Mine : e.id \in 1 .. written
  BY DEF CoreTypes, Core!Mine, WindowHasRoom
<1>2. Core!Cardinality({}) = 0
  BY FS_EmptySet DEF Core!Cardinality, Cardinality
<1>3. ASSUME NEW R, R # {}, \A e \in R : e.id \in 1 .. written, NEW n \in Nat, n >= 1
      PROVE  /\ Core!Newest(R, n) # {} /\ Core!Newest(R, n) \subseteq R
             /\ Core!Oldest(R, n) # {} /\ Core!Oldest(R, n) \subseteq R
  <2>1. PICK e \in R : \A f \in R : e.id <= f.id
    BY <1>1, <1>3, FirstAndLast
  <2>2. PICK g \in R : \A f \in R : f.id <= g.id
    BY <1>1, <1>3, FirstAndLast
  <2>3. {f \in R : f.id < e.id} = {}
    BY <1>1, <1>3, <2>1
  <2>4. {f \in R : f.id > g.id} = {}
    BY <1>1, <1>3, <2>2
  <2>5. /\ Core!Cardinality({f \in R : f.id < e.id}) < n
        /\ Core!Cardinality({f \in R : f.id > g.id}) < n
    <3>1. 0 < n
      BY <1>3
    <3> HIDE DEF Core!Cardinality
    <3> QED
      BY <1>2, <2>3, <2>4, <3>1
  <2>6. e \in Core!Oldest(R, n) /\ g \in Core!Newest(R, n)
    BY <2>5 DEF Core!Oldest, Core!Newest
  <2> QED
    BY <2>6 DEF Core!Oldest, Core!Newest
<1>4. TopK \in Nat /\ TopK >= 1 /\ TopK \div 2 \in Nat /\ TopK \div 2 >= 1
  BY DEF WindowHasRoom
<1>5. CASE newestFirst
  <2>1. Core!Newest(Core!Mine, TopK) # {} /\ Core!Newest(Core!Mine, TopK) \subseteq Core!Mine
    BY <1>1, <1>3, <1>4
  <2>2. Core!Oldest(Core!Newest(Core!Mine, TopK), TopK \div 2) # {}
    BY <1>1, <1>3, <1>4, <2>1
  <2> QED
    BY <1>5, <2>2 DEF Core!Window
<1>6. CASE ~newestFirst
  <2>1. Core!Oldest(Core!Mine, TopK) # {} /\ Core!Oldest(Core!Mine, TopK) \subseteq Core!Mine
    BY <1>1, <1>3, <1>4
  <2>2. Core!Newest(Core!Oldest(Core!Mine, TopK), TopK \div 2) # {}
    BY <1>1, <1>3, <1>4, <2>1
  <2> QED
    BY <1>6, <2>2 DEF Core!Window
<1> QED
  BY <1>5, <1>6

LEMMA WindowIsMine == Core!Window \subseteq Core!Mine /\ Core!Mine \subseteq stored
BY DEF Core!Window, Core!Newest, Core!Oldest, Core!Mine

LEMMA ForemostIsThere ==
    ASSUME WindowHasRoom, CoreTypes, todo # {}
    PROVE  Core!Foremost \in todo
<1>1. written \in Nat /\ \A e \in todo : e.id \in 1 .. written
  BY DEF CoreTypes, WindowHasRoom
<1>2. \E e \in todo : \A f \in todo : IF newestFirst THEN e.id <= f.id ELSE f.id <= e.id
  BY <1>1, FirstAndLast
<1> QED
  BY <1>2 DEF Core!Foremost

LEMMA CoreStarts == ASSUME WindowHasRoom, Core!Init PROVE CoreInv
<1> USE DEF Core!Init
<1>1. CoreTypes
  BY DEF CoreTypes, WindowHasRoom, Core!Idle, Core!Nothing
<1>2. Steps
  BY DEF Steps, Core!Idle, Core!Nothing, Core!Silent
<1>3. FoundGoes
  BY DEF FoundGoes, Core!Idle, Core!Nothing
<1>4. ReadsWhatStands
  BY DEF ReadsWhatStands, Core!Idle, Core!Silent
<1> QED
  BY <1>1, <1>2, <1>3, <1>4 DEF CoreInv

\* What a step of an operation that leaves the service as it is keeps.
LEMMA ServiceStands ==
    ASSUME UNCHANGED <<Core!service, session>>
    PROVE  /\ TurnsHeld' = TurnsHeld /\ Core!Mine' = Core!Mine /\ Core!HeldRecords' = Core!HeldRecords
           /\ \A id : IsGone(id)' = IsGone(id)
           /\ \A e : Core!Held(e)' = Core!Held(e)
           /\ UNCHANGED <<newestFirst, written, stored, records, doomed, purged>>
BY DEF Core!service, TurnsHeld, Core!Mine, Core!Held, Core!HeldRecords, IsGone

LEMMA Vanishing ==
    ASSUME WindowHasRoom, CoreInv, Core!Vanish
    PROVE  CoreInv'
<1>1. UNCHANGED <<newestFirst, written, session, operation, todo, replaced, answer>>
  BY DEF Core!Vanish
<1>2. CASE \E id \in doomed : stored' = {e \in stored : e.id # id}
                              /\ doomed' = doomed \ {id} /\ UNCHANGED <<records, purged>>
  <2>1. PICK x \in doomed : stored' = {e \in stored : e.id # x}
                            /\ doomed' = doomed \ {x} /\ UNCHANGED <<records, purged>>
    BY <1>2
  <2>2. \A id : IsGone(id) => IsGone(id)'
    BY <2>1 DEF IsGone
  <2>3. Core!HeldRecords' = Core!HeldRecords /\ Core!Found' = Core!Found
    BY <1>1, <2>1 DEF Core!HeldRecords, Core!Found
  <2>4. {f \in Core!Mine' : Core!Held(f)'} = {f \in Core!Mine : Core!Held(f)}
    BY <1>1, <2>1 DEF Core!Mine, Core!Held
  <2>5. TurnsHeld' = TurnsHeld
    BY <2>4 DEF TurnsHeld
  <2>6. CoreTypes'
    <3>1. stored' \subseteq stored /\ doomed' \subseteq doomed
      BY <2>1
    <3> QED
      BY <1>1, <2>1, <3>1 DEF CoreInv, CoreTypes
  <2>7. Steps' /\ ReadsWhatStands'
    BY <1>1, <2>3, <2>5 DEF CoreInv, Steps, ReadsWhatStands, Core!Silent
  <2>8. FoundGoes'
    BY <1>1, <2>2, <2>3, <2>4 DEF CoreInv, FoundGoes
  <2> QED
    BY <2>6, <2>7, <2>8 DEF CoreInv
<1>3. CASE purged # {} /\ records' = records \ purged /\ purged' = {} /\ UNCHANGED <<stored, doomed>>
  <2>1. /\ \A id : IsGone(id)' = IsGone(id)
        /\ Core!HeldRecords' = Core!HeldRecords /\ Core!Found' = Core!Found
        /\ Core!Mine' = Core!Mine /\ TurnsHeld' = TurnsHeld
        /\ \A e : Core!Held(e)' = Core!Held(e)
    BY <1>1, <1>3 DEF IsGone, Core!HeldRecords, Core!Found, Core!Mine, TurnsHeld, Core!Held
  <2>2. CoreTypes'
    BY <1>1, <1>3 DEF CoreInv, CoreTypes
  <2>3. Steps' /\ ReadsWhatStands'
    BY <1>1, <2>1 DEF CoreInv, Steps, ReadsWhatStands, Core!Silent
  <2>4. FoundGoes'
    BY <1>1, <2>1 DEF CoreInv, FoundGoes
  <2> QED
    BY <2>2, <2>3, <2>4 DEF CoreInv
<1> QED
  BY <1>2, <1>3 DEF Core!Vanish

LEMMA Extracting ==
    ASSUME WindowHasRoom, CoreInv, Core!Extract
    PROVE  CoreInv'
<1>1. PICK x \in stored : Core!Held(x) /\ x.id \notin records /\ records' = records \cup {x.id}
  BY DEF Core!Extract
<1>2. UNCHANGED <<newestFirst, written, stored, doomed, purged, session, operation, todo, replaced, answer>>
  BY DEF Core!Extract
<1>3. /\ \A id : IsGone(id)' = IsGone(id)
      /\ Core!Found' = Core!Found /\ Core!Mine' = Core!Mine /\ TurnsHeld' = TurnsHeld
      /\ \A e : Core!Held(e)' = Core!Held(e)
  BY <1>2 DEF IsGone, Core!Found, Core!Mine, TurnsHeld, Core!Held
<1>4. \A id : IsGone(id) /\ id \notin Core!HeldRecords => id \notin Core!HeldRecords'
  BY <1>1, <1>2 DEF IsGone, Core!HeldRecords, Core!Held
<1>5. CoreTypes'
  <2>1. x.id \in 1 .. TurnBound
    BY DEF CoreInv, CoreTypes, WindowHasRoom
  <2> QED
    BY <1>1, <1>2, <2>1 DEF CoreInv, CoreTypes
<1>6. Steps' /\ ReadsWhatStands'
  BY <1>2, <1>3 DEF CoreInv, Steps, ReadsWhatStands, Core!Silent
<1>7. FoundGoes'
  BY <1>2, <1>3, <1>4 DEF CoreInv, FoundGoes
<1> QED
  BY <1>5, <1>6, <1>7 DEF CoreInv

LEMMA Beginning ==
    ASSUME WindowHasRoom, CoreInv,
           Core!Save \/ Core!Recall \/ Core!Delete \/ Core!Consolidate
    PROVE  CoreInv'
<1>1. PICK op \in {"save", "recall", "delete", "feedback"} :
          Core!Begin(op, IF op = "feedback" THEN "write" ELSE "events")
  BY DEF Core!Save, Core!Recall, Core!Delete, Core!Consolidate
<1>2. /\ operation.op = "none"
      /\ operation' = [op |-> op, step |-> IF op = "feedback" THEN "write" ELSE "events",
                       strict |-> (op = "save"), records |-> FALSE, overfull |-> FALSE]
      /\ replaced' = IF op \in {"save", "delete"} THEN Core!Nothing ELSE replaced
      /\ answer' = Core!Silent
      /\ UNCHANGED <<Core!service, session, todo>>
  BY <1>1 DEF Core!Begin, Core!Idle
<1>3. CoreTypes'
  <2>1. operation' \in [op : {"none", "save", "recall", "feedback", "delete"},
                        step : {"events", "records", "delete", "write", "wait", "done"},
                        strict : BOOLEAN, records : BOOLEAN, overfull : BOOLEAN]
    BY <1>2
  <2>2. replaced' \in [turns : SUBSET (1 .. written), records : BOOLEAN, turn : 0 .. written]
    BY <1>2 DEF CoreInv, CoreTypes, Core!Nothing, WindowHasRoom
  <2>3. UNCHANGED <<written, stored, records, doomed, session, todo>>
    BY <1>2, ServiceStands
  <2> QED
    BY <2>1, <2>2, <2>3 DEF CoreInv, CoreTypes
<1>4. Steps'
  BY <1>2 DEF CoreInv, Steps, Core!Nothing, Core!Silent
<1>5. FoundGoes'
  BY <1>2, ServiceStands DEF CoreInv, FoundGoes, Core!Nothing
<1>6. ReadsWhatStands'
  BY <1>2, ServiceStands DEF CoreInv, ReadsWhatStands, Core!Silent
<1> QED
  BY <1>3, <1>4, <1>5, <1>6 DEF CoreInv

\* An operation that ends, by an answer of its own or by a failure.
LEMMA Ending ==
    ASSUME WindowHasRoom, CoreInv, operation' = Core!Idle, todo' \subseteq todo,
           UNCHANGED <<Core!service, session, replaced, answer>>
    PROVE  CoreInv'
<1>1. CoreTypes'
  BY ServiceStands DEF CoreInv, CoreTypes, Core!Idle
<1>2. Steps'
  BY DEF CoreInv, Steps, Core!Idle, Core!Silent
<1>3. FoundGoes'
  BY ServiceStands DEF CoreInv, FoundGoes, Core!Idle
<1>4. ReadsWhatStands'
  BY ServiceStands DEF CoreInv, ReadsWhatStands, Core!Idle, Core!Silent
<1> QED
  BY <1>1, <1>2, <1>3, <1>4 DEF CoreInv

LEMMA ListingEvents ==
    ASSUME WindowHasRoom, CoreInv, Core!ListEvents \/ Core!ReadFails
    PROVE  CoreInv'
<1>1. /\ operation.step = "events" /\ UNCHANGED <<Core!service, session, replaced, answer>>
      /\ operation.op \in {"save", "recall", "delete"} /\ answer = Core!Silent
  BY DEF Core!ListEvents, Core!ReadFails, CoreInv, Steps
<1>2. PICK b \in BOOLEAN : /\ operation' = [operation EXCEPT !.step = "records", !.overfull = b]
                           /\ todo' \subseteq stored \/ todo' = todo
                           /\ ~b => TurnsHeld \subseteq Core!Found' \/ TurnsHeld = {}
                           /\ todo' = {} => TurnsHeld = {}
  <2>1. CASE Core!ListEvents
    <3>1. /\ todo' = Core!Window
          /\ operation' = [operation EXCEPT !.step = "records", !.overfull = (Core!Window # Core!Mine)]
      BY <2>1 DEF Core!ListEvents
    <3>2. Core!Window = Core!Mine => TurnsHeld \subseteq Core!Found'
      BY <3>1 DEF TurnsHeld, Core!Found
    <3>3. Core!Window = {} => TurnsHeld = {}
      BY WindowShowsSomething DEF CoreInv, TurnsHeld
    <3> QED
      BY <3>1, <3>2, <3>3, WindowIsMine
  <2>2. CASE Core!ReadFails
    <3>1. Core!Mine = {} /\ todo' = todo /\ operation' = [operation EXCEPT !.step = "records"]
      BY <2>2 DEF Core!ReadFails
    <3>2. TurnsHeld = {}
      BY <3>1 DEF TurnsHeld
    <3>3. /\ operation.overfull \in BOOLEAN
          /\ operation' = [operation EXCEPT !.step = "records", !.overfull = operation.overfull]
      BY <3>1 DEF CoreInv, CoreTypes
    <3> QED
      BY <3>1, <3>2, <3>3
  <2> QED
    BY <2>1, <2>2
<1>3. /\ operation'.op = operation.op /\ operation'.step = "records" /\ operation'.strict = operation.strict
      /\ operation'.overfull = b
      /\ operation' \in [op : {"none", "save", "recall", "feedback", "delete"},
                         step : {"events", "records", "delete", "write", "wait", "done"},
                         strict : BOOLEAN, records : BOOLEAN, overfull : BOOLEAN]
  BY <1>2 DEF CoreInv, CoreTypes
<1>4. CoreTypes'
  <2>1. /\ todo' \subseteq [id : 1 .. written, session : 1 .. session]
        /\ \A e \in todo' \cup stored, f \in stored : e.id = f.id => e = f
    <3>1. CASE todo' = todo
      BY <3>1 DEF CoreInv, CoreTypes
    <3>2. CASE todo' \subseteq stored
      BY <3>2 DEF CoreInv, CoreTypes
    <3> QED
      BY <1>2, <3>1, <3>2
  <2> QED
    BY <1>1, <1>3, <2>1, ServiceStands DEF CoreInv, CoreTypes
<1>5. Steps'
  BY <1>1, <1>3 DEF CoreInv, Steps, Core!Silent
<1>6. FoundGoes'
  BY <1>1, <1>3, ServiceStands DEF CoreInv, FoundGoes, Steps
<1>7. ReadsWhatStands'
  BY <1>1, <1>2, <1>3, ServiceStands DEF CoreInv, ReadsWhatStands, Core!Silent
<1> QED
  BY <1>4, <1>5, <1>6, <1>7 DEF CoreInv

LEMMA ListingRecords ==
    ASSUME WindowHasRoom, CoreInv, Core!ListRecords
    PROVE  CoreInv'
<1>1. /\ operation.step = "records" /\ UNCHANGED <<Core!service, session>>
      /\ operation.op \in {"save", "recall", "delete"} /\ answer = Core!Silent
  BY DEF Core!ListRecords, CoreInv, Steps
<1>2. CASE operation.op = "recall"
  <2>1. /\ operation' = Core!Idle /\ todo' = {} /\ replaced' = replaced
        /\ answer' = [turns |-> Core!Found, default |-> (todo = {} /\ records = {}), overfull |-> operation.overfull]
    BY <1>2 DEF Core!ListRecords
  <2>2. CoreTypes'
    BY <1>1, <2>1, ServiceStands DEF CoreInv, CoreTypes, Core!Idle
  <2>3. Steps' /\ FoundGoes'
    BY <1>1, <2>1, ServiceStands DEF CoreInv, Steps, FoundGoes, Core!Idle
  <2>4. ReadsWhatStands'
    <3>1. /\ ~operation.overfull => TurnsHeld \subseteq Core!Found
          /\ todo = {} => TurnsHeld = {}
      BY <1>1, <1>2 DEF CoreInv, ReadsWhatStands
    <3>2. /\ answer'.default = (todo = {} /\ records = {}) /\ answer'.overfull = operation.overfull
          /\ answer'.turns = Core!Found /\ operation'.op = "none"
      BY <2>1 DEF Core!Idle
    <3> QED
      BY <1>1, <3>1, <3>2, ServiceStands DEF ReadsWhatStands
  <2> QED
    BY <2>2, <2>3, <2>4 DEF CoreInv
<1>3. CASE operation.op # "recall"
  <2>1. /\ UNCHANGED <<todo, answer>>
        /\ replaced' = IF operation.op = "save" THEN [turns |-> Core!Found, records |-> (records # {}), turn |-> 0]
                       ELSE replaced
        /\ operation' = [operation EXCEPT !.step = "delete", !.records = (records # {})]
    BY <1>3 DEF Core!ListRecords
  <2>2. /\ operation'.op = operation.op /\ operation'.step = "delete" /\ operation'.strict = operation.strict
        /\ operation'.records = (records # {})
        /\ operation' \in [op : {"none", "save", "recall", "feedback", "delete"},
                           step : {"events", "records", "delete", "write", "wait", "done"},
                           strict : BOOLEAN, records : BOOLEAN, overfull : BOOLEAN]
    BY <2>1 DEF CoreInv, CoreTypes
  <2>3. CoreTypes'
    <3>1. Core!Found \subseteq 1 .. written
      BY DEF CoreInv, CoreTypes, Core!Found
    <3>2. replaced' \in [turns : SUBSET (1 .. written), records : BOOLEAN, turn : 0 .. written]
      BY <2>1, <3>1 DEF CoreInv, CoreTypes, WindowHasRoom
    <3> QED
      BY <1>1, <2>1, <2>2, <3>2, ServiceStands DEF CoreInv, CoreTypes
  <2>4. replaced'.turn = 0
    BY <1>1, <1>3, <2>1 DEF CoreInv, Steps
  <2>5. Steps' /\ ReadsWhatStands'
    BY <1>1, <1>3, <2>1, <2>2, <2>4, ServiceStands DEF CoreInv, Steps, ReadsWhatStands, Core!Silent
  <2>6. FoundGoes'
    <3>1. ASSUME operation.op = "save"
          PROVE  replaced'.turns = Core!Found /\ replaced'.records = (records # {}) /\ Core!Found' = Core!Found
      BY <2>1, <3>1 DEF Core!Found
    <3> QED
      BY <2>2, <2>4, <3>1 DEF FoundGoes
  <2> QED
    BY <2>3, <2>5, <2>6 DEF CoreInv
<1> QED
  BY <1>2, <1>3

LEMMA DeletingEvents ==
    ASSUME WindowHasRoom, CoreInv, Core!DeleteEvent
    PROVE  CoreInv'
<1>1. PICK g \in todo :
      /\ operation.step = "delete" /\ todo' = todo \ {g}
      /\ \/ doomed' = IF g \in stored THEN doomed \cup {g.id} ELSE doomed
         \/ ~operation.strict /\ doomed' = doomed
      /\ UNCHANGED <<newestFirst, written, stored, records, purged, session, operation, replaced, answer>>
  BY ForemostIsThere DEF Core!DeleteEvent, CoreInv
<1>2. operation.op \in {"save", "delete"} /\ replaced.turn = 0 /\ answer = Core!Silent
  BY <1>1 DEF CoreInv, Steps
<1>3. CoreTypes'
  <2>1. g.id \in 1 .. written
    BY <1>1 DEF CoreInv, CoreTypes
  <2>2. doomed' \subseteq 1 .. written
    BY <1>1, <2>1 DEF CoreInv, CoreTypes
  <2> QED
    BY <1>1, <2>2 DEF CoreInv, CoreTypes
<1>4. Steps'
  BY <1>1 DEF CoreInv, Steps, Core!Silent
<1>5. ReadsWhatStands'
  BY <1>1, <1>2 DEF ReadsWhatStands, Core!Silent
<1>6. FoundGoes'
  <2>1. ASSUME operation.op = "save" PROVE \A id \in replaced.turns : id \in Core!Found' \/ IsGone(id)'
    <3>1. doomed' = IF g \in stored THEN doomed \cup {g.id} ELSE doomed
      BY <1>1, <2>1 DEF CoreInv, Steps
    <3>2. \A id : IsGone(id) => IsGone(id)'
      BY <1>1, <3>1 DEF IsGone
    <3>3. IsGone(g.id)'
      <4>1. \A f \in stored : g.id = f.id => g = f
        BY <1>1 DEF CoreInv, CoreTypes
      <4> QED
        BY <1>1, <3>1, <4>1 DEF IsGone
    <3>4. ASSUME NEW id \in Core!Found PROVE id \in Core!Found' \/ IsGone(id)'
      <4>1. PICK e \in todo : id = e.id
        BY <3>4 DEF Core!Found
      <4>2. CASE e = g
        BY <3>3, <4>1, <4>2
      <4>3. CASE e # g
        BY <1>1, <4>1, <4>3 DEF Core!Found
      <4> QED
        BY <4>2, <4>3
    <3> QED
      BY <1>1, <2>1, <3>2, <3>4 DEF CoreInv, FoundGoes
  <2> QED
    BY <1>1, <1>2, <2>1 DEF CoreInv, FoundGoes
<1> QED
  BY <1>3, <1>4, <1>5, <1>6 DEF CoreInv

LEMMA PurgingRecords ==
    ASSUME WindowHasRoom, CoreInv, Core!PurgeRecords
    PROVE  CoreInv'
<1>1. /\ operation.step = "delete" /\ todo = {}
      /\ \/ purged' = IF operation.records THEN records ELSE purged
         \/ ~operation.strict /\ purged' = purged
      /\ operation' = [operation EXCEPT !.step = IF operation.op = "save" THEN "write" ELSE "wait"]
      /\ UNCHANGED <<newestFirst, written, stored, records, doomed, session, todo, replaced, answer>>
  BY DEF Core!PurgeRecords
<1>2. operation.op \in {"save", "delete"} /\ replaced.turn = 0 /\ answer = Core!Silent
  BY <1>1 DEF CoreInv, Steps
<1>3. /\ operation'.op = operation.op /\ operation'.strict = operation.strict
      /\ operation'.step = IF operation.op = "save" THEN "write" ELSE "wait"
      /\ operation' \in [op : {"none", "save", "recall", "feedback", "delete"},
                         step : {"events", "records", "delete", "write", "wait", "done"},
                         strict : BOOLEAN, records : BOOLEAN, overfull : BOOLEAN]
  BY <1>1 DEF CoreInv, CoreTypes
<1>4. CoreTypes'
  BY <1>1, <1>3 DEF CoreInv, CoreTypes
<1>5. Steps'
  BY <1>1, <1>2, <1>3 DEF CoreInv, Steps, Core!Silent
<1>6. ReadsWhatStands'
  BY <1>1, <1>2, <1>3 DEF ReadsWhatStands, Core!Silent
<1>7. FoundGoes'
  <2>1. ASSUME operation.op = "save", NEW id \in replaced.turns
        PROVE  IsGone(id)' /\ (replaced.records => id \notin Core!HeldRecords')
    <3>1. Core!Found = {}
      BY <1>1 DEF Core!Found
    <3>2. IsGone(id) /\ operation.records = replaced.records
      BY <1>1, <2>1, <3>1 DEF CoreInv, FoundGoes
    <3>3. IsGone(id)'
      BY <1>1, <3>2 DEF IsGone
    <3>4. replaced.records => Core!HeldRecords' = {}
      BY <1>1, <2>1, <3>2 DEF CoreInv, Steps, Core!HeldRecords
    <3> QED
      BY <3>3, <3>4
  <2> QED
    BY <1>1, <1>2, <1>3, <2>1 DEF FoundGoes
<1> QED
  BY <1>4, <1>5, <1>6, <1>7 DEF CoreInv

LEMMA AddingTurns ==
    ASSUME WindowHasRoom, CoreInv, Core!AddTurns
    PROVE  CoreInv'
<1>0. PICK x : x = [id |-> written + 1, session |-> session]
  OBVIOUS
<1>1. /\ operation.step = "write" /\ written < TurnBound /\ written' = written + 1
      /\ stored' = stored \cup {x}
      /\ IF operation.op = "save"
         THEN /\ operation' = Core!Idle /\ answer' = answer
              /\ replaced' = [replaced EXCEPT !.turn = written + 1]
         ELSE UNCHANGED <<operation, replaced, answer>>
      /\ UNCHANGED <<newestFirst, records, doomed, purged, session, todo>>
  BY <1>0 DEF Core!AddTurns, Core!Ends, Core!Turn
<1>2. operation.op \in {"save", "feedback"} /\ answer = Core!Silent
  BY <1>1 DEF CoreInv, Steps
<1>3. written \in Nat /\ written' \in 0 .. TurnBound /\ session \in Nat \ {0}
  BY <1>1 DEF CoreInv, CoreTypes, WindowHasRoom
<1>4. \A e \in todo \cup stored : e.id \in 1 .. written
  BY DEF CoreInv, CoreTypes
<1>5. /\ operation' \in [op : {"none", "save", "recall", "feedback", "delete"},
                         step : {"events", "records", "delete", "write", "wait", "done"},
                         strict : BOOLEAN, records : BOOLEAN, overfull : BOOLEAN]
      /\ operation.op = "save" => operation'.op = "none" /\ operation'.step = "done"
      /\ operation.op # "save" => operation' = operation
  <2>1. operation \in [op : {"none", "save", "recall", "feedback", "delete"},
                       step : {"events", "records", "delete", "write", "wait", "done"},
                       strict : BOOLEAN, records : BOOLEAN, overfull : BOOLEAN]
    BY DEF CoreInv, CoreTypes
  <2>2. /\ Core!Idle \in [op : {"none", "save", "recall", "feedback", "delete"},
                          step : {"events", "records", "delete", "write", "wait", "done"},
                          strict : BOOLEAN, records : BOOLEAN, overfull : BOOLEAN]
        /\ Core!Idle.op = "none" /\ Core!Idle.step = "done"
    BY DEF Core!Idle
  <2>3. operation' = IF operation.op = "save" THEN Core!Idle ELSE operation
    BY <1>1
  <2> QED
    BY <2>1, <2>2, <2>3
<1>6. /\ replaced' \in [turns : SUBSET (1 .. written'), records : BOOLEAN, turn : 0 .. written']
      /\ replaced'.turns = replaced.turns /\ replaced'.records = replaced.records
      /\ replaced.turns \subseteq 1 .. written
      /\ operation.op = "save" => replaced'.turn = written + 1
      /\ operation.op # "save" => replaced' = replaced
  <2>1. replaced \in [turns : SUBSET (1 .. written), records : BOOLEAN, turn : 0 .. written]
    BY DEF CoreInv, CoreTypes
  <2>2. 1 .. written \subseteq 1 .. written' /\ 0 .. written \subseteq 0 .. written' /\ written + 1 \in 0 .. written'
    BY <1>1, <1>3
  <2>3. replaced \in [turns : SUBSET (1 .. written'), records : BOOLEAN, turn : 0 .. written']
    BY <2>1, <2>2
  <2> QED
    BY <1>1, <2>1, <2>2, <2>3
<1>7. CoreTypes'
  <2>1. 1 .. written \subseteq 1 .. written' /\ written + 1 \in 1 .. written'
    BY <1>1, <1>3
  <2>2. x \in [id : 1 .. written', session : 1 .. session]
    BY <1>0, <1>3, <2>1
  <2>3. /\ stored \subseteq [id : 1 .. written, session : 1 .. session]
        /\ todo \subseteq [id : 1 .. written, session : 1 .. session]
        /\ doomed \subseteq 1 .. written /\ records \subseteq 1 .. TurnBound
    BY DEF CoreInv, CoreTypes
  <2>4. [id : 1 .. written, session : 1 .. session] \subseteq [id : 1 .. written', session : 1 .. session]
    BY <2>1
  <2>5. /\ stored' \subseteq [id : 1 .. written', session : 1 .. session]
        /\ todo' \subseteq [id : 1 .. written', session : 1 .. session]
        /\ doomed' \subseteq 1 .. written'
    BY <1>1, <2>1, <2>2, <2>3, <2>4
  <2>6. \A e \in todo \cup stored, f \in stored : e.id = f.id => e = f
    BY DEF CoreInv, CoreTypes
  <2>7. \A e \in todo \cup stored : e.id # x.id
    BY <1>0, <1>3, <1>4
  <2>8. \A e \in todo' \cup stored', f \in stored' : e.id = f.id => e = f
    BY <1>1, <2>6, <2>7
  <2> QED
    BY <1>1, <1>3, <1>5, <1>6, <2>3, <2>5, <2>8 DEF CoreTypes
<1>8. Steps'
  BY <1>1, <1>2, <1>5, <1>6 DEF CoreInv, Steps, Core!Silent
<1>9. ReadsWhatStands'
  BY <1>1, <1>2, <1>5 DEF ReadsWhatStands, Core!Silent
<1>10. FoundGoes'
  <2>1. ASSUME NEW id \in replaced.turns PROVE IsGone(id) => IsGone(id)'
    <3>1. id # x.id
      BY <1>0, <1>3, <1>6
    <3> QED
      BY <1>1, <3>1 DEF IsGone
  <2>2. Core!HeldRecords' = Core!HeldRecords
    BY <1>1 DEF Core!HeldRecords
  <2>3. CASE operation.op = "save"
    <3>1. x \in Core!Mine' /\ Core!Held(x)'
      BY <1>0, <1>1, <1>3 DEF CoreInv, CoreTypes, Core!Mine, Core!Held
    <3>2. \A id \in replaced.turns : IsGone(id) /\ (replaced.records => id \notin Core!HeldRecords)
      BY <1>1, <2>3 DEF CoreInv, FoundGoes
    <3>3. x.id = replaced'.turn
      BY <1>0, <1>6, <2>3
    <3> QED
      BY <1>5, <1>6, <2>1, <2>2, <2>3, <3>1, <3>2, <3>3 DEF FoundGoes
  <2>4. CASE operation.op # "save"
    <3>1. /\ operation' = operation /\ replaced' = replaced
      BY <1>5, <1>6, <2>4
    <3>2. \A e \in Core!Mine : Core!Held(e) => e \in Core!Mine' /\ Core!Held(e)'
      BY <1>1 DEF Core!Mine, Core!Held
    <3> QED
      BY <1>2, <2>1, <2>2, <2>4, <3>1, <3>2 DEF CoreInv, FoundGoes
  <2> QED
    BY <2>3, <2>4
<1> QED
  BY <1>7, <1>8, <1>9, <1>10 DEF CoreInv

LEMMA Reopening ==
    ASSUME WindowHasRoom, CoreInv, Core!Reopen
    PROVE  CoreInv'
<1>1. /\ session' = session + 1 /\ operation' = Core!Idle /\ todo' = {} /\ replaced' = Core!Nothing
      /\ answer' = Core!Silent
      /\ UNCHANGED <<newestFirst, written, stored, records, doomed, purged>>
  BY DEF Core!Reopen, Core!service
<1>2. CoreTypes'
  <2>1. /\ written \in 0 .. TurnBound /\ session' \in Nat \ {0} /\ 1 .. session \subseteq 1 .. session'
        /\ stored \subseteq [id : 1 .. written, session : 1 .. session]
    BY <1>1 DEF CoreInv, CoreTypes
  <2>2. stored \subseteq [id : 1 .. written, session : 1 .. session']
    BY <2>1
  <2>3. /\ operation' \in [op : {"none", "save", "recall", "feedback", "delete"},
                           step : {"events", "records", "delete", "write", "wait", "done"},
                           strict : BOOLEAN, records : BOOLEAN, overfull : BOOLEAN]
        /\ replaced' \in [turns : SUBSET (1 .. written), records : BOOLEAN, turn : 0 .. written]
    BY <1>1, <2>1 DEF Core!Idle, Core!Nothing, WindowHasRoom
  <2> QED
    BY <1>1, <2>1, <2>2, <2>3 DEF CoreInv, CoreTypes
<1>3. Steps' /\ FoundGoes' /\ ReadsWhatStands'
  BY <1>1 DEF Steps, FoundGoes, ReadsWhatStands, Core!Idle, Core!Nothing, Core!Silent
<1> QED
  BY <1>2, <1>3 DEF CoreInv

LEMMA CoreGoesOn ==
    ASSUME WindowHasRoom, CoreInv, [Core!Next]_(Core!vars)
    PROVE  CoreInv'
<1>1. ASSUME Core!Fails \/ Core!FeedbackIsThrough \/ Core!Waited PROVE CoreInv'
  <2>1. /\ operation' = Core!Idle /\ todo' \subseteq todo
        /\ UNCHANGED <<Core!service, session, replaced, answer>>
    BY <1>1 DEF Core!Fails, Core!FeedbackIsThrough, Core!Waited, Core!Ends
  <2> QED
    BY <2>1, Ending
<1>2. ASSUME UNCHANGED Core!vars PROVE CoreInv'
  <2>1. UNCHANGED <<newestFirst, written, stored, records, doomed, purged, session, operation, todo, replaced, answer>>
    BY <1>2 DEF Core!vars, Core!service
  <2>2. /\ \A id : IsGone(id)' = IsGone(id)
        /\ Core!Found' = Core!Found /\ Core!Mine' = Core!Mine /\ TurnsHeld' = TurnsHeld
        /\ \A e : Core!Held(e)' = Core!Held(e)
        /\ Core!HeldRecords' = Core!HeldRecords
    BY <2>1 DEF IsGone, Core!Found, Core!Mine, TurnsHeld, Core!Held, Core!HeldRecords
  <2>3. CoreTypes' /\ Steps' /\ ReadsWhatStands'
    BY <2>1, <2>2 DEF CoreInv, CoreTypes, Steps, ReadsWhatStands, Core!Silent
  <2>4. FoundGoes'
    BY <2>1, <2>2 DEF CoreInv, FoundGoes
  <2> QED
    BY <2>3, <2>4 DEF CoreInv
<1> QED
  BY <1>1, <1>2, Vanishing, Extracting, Beginning, ListingEvents, ListingRecords, DeletingEvents,
     PurgingRecords, AddingTurns, Reopening DEF Core!Next

LEMMA CoreTyped == ASSUME WindowHasRoom, CoreInv PROVE Core!TypeOK
BY DEF WindowHasRoom, CoreInv, CoreTypes, Core!TypeOK

LEMMA FoundIsReplaced == ASSUME WindowHasRoom, CoreInv PROVE Core!SaveReplaces
<1> SUFFICES ASSUME replaced.turn # 0
             PROVE  /\ \E e \in Core!Mine : e.id = replaced.turn /\ Core!Held(e)
                    /\ \A e \in Core!Mine : e.id < replaced.turn /\ Core!Held(e) => e.id \notin replaced.turns
                    /\ \A id \in Core!HeldRecords : id < replaced.turn /\ replaced.records => id \notin replaced.turns
  BY DEF Core!SaveReplaces
<1>1. \A id \in replaced.turns : IsGone(id) /\ (replaced.records => id \notin Core!HeldRecords)
  BY DEF CoreInv, FoundGoes
<1> QED
  BY <1>1 DEF CoreInv, FoundGoes, IsGone, Core!Mine, Core!Held

\* Of what a save found and replaced, nothing is read again, whatever the
\* service drops late, extracts meanwhile, or holds for later sessions.
THEOREM SaveAlwaysReplaces == ASSUME WindowHasRoom PROVE Core!Spec => []Core!SaveReplaces
BY CoreStarts, CoreGoesOn, FoundIsReplaced, PTL DEF Core!Spec

LEMMA StandingIsRead == ASSUME CoreInv PROVE Core!ReadIsHonest
BY DEF CoreInv, ReadsWhatStands, TurnsHeld, Core!ReadIsHonest

\* A recall answers with the default only while nothing is stored, and leaves
\* nothing out that its window had room for.
THEOREM ReadIsAlwaysHonest == ASSUME WindowHasRoom PROVE Core!Spec => []Core!ReadIsHonest
BY StandingIsRead, CoreStarts, CoreGoesOn, PTL DEF Core!Spec
----------------------------------------------------------------------------
(* The compilation, for any number of processes, tasks and attempts: the   *)
(* two levels of locks keep to their discipline whoever is cancelled,      *)
(* times out or crashes, and a task that returned its function finds the   *)
(* artifact in the cache.                                                  *)

\* What the code takes for granted: a task is of one process, and Nobody is
\* the holder of a lock that is free.
Setting == /\ Nobody \notin Tasks /\ ProcessOf \in [Tasks -> Processes]
           /\ Retries \in Nat

NoCache == {""}
Outside == Lean!Final \cup {"idle"}

Places ==
    (NoCache \X Outside)
        \cup ({"toolchain", "bridge"} \X {"local", "file", "look", "build", "remove", "publish"})
        \cup ({"artifact"} \X {"local", "file", "look", "ask", "check", "remove", "publish"})

TablesOK ==
    /\ at \in [Tasks -> Places]
    /\ local \in [Processes \X Lean!Caches -> Tasks \cup {Nobody}]
    /\ file \in [Lean!Caches -> Tasks \cup {Nobody}]
    /\ disk \in [Lean!Caches -> {"missing", "stale", "good"}]
    /\ found \subseteq Tasks /\ attempts \in [Tasks -> 0 .. Retries]

\* A task at this place has taken the thread lock of c, and the file lock. The
\* artifact's locks are kept while the bridge is built.
Inside(place, c) == (place[1] = c /\ place[2] # "local") \/ (c = "artifact" /\ place[1] = "bridge")
Behind(place, c) ==
    \/ place[1] = c /\ place[2] \in {"look", "build", "ask", "check", "remove", "publish"}
    \/ c = "artifact" /\ place[1] = "bridge"

\* Each lock is held by exactly the task that is inside it.
FilesAgree == \A c \in Lean!Caches, t \in Tasks : file[c] = t <=> Behind(at[t], c)
LocalsAgree ==
    \A p \in Processes, c \in Lean!Caches : \A t \in Tasks :
        local[<<p, c>>] = t <=> ProcessOf[t] = p /\ Inside(at[t], c)

LockInv == TablesOK /\ FilesAgree /\ LocalsAgree

\* What a task knows of the artifact is true as long as it holds the lock.
KnowsArtifact(t) ==
    /\ Lean!Cache(t) = "bridge" => (t \in found <=> disk["artifact"] = "good")
    /\ Lean!Cache(t) = "artifact" /\ Lean!Step(t) \in {"ask", "check", "remove", "publish"} => disk["artifact"] # "good"
    /\ Lean!Cache(t) \in {"toolchain", "artifact"} \/ Lean!Step(t) = "idle" => t \notin found
    /\ Lean!Step(t) = "done" => disk["artifact"] = "good"

ArtifactInv == \A t \in Tasks : KnowsArtifact(t)

----------------------------------------------------------------------------
(* Where a task goes.                                                      *)

LEMMA PlaceCases ==
    ASSUME NEW place \in Places
    PROVE  /\ place = <<place[1], place[2]>>
           /\ \/ place[1] = "" /\ place[2] \in Lean!Final \cup {"idle"}
              \/ place[1] \in {"toolchain", "bridge"} /\ place[2] \in {"local", "file", "look", "build", "remove", "publish"}
              \/ place[1] = "artifact" /\ place[2] \in {"local", "file", "look", "ask", "check", "remove", "publish"}
  <1>1. CASE place \in NoCache \X Outside
    <2>1. PICK a \in NoCache, b \in Outside : place = <<a, b>>
      BY <1>1
    <2>2. place = <<place[1], place[2]>> /\ place[1] \in NoCache /\ place[2] \in Outside
      BY <2>1
    <2> QED
      BY <2>2 DEF NoCache, Outside
  <1>2. CASE place \in {"toolchain", "bridge"} \X {"local", "file", "look", "build", "remove", "publish"}
    <2>1. PICK a \in {"toolchain", "bridge"}, b \in {"local", "file", "look", "build", "remove", "publish"} : place = <<a, b>>
      BY <1>2
    <2> QED
      BY <2>1
  <1>3. CASE place \in {"artifact"} \X {"local", "file", "look", "ask", "check", "remove", "publish"}
    <2>1. PICK a \in {"artifact"}, b \in {"local", "file", "look", "ask", "check", "remove", "publish"} : place = <<a, b>>
      BY <1>3
    <2> QED
      BY <2>1
  <1> QED
    BY <1>1, <1>2, <1>3 DEF Places

\* The steps that every cache has.
LEMMA CommonSteps ==
    ASSUME NEW place \in Places, place[1] \in Lean!Caches, NEW s \in {"local", "file", "look", "remove", "publish"}
    PROVE  <<place[1], s>> \in Places
  BY DEF Places, Lean!Caches

LEMMA StepMoves ==
    ASSUME at \in [Tasks -> Places], NEW t \in Tasks, NEW s, at' = [at EXCEPT ![t][2] = s]
    PROVE  at' = [at EXCEPT ![t] = <<Lean!Cache(t), s>>]
  <1>1. at[t] = <<Lean!Cache(t), Lean!Step(t)>>
    BY PlaceCases DEF Lean!Cache, Lean!Step
  <1>2. [at[t] EXCEPT ![2] = s] = <<Lean!Cache(t), s>>
    BY <1>1
  <1> QED
    BY <1>2

LEMMA Goes ==
    ASSUME LockInv, NEW t \in Tasks, NEW c \in Lean!Caches, NEW s, at' = [at EXCEPT ![t] = <<c, s>>],
           <<c, s>> \in Places, UNCHANGED <<local, file>>,
           \A d \in Lean!Caches : /\ Behind(<<c, s>>, d) <=> Behind(at[t], d)
                                  /\ Inside(<<c, s>>, d) <=> Inside(at[t], d)
    PROVE  /\ at' \in [Tasks -> Places] /\ local' \in [Processes \X Lean!Caches -> Tasks \cup {Nobody}]
           /\ file' \in [Lean!Caches -> Tasks \cup {Nobody}]
           /\ FilesAgree' /\ LocalsAgree'
  BY DEF LockInv, TablesOK, FilesAgree, LocalsAgree

\* Taking one lock, leaving one, leaving all of them.
LEMMA TakesLocal ==
    ASSUME LockInv, Setting, NEW t \in Tasks, Lean!Step(t) = "local", Lean!AcquireLocal(t)
    PROVE  LockInv'
  <1>1. at[t] \in Places /\ Lean!Cache(t) \in Lean!Caches /\ at' = [at EXCEPT ![t] = <<Lean!Cache(t), "file">>]
    BY PlaceCases, StepMoves DEF LockInv, TablesOK, Lean!AcquireLocal, Lean!Cache, Lean!Step, Lean!Caches, Lean!Final
  <1>2. <<Lean!Cache(t), "file">> \in Places
    BY <1>1, CommonSteps DEF Lean!Cache
  <1> DEFINE l == <<ProcessOf[t], Lean!Cache(t)>>
  <1>3. l \in Processes \X Lean!Caches /\ local[l] = Nobody /\ local' = [local EXCEPT ![l] = t] /\ file' = file
    BY <1>1 DEF Setting, Lean!AcquireLocal
  <1>4. TablesOK'
    BY <1>1, <1>2, <1>3 DEF LockInv, TablesOK, Lean!AcquireLocal
  <1>5. FilesAgree'
    BY <1>1, <1>2, <1>3 DEF LockInv, TablesOK, FilesAgree, Behind, Lean!Cache, Lean!Step, Lean!AcquireLocal
  <1>6. LocalsAgree'
    <2> SUFFICES ASSUME NEW p \in Processes, NEW c \in Lean!Caches, NEW u \in Tasks
                 PROVE  local'[<<p, c>>] = u <=> ProcessOf[u] = p /\ Inside(at'[u], c)
      BY DEF LocalsAgree
    <2>1. local[<<p, c>>] = u <=> ProcessOf[u] = p /\ Inside(at[u], c)
      BY DEF LockInv, LocalsAgree
    <2>2. local'[<<p, c>>] = IF p = ProcessOf[t] /\ c = Lean!Cache(t) THEN t ELSE local[<<p, c>>]
      BY <1>1, <1>3 DEF LockInv, TablesOK
    <2>3. u # t => at'[u] = at[u]
      BY <1>1 DEF LockInv, TablesOK
    <2>4. Inside(at'[t], c) <=> c = Lean!Cache(t) \/ Inside(at[t], c)
      BY <1>1 DEF LockInv, TablesOK, Inside, Lean!Cache, Lean!Step
    <2> QED
      BY <1>3, <2>1, <2>2, <2>3, <2>4 DEF Setting
  <1> QED
    BY <1>4, <1>5, <1>6 DEF LockInv

LEMMA TakesFile ==
    ASSUME LockInv, Setting, NEW t \in Tasks, Lean!AcquireFile(t)
    PROVE  LockInv'
  <1>1. at[t] \in Places /\ Lean!Cache(t) \in Lean!Caches /\ at' = [at EXCEPT ![t] = <<Lean!Cache(t), "look">>]
    BY PlaceCases, StepMoves DEF LockInv, TablesOK, Lean!AcquireFile, Lean!Cache, Lean!Step, Lean!Caches, Lean!Final
  <1>2. <<Lean!Cache(t), "look">> \in Places
    BY <1>1, CommonSteps DEF Lean!Cache
  <1>3. file[Lean!Cache(t)] = Nobody /\ file' = [file EXCEPT ![Lean!Cache(t)] = t] /\ local' = local /\ Lean!Step(t) = "file"
    BY DEF Lean!AcquireFile
  <1>4. TablesOK'
    BY <1>1, <1>2, <1>3 DEF LockInv, TablesOK, Lean!AcquireFile
  <1>5. FilesAgree'
    BY <1>1, <1>2, <1>3 DEF LockInv, TablesOK, FilesAgree, Behind, Lean!Cache, Lean!Step, Setting
  <1>6. LocalsAgree'
    <2>1. \A u \in Tasks, c \in Lean!Caches : Inside(at'[u], c) <=> Inside(at[u], c)
      BY <1>1, <1>3 DEF LockInv, TablesOK, Inside, Lean!Cache, Lean!Step
    <2>2. ASSUME NEW p \in Processes, NEW c \in Lean!Caches, NEW u \in Tasks
          PROVE  local'[<<p, c>>] = u <=> ProcessOf[u] = p /\ Inside(at'[u], c)
      <3>1. local[<<p, c>>] = u <=> ProcessOf[u] = p /\ Inside(at[u], c)
        BY DEF LockInv, LocalsAgree
      <3> QED
        BY <1>3, <2>1, <3>1
    <2> QED
      BY <2>2 DEF LocalsAgree
  <1> QED
    BY <1>4, <1>5, <1>6 DEF LockInv

LEMMA LeavesAll ==
    ASSUME LockInv, Setting, NEW t \in Tasks, NEW s \in Lean!Final, Lean!ReleaseAll(t), at' = [at EXCEPT ![t] = <<"", s>>]
    PROVE  /\ at' \in [Tasks -> Places] /\ local' \in [Processes \X Lean!Caches -> Tasks \cup {Nobody}]
           /\ file' \in [Lean!Caches -> Tasks \cup {Nobody}]
           /\ FilesAgree' /\ LocalsAgree'
  <1>1. <<"", s>> \in Places
    BY DEF Places, NoCache, Outside
  <1>2. \A c \in Lean!Caches : ~Inside(<<"", s>>, c) /\ ~Behind(<<"", s>>, c)
    BY DEF Inside, Behind, Lean!Caches
  <1>3. at'[t] = <<"", s>> /\ \A u \in Tasks : u # t => at'[u] = at[u]
    BY DEF LockInv, TablesOK
  <1>4. FilesAgree'
    <2> SUFFICES ASSUME NEW c \in Lean!Caches, NEW u \in Tasks
                 PROVE  file'[c] = u <=> Behind(at'[u], c)
      BY DEF FilesAgree
    <2>1. file[c] = u <=> Behind(at[u], c)
      BY DEF LockInv, FilesAgree
    <2>2. file'[c] = IF file[c] = t THEN Nobody ELSE file[c]
      BY DEF Lean!ReleaseAll
    <2> QED
      BY <1>2, <1>3, <2>1, <2>2 DEF Setting
  <1>5. LocalsAgree'
    <2> SUFFICES ASSUME NEW p \in Processes, NEW c \in Lean!Caches, NEW u \in Tasks
                 PROVE  local'[<<p, c>>] = u <=> ProcessOf[u] = p /\ Inside(at'[u], c)
      BY DEF LocalsAgree
    <2>1. local[<<p, c>>] = u <=> ProcessOf[u] = p /\ Inside(at[u], c)
      BY DEF LockInv, LocalsAgree
    <2>2. local'[<<p, c>>] = IF local[<<p, c>>] = t THEN Nobody ELSE local[<<p, c>>]
      BY DEF LockInv, TablesOK, Lean!ReleaseAll
    <2> QED
      BY <1>2, <1>3, <2>1, <2>2 DEF Setting
  <1> QED
    BY <1>1, <1>4, <1>5 DEF LockInv, TablesOK, Lean!ReleaseAll

\* Out of the lock of one cache, and on to the next step.
LEMMA LeavesOne ==
    ASSUME LockInv, Setting, NEW t \in Tasks, NEW c \in {"toolchain", "bridge"}, Lean!Cache(t) = c, Behind(at[t], c),
           NEW s, Lean!Release(t, c, <<"artifact", s>>),
           \/ c = "toolchain" /\ s = "local"
           \/ c = "bridge" /\ s = "ask"
    PROVE  /\ at' \in [Tasks -> Places] /\ local' \in [Processes \X Lean!Caches -> Tasks \cup {Nobody}]
           /\ file' \in [Lean!Caches -> Tasks \cup {Nobody}]
           /\ FilesAgree' /\ LocalsAgree'
  <1>1. <<"artifact", s>> \in Places /\ at' = [at EXCEPT ![t] = <<"artifact", s>>] /\ at[t] \in Places
    BY DEF Places, Lean!Release, LockInv, TablesOK
  <1>2. at'[t] = <<"artifact", s>> /\ \A u \in Tasks : u # t => at'[u] = at[u]
    BY <1>1 DEF LockInv, TablesOK
  <1>3. \A d \in Lean!Caches : /\ Inside(at'[t], d) <=> Inside(at[t], d) /\ d # c
                               /\ Behind(at'[t], d) <=> Behind(at[t], d) /\ d # c
    BY <1>2 DEF Inside, Behind, Lean!Cache, Lean!Caches
  <1>4. Inside(at[t], c) /\ c \in Lean!Caches
    BY DEF Behind, Inside, Lean!Cache, Lean!Caches
  <1>5. FilesAgree'
    <2> SUFFICES ASSUME NEW d \in Lean!Caches, NEW u \in Tasks
                 PROVE  file'[d] = u <=> Behind(at'[u], d)
      BY DEF FilesAgree
    <2>1. (file[d] = u <=> Behind(at[u], d)) /\ file[c] = t
      BY <1>4 DEF LockInv, FilesAgree
    <2>2. file'[d] = IF d = c THEN Nobody ELSE file[d]
      BY DEF Lean!Release, LockInv, TablesOK
    <2> QED
      BY <1>2, <1>3, <2>1, <2>2 DEF Setting
  <1>6. LocalsAgree'
    <2> SUFFICES ASSUME NEW p \in Processes, NEW d \in Lean!Caches, NEW u \in Tasks
                 PROVE  local'[<<p, d>>] = u <=> ProcessOf[u] = p /\ Inside(at'[u], d)
      BY DEF LocalsAgree
    <2>1. local[<<p, d>>] = u <=> ProcessOf[u] = p /\ Inside(at[u], d)
      BY DEF LockInv, LocalsAgree
    <2>2. local'[<<p, d>>] = IF p = ProcessOf[t] /\ d = c THEN Nobody ELSE local[<<p, d>>]
      BY DEF Lean!Release, LockInv, TablesOK
    <2>3. p = ProcessOf[t] /\ d = c => local[<<p, d>>] = t
      BY <1>4 DEF LockInv, LocalsAgree
    <2> QED
      BY <1>2, <1>3, <2>1, <2>2, <2>3 DEF Setting
  <1> QED
    BY <1>1, <1>5, <1>6 DEF LockInv, TablesOK, Lean!Release

LEMMA LeaveAgrees ==
    ASSUME LockInv, Setting, NEW t \in Tasks, Lean!Leave(t)
    PROVE  LockInv' /\ at'[t] \in {<<"", "cancelled">>, <<"", "failed">>} /\ \A u \in Tasks : u # t => at'[u] = at[u]
  <1>1. PICK s \in {"cancelled", "failed"} : at' = [at EXCEPT ![t] = <<"", s>>]
    BY DEF Lean!Leave
  <1>2. s \in Lean!Final /\ Lean!ReleaseAll(t)
    BY DEF Lean!Final, Lean!Leave
  <1>3. /\ at' \in [Tasks -> Places] /\ local' \in [Processes \X Lean!Caches -> Tasks \cup {Nobody}]
        /\ file' \in [Lean!Caches -> Tasks \cup {Nobody}]
        /\ FilesAgree' /\ LocalsAgree'
    BY <1>1, <1>2, LeavesAll
  <1>4. LockInv'
    BY <1>3 DEF LockInv, TablesOK, Lean!Leave
  <1> QED
    BY <1>1, <1>4 DEF LockInv, TablesOK

\* The steps that stay behind the lock they are in.
LEMMA StaysBehind ==
    ASSUME NEW place \in Places, NEW s \in {"look", "build", "remove", "publish", "ask", "check"},
           place[1] \in Lean!Caches, place[2] \notin {"local", "file"}
    PROVE  \A d \in Lean!Caches : /\ Behind(<<place[1], s>>, d) <=> Behind(place, d)
                                  /\ Inside(<<place[1], s>>, d) <=> Inside(place, d)
  BY PlaceCases DEF Behind, Inside, Lean!Caches

\* Where a task is, once it goes on behind its lock.
LEMMA StaysBehindAgrees ==
    ASSUME LockInv, NEW t \in Tasks, NEW s \in {"look", "build", "remove", "publish", "ask", "check"},
           Lean!Cache(t) \in Lean!Caches, Lean!Step(t) \notin {"local", "file"}, <<Lean!Cache(t), s>> \in Places,
           at' = [at EXCEPT ![t][2] = s], UNCHANGED <<local, file>>
    PROVE  /\ at' \in [Tasks -> Places] /\ local' \in [Processes \X Lean!Caches -> Tasks \cup {Nobody}]
           /\ file' \in [Lean!Caches -> Tasks \cup {Nobody}]
           /\ FilesAgree' /\ LocalsAgree'
           /\ at'[t] = <<Lean!Cache(t), s>> /\ \A u \in Tasks : u # t => at'[u] = at[u]
  <1>1. at' = [at EXCEPT ![t] = <<Lean!Cache(t), s>>] /\ at[t] \in Places
    BY StepMoves DEF LockInv, TablesOK
  <1>2. \A d \in Lean!Caches : /\ Behind(<<Lean!Cache(t), s>>, d) <=> Behind(at[t], d)
                               /\ Inside(<<Lean!Cache(t), s>>, d) <=> Inside(at[t], d)
    BY <1>1, StaysBehind DEF Lean!Cache, Lean!Step
  <1>3. at'[t] = <<Lean!Cache(t), s>> /\ \A u \in Tasks : u # t => at'[u] = at[u]
    BY <1>1 DEF LockInv, TablesOK
  <1> QED
    BY <1>1, <1>2, <1>3, Goes

\* What a step of one task does to its own place and to the artifact, whatever
\* happens to the locks.
Moves(t) == \A u \in Tasks : u # t => at'[u] = at[u]

LEMMA CompileAgrees ==
    ASSUME LockInv, NEW t \in Tasks, Lean!Compile(t)
    PROVE  LockInv' /\ Moves(t) /\ at'[t] = <<"toolchain", "local">>
  <1>1. <<"toolchain", "local">> \in Places /\ "toolchain" \in Lean!Caches
    BY DEF Places, Lean!Caches
  <1>2. \A d \in Lean!Caches : /\ Behind(<<"toolchain", "local">>, d) <=> Behind(at[t], d)
                               /\ Inside(<<"toolchain", "local">>, d) <=> Inside(at[t], d)
    <2>1. \A d \in Lean!Caches : /\ ~Behind(<<"", "idle">>, d) /\ ~Inside(<<"", "idle">>, d)
                                 /\ ~Behind(<<"toolchain", "local">>, d) /\ ~Inside(<<"toolchain", "local">>, d)
      BY DEF Behind, Inside, Lean!Caches
    <2>2. at[t] = <<"", "idle">>
      BY DEF Lean!Compile
    <2> QED
      BY <2>1, <2>2
  <1>3. /\ at' \in [Tasks -> Places] /\ local' \in [Processes \X Lean!Caches -> Tasks \cup {Nobody}]
        /\ file' \in [Lean!Caches -> Tasks \cup {Nobody}] /\ FilesAgree' /\ LocalsAgree'
    BY <1>1, <1>2, Goes DEF Lean!Compile
  <1> QED
    BY <1>3 DEF LockInv, TablesOK, Moves, Lean!Compile

LEMMA ReadArtifactAgrees ==
    ASSUME LockInv, NEW t \in Tasks, Lean!ReadArtifact(t)
    PROVE  LockInv' /\ Moves(t) /\ at'[t] = <<"bridge", "local">>
  <1>1. <<"bridge", "local">> \in Places /\ "bridge" \in Lean!Caches
    BY DEF Places, Lean!Caches
  <1>2. \A d \in Lean!Caches : /\ Behind(<<"bridge", "local">>, d) <=> Behind(at[t], d)
                               /\ Inside(<<"bridge", "local">>, d) <=> Inside(at[t], d)
    BY DEF Lean!ReadArtifact, Behind, Inside, Lean!Caches
  <1>3. /\ at' \in [Tasks -> Places] /\ local' \in [Processes \X Lean!Caches -> Tasks \cup {Nobody}]
        /\ file' \in [Lean!Caches -> Tasks \cup {Nobody}] /\ FilesAgree' /\ LocalsAgree'
    BY <1>1, <1>2, Goes DEF Lean!ReadArtifact
  <1> QED
    BY <1>3 DEF LockInv, TablesOK, Moves, Lean!ReadArtifact

\* An artifact is neither read nor replaced by a step that only moves a task
\* behind its lock, or out of compile().
Quiet == UNCHANGED <<disk, found>>

Left(t) == at'[t] \in {<<"", "cancelled">>, <<"", "failed">>}

LEMMA RetryAgrees ==
    ASSUME LockInv, Setting, NEW t \in Tasks, at[t] \in {<<"artifact", "ask">>, <<"artifact", "check">>}, Lean!Retry(t)
    PROVE  LockInv' /\ Moves(t) /\ Quiet /\ (at'[t] = <<"artifact", "ask">> \/ Left(t))
  <1>1. CASE attempts[t] = Retries
    BY <1>1, LeaveAgrees DEF Lean!Retry, Lean!Leave, Moves, Left, Quiet
  <1>2. CASE attempts[t] # Retries
    <2>1. /\ Lean!Cache(t) = "artifact" /\ Lean!Step(t) \notin {"local", "file"} /\ <<"artifact", "ask">> \in Places
          /\ "artifact" \in Lean!Caches
      BY DEF Lean!Cache, Lean!Step, Places, Lean!Caches
    <2>2. at' = [at EXCEPT ![t][2] = "ask"] /\ UNCHANGED <<local, file, disk, found>>
      BY <1>2 DEF Lean!Retry
    <2>3. /\ at' \in [Tasks -> Places] /\ local' \in [Processes \X Lean!Caches -> Tasks \cup {Nobody}]
          /\ file' \in [Lean!Caches -> Tasks \cup {Nobody}] /\ FilesAgree' /\ LocalsAgree'
          /\ at'[t] = <<"artifact", "ask">> /\ \A u \in Tasks : u # t => at'[u] = at[u]
      BY <2>1, <2>2, StaysBehindAgrees
    <2>4. attempts' \in [Tasks -> 0 .. Retries]
      <3>1. attempts' = [attempts EXCEPT ![t] = attempts[t] + 1] /\ attempts \in [Tasks -> 0 .. Retries]
        BY <1>2 DEF Lean!Retry, LockInv, TablesOK
      <3>2. attempts[t] + 1 \in 0 .. Retries
        BY <1>2, <3>1 DEF Setting
      <3> QED
        BY <3>1, <3>2
    <2> QED
      BY <2>2, <2>3, <2>4 DEF LockInv, TablesOK, Moves, Quiet
  <1> QED
    BY <1>1, <1>2

LEMMA AskAgrees ==
    ASSUME LockInv, Setting, NEW t \in Tasks, Lean!Ask(t)
    PROVE  /\ LockInv' /\ Moves(t) /\ Quiet /\ at[t] = <<"artifact", "ask">>
           /\ at'[t] \in {<<"artifact", "ask">>, <<"artifact", "check">>} \/ Left(t)
  <1>1. at[t] = <<"artifact", "ask">>
    BY PlaceCases DEF Lean!Ask, Lean!Step, LockInv, TablesOK, Outside, Lean!Final
  <1>2. CASE at' = [at EXCEPT ![t][2] = "check"] /\ UNCHANGED <<local, file, disk, found, attempts, leaving>>
    <2>1. /\ Lean!Cache(t) = "artifact" /\ Lean!Step(t) \notin {"local", "file"} /\ <<"artifact", "check">> \in Places
          /\ "artifact" \in Lean!Caches
      BY <1>1 DEF Lean!Cache, Lean!Step, Places, Lean!Caches
    <2>2. /\ at' \in [Tasks -> Places] /\ local' \in [Processes \X Lean!Caches -> Tasks \cup {Nobody}]
          /\ file' \in [Lean!Caches -> Tasks \cup {Nobody}] /\ FilesAgree' /\ LocalsAgree'
          /\ at'[t] = <<"artifact", "check">> /\ \A u \in Tasks : u # t => at'[u] = at[u]
      BY <1>2, <2>1, StaysBehindAgrees
    <2> QED
      BY <1>1, <1>2, <2>2 DEF LockInv, TablesOK, Moves, Quiet
  <1>3. CASE Lean!Retry(t)
    BY <1>1, <1>3, RetryAgrees
  <1>4. CASE Lean!Leave(t)
    BY <1>1, <1>4, LeaveAgrees DEF Lean!Leave, Moves, Left, Quiet
  <1> QED
    BY <1>2, <1>3, <1>4 DEF Lean!Ask

LEMMA CheckAgrees ==
    ASSUME LockInv, Setting, NEW t \in Tasks, Lean!Check(t)
    PROVE  /\ LockInv' /\ Moves(t) /\ Quiet /\ at[t] = <<"artifact", "check">>
           /\ at'[t] \in {<<"artifact", "ask">>, <<"artifact", "remove">>} \/ Left(t)
  <1>1. at[t] = <<"artifact", "check">>
    BY PlaceCases DEF Lean!Check, Lean!Step, LockInv, TablesOK, Outside, Lean!Final
  <1>2. CASE at' = [at EXCEPT ![t][2] = "remove"] /\ UNCHANGED <<local, file, disk, found, attempts, leaving>>
    <2>1. /\ Lean!Cache(t) = "artifact" /\ Lean!Step(t) \notin {"local", "file"} /\ <<"artifact", "remove">> \in Places
          /\ "artifact" \in Lean!Caches
      BY <1>1 DEF Lean!Cache, Lean!Step, Places, Lean!Caches
    <2>2. /\ at' \in [Tasks -> Places] /\ local' \in [Processes \X Lean!Caches -> Tasks \cup {Nobody}]
          /\ file' \in [Lean!Caches -> Tasks \cup {Nobody}] /\ FilesAgree' /\ LocalsAgree'
          /\ at'[t] = <<"artifact", "remove">> /\ \A u \in Tasks : u # t => at'[u] = at[u]
      BY <1>2, <2>1, StaysBehindAgrees
    <2> QED
      BY <1>1, <1>2, <2>2 DEF LockInv, TablesOK, Moves, Quiet
  <1>3. CASE Lean!Retry(t)
    BY <1>1, <1>3, RetryAgrees
  <1>4. CASE Lean!Leave(t)
    BY <1>1, <1>4, LeaveAgrees DEF Lean!Leave, Moves, Left, Quiet
  <1> QED
    BY <1>2, <1>3, <1>4 DEF Lean!Check

LEMMA GoOnAgrees ==
    ASSUME LockInv, Setting, NEW t \in Tasks, Lean!Step(t) = "look", Lean!InThread(t), Lean!GoOn(t)
    PROVE  /\ LockInv' /\ Moves(t) /\ Quiet
           /\ \/ Lean!Cache(t) = "toolchain" /\ at'[t] = <<"artifact", "local">>
              \/ Lean!Cache(t) = "bridge" /\ t \notin found /\ at'[t] = <<"artifact", "ask">>
              \/ Lean!Cache(t) = "bridge" /\ t \in found /\ at'[t] = <<"", "done">>
              \/ Left(t)
  <1>1. CASE t \in leaving /\ Lean!Leave(t)
    BY <1>1, LeaveAgrees DEF Lean!Leave, Moves, Left, Quiet
  <1>2. Behind(at[t], Lean!Cache(t))
    BY DEF Behind, Lean!Cache, Lean!Step
  <1>3. CASE /\ Lean!Cache(t) = "toolchain" /\ Lean!Release(t, "toolchain", <<"artifact", "local">>)
             /\ UNCHANGED <<disk, found, attempts, leaving>>
    <2>1. /\ at' \in [Tasks -> Places] /\ local' \in [Processes \X Lean!Caches -> Tasks \cup {Nobody}]
          /\ file' \in [Lean!Caches -> Tasks \cup {Nobody}] /\ FilesAgree' /\ LocalsAgree'
      BY <1>2, <1>3, LeavesOne
    <2> QED
      BY <1>3, <2>1 DEF LockInv, TablesOK, Moves, Quiet, Lean!Release
  <1>4. CASE /\ Lean!Cache(t) = "bridge" /\ t \notin found /\ Lean!Release(t, "bridge", <<"artifact", "ask">>)
             /\ UNCHANGED <<disk, found, attempts, leaving>>
    <2>1. /\ at' \in [Tasks -> Places] /\ local' \in [Processes \X Lean!Caches -> Tasks \cup {Nobody}]
          /\ file' \in [Lean!Caches -> Tasks \cup {Nobody}] /\ FilesAgree' /\ LocalsAgree'
      BY <1>2, <1>4, LeavesOne
    <2> QED
      BY <1>4, <2>1 DEF LockInv, TablesOK, Moves, Quiet, Lean!Release
  <1>5. CASE /\ Lean!Cache(t) = "bridge" /\ t \in found /\ Lean!ReleaseAll(t) /\ at' = [at EXCEPT ![t] = <<"", "done">>]
             /\ UNCHANGED <<disk, found, attempts, leaving>>
    <2>1. /\ at' \in [Tasks -> Places] /\ local' \in [Processes \X Lean!Caches -> Tasks \cup {Nobody}]
          /\ file' \in [Lean!Caches -> Tasks \cup {Nobody}] /\ FilesAgree' /\ LocalsAgree'
      BY <1>5, LeavesAll DEF Lean!Final
    <2> QED
      BY <1>5, <2>1 DEF LockInv, TablesOK, Moves, Quiet
  <1> QED
    BY <1>1, <1>3, <1>4, <1>5 DEF Lean!GoOn

LEMMA LookAgrees ==
    ASSUME LockInv, Setting, NEW t \in Tasks, Lean!Look(t)
    PROVE  /\ LockInv' /\ Moves(t) /\ Quiet
           /\ \/ Lean!Cache(t) = "toolchain" /\ at'[t] = <<"artifact", "local">>
              \/ Lean!Cache(t) = "bridge" /\ t \notin found /\ at'[t] = <<"artifact", "ask">>
              \/ Lean!Cache(t) = "bridge" /\ t \in found /\ at'[t] = <<"", "done">>
              \/ at'[t] = <<Lean!Cache(t), "build">> /\ Lean!InThread(t)
              \/ Left(t)
  <1>1. CASE Lean!GoOn(t)
    BY <1>1, GoOnAgrees DEF Lean!Look
  <1>2. CASE at' = [at EXCEPT ![t][2] = "build"] /\ UNCHANGED <<local, file, disk, found, attempts, leaving>>
    <2>1. /\ Lean!Cache(t) \in Lean!Caches /\ Lean!Step(t) \notin {"local", "file"} /\ <<Lean!Cache(t), "build">> \in Places
      BY DEF Lean!Look, Lean!InThread, Places, Lean!Caches
    <2>2. /\ at' \in [Tasks -> Places] /\ local' \in [Processes \X Lean!Caches -> Tasks \cup {Nobody}]
          /\ file' \in [Lean!Caches -> Tasks \cup {Nobody}] /\ FilesAgree' /\ LocalsAgree'
          /\ at'[t] = <<Lean!Cache(t), "build">> /\ \A u \in Tasks : u # t => at'[u] = at[u]
      BY <1>2, <2>1, StaysBehindAgrees
    <2> QED
      BY <1>2, <2>2 DEF LockInv, TablesOK, Moves, Quiet, Lean!Look
  <1> QED
    BY <1>1, <1>2 DEF Lean!Look

LEMMA BuildAgrees ==
    ASSUME LockInv, Setting, NEW t \in Tasks, Lean!Build(t)
    PROVE  LockInv' /\ Moves(t) /\ Quiet /\ Lean!InThread(t) /\ (at'[t] = <<Lean!Cache(t), "remove">> \/ Left(t))
  <1>1. CASE Lean!Leave(t)
    BY <1>1, LeaveAgrees DEF Lean!Build, Lean!Leave, Moves, Left, Quiet
  <1>2. CASE at' = [at EXCEPT ![t][2] = "remove"] /\ UNCHANGED <<local, file, disk, found, attempts, leaving>>
    <2>1. /\ Lean!Cache(t) \in Lean!Caches /\ Lean!Step(t) \notin {"local", "file"} /\ <<Lean!Cache(t), "remove">> \in Places
      BY DEF Lean!Build, Lean!InThread, Places, Lean!Caches
    <2>2. /\ at' \in [Tasks -> Places] /\ local' \in [Processes \X Lean!Caches -> Tasks \cup {Nobody}]
          /\ file' \in [Lean!Caches -> Tasks \cup {Nobody}] /\ FilesAgree' /\ LocalsAgree'
          /\ at'[t] = <<Lean!Cache(t), "remove">> /\ \A u \in Tasks : u # t => at'[u] = at[u]
      BY <1>2, <2>1, StaysBehindAgrees
    <2> QED
      BY <1>2, <2>2 DEF LockInv, TablesOK, Moves, Quiet, Lean!Build
  <1> QED
    BY <1>1, <1>2 DEF Lean!Build

LEMMA RemoveAgrees ==
    ASSUME LockInv, NEW t \in Tasks, Lean!Remove(t)
    PROVE  LockInv' /\ Moves(t) /\ found' = found /\ at'[t] = <<Lean!Cache(t), "publish">> /\ Lean!Cache(t) \in Lean!Caches
  <1>1. at[t] \in Places /\ Lean!Step(t) = "remove"
    BY DEF LockInv, TablesOK, Lean!Remove
  <1>2. Lean!Cache(t) \in Lean!Caches
    BY <1>1, PlaceCases DEF Lean!Cache, Lean!Step, Lean!Caches, Lean!Final
  <1>3. <<Lean!Cache(t), "publish">> \in Places
    BY <1>1, <1>2, CommonSteps DEF Lean!Cache
  <1>4. /\ at' \in [Tasks -> Places] /\ local' \in [Processes \X Lean!Caches -> Tasks \cup {Nobody}]
        /\ file' \in [Lean!Caches -> Tasks \cup {Nobody}] /\ FilesAgree' /\ LocalsAgree'
        /\ at'[t] = <<Lean!Cache(t), "publish">> /\ \A u \in Tasks : u # t => at'[u] = at[u]
    BY <1>1, <1>2, <1>3, StaysBehindAgrees DEF Lean!Remove
  <1> QED
    BY <1>2, <1>4 DEF LockInv, TablesOK, Moves, Lean!Remove

LEMMA PublishAgrees ==
    ASSUME LockInv, Setting, NEW t \in Tasks, Lean!Publish(t)
    PROVE  /\ LockInv' /\ Moves(t) /\ found' = found
           /\ \/ Lean!InThread(t) /\ at'[t] = <<Lean!Cache(t), "look">>
              \/ at[t] = <<"artifact", "publish">> /\ at'[t] = <<"", "done">>
  <1>1. at[t] \in Places /\ Lean!Step(t) = "publish"
    BY DEF LockInv, TablesOK, Lean!Publish
  <1>2. Lean!Cache(t) \in Lean!Caches /\ at[t] = <<Lean!Cache(t), Lean!Step(t)>>
    BY <1>1, PlaceCases DEF Lean!Cache, Lean!Step, Lean!Caches, Lean!Final
  <1>3. CASE Lean!InThread(t)
    <2>1. <<Lean!Cache(t), "look">> \in Places
      BY <1>1, <1>2, CommonSteps DEF Lean!Cache
    <2>2. /\ at' \in [Tasks -> Places] /\ local' \in [Processes \X Lean!Caches -> Tasks \cup {Nobody}]
          /\ file' \in [Lean!Caches -> Tasks \cup {Nobody}] /\ FilesAgree' /\ LocalsAgree'
          /\ at'[t] = <<Lean!Cache(t), "look">> /\ \A u \in Tasks : u # t => at'[u] = at[u]
      BY <1>1, <1>2, <1>3, <2>1, StaysBehindAgrees DEF Lean!Publish
    <2> QED
      BY <1>3, <2>2 DEF LockInv, TablesOK, Moves, Lean!Publish
  <1>4. CASE ~Lean!InThread(t)
    <2>1. at[t] = <<"artifact", "publish">>
      BY <1>1, <1>2, <1>4 DEF Lean!InThread, Lean!Caches
    <2>2. /\ at' \in [Tasks -> Places] /\ local' \in [Processes \X Lean!Caches -> Tasks \cup {Nobody}]
          /\ file' \in [Lean!Caches -> Tasks \cup {Nobody}] /\ FilesAgree' /\ LocalsAgree'
      BY <1>4, LeavesAll DEF Lean!Publish, Lean!Final
    <2> QED
      BY <1>4, <2>1, <2>2 DEF LockInv, TablesOK, Moves, Lean!Publish
  <1> QED
    BY <1>3, <1>4

LEMMA CancelAgrees ==
    ASSUME LockInv, Setting, NEW t \in Tasks, Lean!Cancel(t)
    PROVE  LockInv' /\ Moves(t) /\ Quiet /\ (at' = at \/ Left(t))
  <1>1. CASE UNCHANGED <<at, local, file, disk, found, attempts>>
    BY <1>1 DEF LockInv, TablesOK, FilesAgree, LocalsAgree, Moves, Quiet
  <1>2. CASE /\ Lean!ReleaseAll(t) /\ at' = [at EXCEPT ![t] = <<"", "cancelled">>]
             /\ UNCHANGED <<disk, found, attempts, leaving>>
    <2>1. /\ at' \in [Tasks -> Places] /\ local' \in [Processes \X Lean!Caches -> Tasks \cup {Nobody}]
          /\ file' \in [Lean!Caches -> Tasks \cup {Nobody}] /\ FilesAgree' /\ LocalsAgree'
      BY <1>2, LeavesAll DEF Lean!Final
    <2> QED
      BY <1>2, <2>1 DEF LockInv, TablesOK, Moves, Quiet, Left
  <1> QED
    BY <1>1, <1>2 DEF Lean!Cancel

LEMMA CrashAgrees ==
    ASSUME LockInv, Setting, NEW p \in Processes, Lean!Crash(p)
    PROVE  LockInv' /\ Quiet /\ \A t \in Tasks : at'[t] \in {at[t], <<"", "dead">>}
  <1> DEFINE dying == {t \in Tasks : ProcessOf[t] = p}
  <1>1. /\ at' = [t \in Tasks |-> IF t \in dying THEN <<"", "dead">> ELSE at[t]]
        /\ local' = [l \in DOMAIN local |-> IF l[1] = p THEN Nobody ELSE local[l]]
        /\ file' = [c \in Lean!Caches |-> IF file[c] \in dying THEN Nobody ELSE file[c]]
        /\ UNCHANGED <<disk, found, attempts>>
    BY DEF Lean!Crash
  <1>2. <<"", "dead">> \in Places /\ \A c \in Lean!Caches : ~Inside(<<"", "dead">>, c) /\ ~Behind(<<"", "dead">>, c)
    BY DEF Places, NoCache, Outside, Lean!Final, Inside, Behind, Lean!Caches
  <1>3. FilesAgree'
    <2> SUFFICES ASSUME NEW c \in Lean!Caches, NEW u \in Tasks
                 PROVE  file'[c] = u <=> Behind(at'[u], c)
      BY DEF FilesAgree
    <2>1. file[c] = u <=> Behind(at[u], c)
      BY DEF LockInv, FilesAgree
    <2>2. file'[c] = IF file[c] \in dying THEN Nobody ELSE file[c]
      BY <1>1
    <2>3. at'[u] = IF u \in dying THEN <<"", "dead">> ELSE at[u]
      BY <1>1
    <2> QED
      BY <1>2, <2>1, <2>2, <2>3 DEF Setting
  <1>4. LocalsAgree'
    <2> SUFFICES ASSUME NEW q \in Processes, NEW c \in Lean!Caches, NEW u \in Tasks
                 PROVE  local'[<<q, c>>] = u <=> ProcessOf[u] = q /\ Inside(at'[u], c)
      BY DEF LocalsAgree
    <2>1. local[<<q, c>>] = u <=> ProcessOf[u] = q /\ Inside(at[u], c)
      BY DEF LockInv, LocalsAgree
    <2>2. local'[<<q, c>>] = IF q = p THEN Nobody ELSE local[<<q, c>>]
      BY <1>1 DEF LockInv, TablesOK
    <2>3. at'[u] = IF ProcessOf[u] = p THEN <<"", "dead">> ELSE at[u]
      BY <1>1
    <2> QED
      BY <1>2, <2>1, <2>2, <2>3 DEF Setting
  <1>5. TablesOK'
    BY <1>1, <1>2 DEF LockInv, TablesOK
  <1> QED
    BY <1>1, <1>3, <1>4, <1>5 DEF LockInv, Quiet
----------------------------------------------------------------------------
(* The artifact.                                                           *)

\* What a task knows stays true while it stays where it is and nobody writes
\* the artifact.
LEMMA KnowsStill ==
    ASSUME NEW t, KnowsArtifact(t), at'[t] = at[t], disk'["artifact"] = disk["artifact"],
           t \in found' <=> t \in found
    PROVE  KnowsArtifact(t)'
  BY DEF KnowsArtifact, Lean!Cache, Lean!Step

LEMMA WhereItIs ==
    ASSUME NEW t, NEW c, NEW s, at[t] = <<c, s>>
    PROVE  Lean!Cache(t) = c /\ Lean!Step(t) = s
  BY DEF Lean!Cache, Lean!Step

\* What it has to know where it goes.
LEMMA KnowsAt ==
    ASSUME NEW t, NEW c, NEW s, at'[t] = <<c, s>>,
           c = "bridge" => (t \in found' <=> disk'["artifact"] = "good"),
           c = "artifact" /\ s \in {"ask", "check", "remove", "publish"} => disk'["artifact"] # "good",
           c \in {"toolchain", "artifact"} \/ s = "idle" => t \notin found',
           s = "done" => disk'["artifact"] = "good"
    PROVE  KnowsArtifact(t)'
  BY DEF KnowsArtifact, Lean!Cache, Lean!Step

LEMMA KnowsInThread ==
    ASSUME NEW t, NEW s, KnowsArtifact(t), Lean!InThread(t), at'[t] = <<Lean!Cache(t), s>>, s \notin {"idle", "done"},
           disk'["artifact"] = disk["artifact"], t \in found' <=> t \in found
    PROVE  KnowsArtifact(t)'
  <1>1. /\ Lean!Cache(t) = "bridge" => (t \in found' <=> disk'["artifact"] = "good")
        /\ Lean!Cache(t) # "artifact" /\ (Lean!Cache(t) = "toolchain" => t \notin found')
    BY DEF KnowsArtifact, Lean!InThread
  <1> QED
    BY <1>1, KnowsAt

LEMMA KnowsLeft ==
    ASSUME NEW t, Left(t)
    PROVE  KnowsArtifact(t)'
  <1>1. CASE at'[t] = <<"", "cancelled">>
    BY <1>1, KnowsAt
  <1>2. CASE at'[t] = <<"", "failed">>
    BY <1>2, KnowsAt
  <1> QED
    BY <1>1, <1>2 DEF Left

\* A step that writes nothing concerns only the task that takes it.
LEMMA QuietKeeps ==
    ASSUME ArtifactInv, NEW t \in Tasks, Moves(t), Quiet, KnowsArtifact(t)'
    PROVE  ArtifactInv'
  <1> SUFFICES ASSUME NEW u \in Tasks PROVE KnowsArtifact(u)'
    BY DEF ArtifactInv
  <1>1. CASE u # t
    BY <1>1, KnowsStill DEF ArtifactInv, Moves, Quiet
  <1> QED
    BY <1>1

\* A task that writes the artifact holds its lock, and nobody was done: what it
\* found there was not good.
LEMMA WritesAlone ==
    ASSUME LockInv, ArtifactInv, NEW t \in Tasks, Lean!Cache(t) = "artifact", Lean!Step(t) \in {"remove", "publish"},
           Moves(t), found' = found, KnowsArtifact(t)'
    PROVE  ArtifactInv'
  <1> SUFFICES ASSUME NEW u \in Tasks, u # t PROVE KnowsArtifact(u)'
    BY DEF ArtifactInv
  <1>1. file["artifact"] = t /\ disk["artifact"] # "good"
    BY DEF LockInv, FilesAgree, Behind, Lean!Cache, Lean!Step, Lean!Caches, ArtifactInv, KnowsArtifact
  <1>2. ~Behind(at[u], "artifact")
    BY <1>1 DEF LockInv, FilesAgree, Lean!Caches
  <1>3. /\ Lean!Cache(u) # "bridge" /\ Lean!Step(u) # "done"
        /\ ~(Lean!Cache(u) = "artifact" /\ Lean!Step(u) \in {"ask", "check", "remove", "publish"})
    BY <1>1, <1>2 DEF Behind, Lean!Cache, Lean!Step, ArtifactInv, KnowsArtifact
  <1> QED
    BY <1>3 DEF ArtifactInv, KnowsArtifact, Moves, Lean!Cache, Lean!Step

LEMMA QuietStep ==
    ASSUME LockInv, ArtifactInv, Setting, NEW t \in Tasks,
           \/ Lean!Compile(t) \/ Lean!Look(t) \/ Lean!Build(t) \/ Lean!Ask(t) \/ Lean!Check(t) \/ Lean!TimesOut(t) \/ Lean!Cancel(t)
           \/ Lean!AcquireLocal(t) \/ Lean!AcquireFile(t)
    PROVE  ArtifactInv'
  <1>0. KnowsArtifact(t)
    BY DEF ArtifactInv
  <1>1. CASE Lean!Compile(t)
    <2>1. Lean!Step(t) = "idle" /\ Quiet
      <3>1. at[t] = <<"", "idle">> /\ Quiet
        BY <1>1 DEF Lean!Compile, Quiet
      <3> QED
        BY <3>1, WhereItIs
    <2>2. t \notin found'
      BY <1>0, <2>1 DEF KnowsArtifact, Quiet
    <2>3. KnowsArtifact(t)'
      BY <1>1, <2>2, CompileAgrees, KnowsAt
    <2> QED
      BY <1>1, <2>1, <2>3, CompileAgrees, QuietKeeps
  <1>2. CASE Lean!Look(t)
    <2>1. Moves(t) /\ Quiet
      BY <1>2, LookAgrees
    <2>2. ASSUME Lean!Cache(t) = "toolchain" /\ at'[t] = <<"artifact", "local">>
          PROVE  KnowsArtifact(t)'
      <3>1. t \notin found'
        BY <1>0, <2>1, <2>2 DEF KnowsArtifact, Quiet
      <3> QED
        BY <2>2, <3>1, KnowsAt
    <2>3. ASSUME Lean!Cache(t) = "bridge" /\ t \notin found /\ at'[t] = <<"artifact", "ask">>
          PROVE  KnowsArtifact(t)'
      <3>1. t \notin found' /\ disk'["artifact"] # "good"
        BY <1>0, <2>1, <2>3 DEF KnowsArtifact, Quiet
      <3> QED
        BY <2>3, <3>1, KnowsAt
    <2>4. ASSUME Lean!Cache(t) = "bridge" /\ t \in found /\ at'[t] = <<"", "done">>
          PROVE  KnowsArtifact(t)'
      <3>1. disk'["artifact"] = "good"
        BY <1>0, <2>1, <2>4 DEF KnowsArtifact, Quiet
      <3> QED
        BY <2>4, <3>1, KnowsAt
    <2>5. ASSUME at'[t] = <<Lean!Cache(t), "build">> /\ Lean!InThread(t)
          PROVE  KnowsArtifact(t)'
      BY <1>0, <2>1, <2>5, KnowsInThread DEF Quiet
    <2>6. KnowsArtifact(t)'
      BY <1>2, <2>2, <2>3, <2>4, <2>5, LookAgrees, KnowsLeft
    <2> QED
      BY <2>1, <2>6, QuietKeeps
  <1>3. CASE Lean!Build(t)
    <2>1. ASSUME at'[t] = <<Lean!Cache(t), "remove">> /\ Lean!InThread(t) /\ Quiet
          PROVE  KnowsArtifact(t)'
      BY <1>0, <2>1, KnowsInThread DEF Quiet
    <2> QED
      BY <1>3, <2>1, BuildAgrees, KnowsLeft, QuietKeeps
  <1>4. CASE Lean!Ask(t)
    <2>1. Lean!Cache(t) = "artifact" /\ Lean!Step(t) = "ask" /\ Quiet
      BY <1>4, AskAgrees, WhereItIs
    <2>2. ASSUME at'[t] \in {<<"artifact", "ask">>, <<"artifact", "check">>}
          PROVE  KnowsArtifact(t)'
      <3>1. t \notin found' /\ disk'["artifact"] # "good"
        BY <1>0, <2>1 DEF KnowsArtifact, Quiet
      <3>2. PICK s \in {"ask", "check"} : at'[t] = <<"artifact", s>>
        BY <2>2
      <3> QED
        BY <3>1, <3>2, KnowsAt
    <2> QED
      BY <1>4, <2>2, AskAgrees, KnowsLeft, QuietKeeps
  <1>5. CASE Lean!Check(t)
    <2>1. Lean!Cache(t) = "artifact" /\ Lean!Step(t) = "check" /\ Quiet
      BY <1>5, CheckAgrees, WhereItIs
    <2>2. ASSUME at'[t] \in {<<"artifact", "ask">>, <<"artifact", "remove">>}
          PROVE  KnowsArtifact(t)'
      <3>1. t \notin found' /\ disk'["artifact"] # "good"
        BY <1>0, <2>1 DEF KnowsArtifact, Quiet
      <3>2. PICK s \in {"ask", "remove"} : at'[t] = <<"artifact", s>>
        BY <2>2
      <3> QED
        BY <3>1, <3>2, KnowsAt
    <2> QED
      BY <1>5, <2>2, CheckAgrees, KnowsLeft, QuietKeeps
  <1>6. CASE Lean!TimesOut(t)
    <2>1. Lean!Leave(t) /\ Quiet
      BY <1>6 DEF Lean!TimesOut, Lean!Leave, Quiet
    <2>2. Left(t) /\ Moves(t)
      BY <2>1, LeaveAgrees DEF Left, Moves
    <2> QED
      BY <2>1, <2>2, KnowsLeft, QuietKeeps
  <1>7. CASE Lean!Cancel(t)
    <2>1. ASSUME at' = at /\ Quiet
          PROVE  KnowsArtifact(t)'
      <3>1. at'[t] = at[t] /\ disk'["artifact"] = disk["artifact"] /\ (t \in found' <=> t \in found)
        BY <2>1 DEF Quiet
      <3> QED
        BY <1>0, <3>1, KnowsStill
    <2>2. Moves(t) /\ Quiet /\ (at' = at \/ Left(t))
      BY <1>7, CancelAgrees
    <2> QED
      BY <2>1, <2>2, KnowsLeft, QuietKeeps
  <1>8. CASE Lean!AcquireLocal(t)
    <2>1. /\ at' = [at EXCEPT ![t] = <<Lean!Cache(t), "file">>] /\ Quiet /\ Lean!Step(t) = "local" /\ at \in [Tasks -> Places]
      BY <1>8, StepMoves DEF LockInv, TablesOK, Lean!AcquireLocal, Quiet
    <2>2. at'[t] = <<Lean!Cache(t), "file">> /\ Moves(t)
      BY <2>1 DEF Moves
    <2>3. KnowsArtifact(t)'
      BY <1>0, <2>1, <2>2 DEF KnowsArtifact, Lean!Cache, Lean!Step, Quiet
    <2> QED
      BY <2>1, <2>2, <2>3, QuietKeeps
  <1>9. CASE Lean!AcquireFile(t)
    <2>1. /\ at' = [at EXCEPT ![t] = <<Lean!Cache(t), "look">>] /\ Quiet /\ Lean!Step(t) = "file" /\ at \in [Tasks -> Places]
      BY <1>9, StepMoves DEF LockInv, TablesOK, Lean!AcquireFile, Quiet
    <2>2. at'[t] = <<Lean!Cache(t), "look">> /\ Moves(t)
      BY <2>1 DEF Moves
    <2>3. KnowsArtifact(t)'
      BY <1>0, <2>1, <2>2 DEF KnowsArtifact, Lean!Cache, Lean!Step, Quiet
    <2> QED
      BY <2>1, <2>2, <2>3, QuietKeeps
  <1> QED
    BY <1>1, <1>2, <1>3, <1>4, <1>5, <1>6, <1>7, <1>8, <1>9

LEMMA WriteStep ==
    ASSUME LockInv, ArtifactInv, Setting, NEW t \in Tasks, Lean!ReadArtifact(t) \/ Lean!Remove(t) \/ Lean!Publish(t)
    PROVE  ArtifactInv'
  <1>0. KnowsArtifact(t)
    BY DEF ArtifactInv
  <1>1. CASE Lean!ReadArtifact(t)
    <2>1. Lean!Cache(t) = "artifact" /\ Lean!Step(t) = "look" /\ t \notin found
      <3>1. at[t] = <<"artifact", "look">>
        BY <1>1 DEF Lean!ReadArtifact
      <3>2. Lean!Cache(t) = "artifact" /\ Lean!Step(t) = "look"
        BY <3>1, WhereItIs
      <3> QED
        BY <1>0, <3>2 DEF KnowsArtifact
    <2>2. /\ disk' = disk /\ (t \in found' <=> disk["artifact"] = "good")
          /\ \A u \in Tasks : u # t => (u \in found' <=> u \in found)
      BY <1>1, <2>1 DEF Lean!ReadArtifact
    <2>3. KnowsArtifact(t)'
      <3>1. at'[t] = <<"bridge", "local">>
        BY <1>1, ReadArtifactAgrees
      <3> QED
        BY <2>2, <3>1, KnowsAt
    <2>4. ASSUME NEW u \in Tasks, u # t
          PROVE  KnowsArtifact(u)'
      <3>1. at'[u] = at[u] /\ KnowsArtifact(u)
        BY <1>1, <2>4, ReadArtifactAgrees DEF Moves, ArtifactInv
      <3> QED
        BY <2>2, <2>4, <3>1, KnowsStill
    <2> QED
      BY <2>3, <2>4 DEF ArtifactInv
  <1>2. CASE Lean!Remove(t)
    <2>1. /\ Moves(t) /\ found' = found /\ at'[t] = <<Lean!Cache(t), "publish">> /\ Lean!Cache(t) \in Lean!Caches
          /\ Lean!Step(t) = "remove" /\ disk' = [disk EXCEPT ![Lean!Cache(t)] = "missing"]
          /\ disk \in [Lean!Caches -> {"missing", "stale", "good"}]
      BY <1>2, RemoveAgrees DEF Lean!Remove, LockInv, TablesOK
    <2>2. CASE Lean!Cache(t) = "artifact"
      <3>1. disk'["artifact"] = "missing"
        BY <2>1, <2>2
      <3>2. KnowsArtifact(t)'
        BY <1>0, <2>1, <2>2, <3>1 DEF KnowsArtifact, Lean!Cache, Lean!Step
      <3> QED
        BY <2>1, <2>2, <3>2, WritesAlone
    <2>3. CASE Lean!Cache(t) # "artifact"
      <3>1. disk'["artifact"] = disk["artifact"]
        BY <2>1, <2>3 DEF Lean!Caches
      <3>2. KnowsArtifact(t)'
        BY <1>0, <2>1, <2>3, <3>1 DEF KnowsArtifact, Lean!Cache, Lean!Step
      <3>3. ASSUME NEW u \in Tasks, u # t
            PROVE  KnowsArtifact(u)'
        BY <2>1, <3>1, <3>3, KnowsStill DEF Moves, ArtifactInv
      <3> QED
        BY <3>2, <3>3 DEF ArtifactInv
    <2> QED
      BY <2>2, <2>3
  <1>3. CASE Lean!Publish(t)
    <2>1. /\ Moves(t) /\ found' = found /\ Lean!Step(t) = "publish"
          /\ disk' = [disk EXCEPT ![Lean!Cache(t)] = "good"] /\ disk \in [Lean!Caches -> {"missing", "stale", "good"}]
      BY <1>3, PublishAgrees DEF Lean!Publish, LockInv, TablesOK
    <2>2. CASE at[t] = <<"artifact", "publish">> /\ at'[t] = <<"", "done">>
      <3>1. Lean!Cache(t) = "artifact"
        BY <2>2, WhereItIs
      <3>2. disk'["artifact"] = "good"
        BY <2>1, <3>1 DEF Lean!Caches
      <3>3. KnowsArtifact(t)'
        BY <2>2, <3>2, KnowsAt
      <3> QED
        BY <2>1, <3>1, <3>3, WritesAlone
    <2>3. CASE Lean!InThread(t) /\ at'[t] = <<Lean!Cache(t), "look">>
      <3>1. disk'["artifact"] = disk["artifact"]
        BY <2>1, <2>3 DEF Lean!InThread, Lean!Caches
      <3>2. KnowsArtifact(t)'
        BY <1>0, <2>1, <2>3, <3>1 DEF KnowsArtifact, Lean!Cache, Lean!Step, Lean!InThread
      <3>3. ASSUME NEW u \in Tasks, u # t
            PROVE  KnowsArtifact(u)'
        BY <2>1, <3>1, <3>3, KnowsStill DEF Moves, ArtifactInv
      <3> QED
        BY <3>2, <3>3 DEF ArtifactInv
    <2> QED
      BY <1>3, <2>2, <2>3, PublishAgrees
  <1> QED
    BY <1>1, <1>2, <1>3

LEMMA CrashStep ==
    ASSUME LockInv, ArtifactInv, Setting, NEW p \in Processes, Lean!Crash(p)
    PROVE  ArtifactInv'
  <1> SUFFICES ASSUME NEW t \in Tasks PROVE KnowsArtifact(t)'
    BY DEF ArtifactInv
  <1>1. KnowsArtifact(t) /\ Quiet /\ at'[t] \in {at[t], <<"", "dead">>}
    BY CrashAgrees DEF ArtifactInv
  <1>2. CASE at'[t] = at[t]
    BY <1>1, <1>2, KnowsStill DEF Quiet
  <1>3. CASE at'[t] = <<"", "dead">>
    BY <1>3, KnowsAt
  <1> QED
    BY <1>1, <1>2, <1>3

----------------------------------------------------------------------------
(* Every step keeps the invariant.                                         *)

LEMMA LockInit ==
    ASSUME Setting, Lean!Init
    PROVE  LockInv /\ ArtifactInv
  <1>1. <<"", "idle">> \in Places /\ \A c \in Lean!Caches : ~Inside(<<"", "idle">>, c) /\ ~Behind(<<"", "idle">>, c)
    BY DEF Places, NoCache, Outside, Inside, Behind, Lean!Caches
  <1>2. at = [t \in Tasks |-> <<"", "idle">>] /\ local = [l \in Processes \X Lean!Caches |-> Nobody]
    BY DEF Lean!Init
  <1>3. TablesOK
    <2>0. attempts = [t \in Tasks |-> 0]
      BY DEF Lean!Init
    <2>1. Retries \in Nat /\ 0 \in 0 .. Retries
      BY DEF Setting
    <2>2. attempts \in [Tasks -> 0 .. Retries]
      BY <2>0, <2>1
    <2>3. disk \in [Lean!Caches -> {"missing", "stale", "good"}] /\ found \subseteq Tasks
      BY DEF Lean!Init
    <2>4. file \in [Lean!Caches -> Tasks \cup {Nobody}] /\ local \in [Processes \X Lean!Caches -> Tasks \cup {Nobody}]
      BY DEF Lean!Init
    <2>5. at \in [Tasks -> Places]
      BY <1>1, <1>2
    <2> QED
      BY <2>2, <2>3, <2>4, <2>5 DEF TablesOK
  <1>4. FilesAgree
    BY <1>1, <1>2 DEF Lean!Init, FilesAgree, Setting
  <1>5. LocalsAgree
    BY <1>1, <1>2 DEF LocalsAgree, Setting
  <1>6. ASSUME NEW t \in Tasks
        PROVE  KnowsArtifact(t)
    <2>1. Lean!Cache(t) = "" /\ Lean!Step(t) = "idle"
      BY <1>2, WhereItIs
    <2> QED
      BY <2>1 DEF Lean!Init, KnowsArtifact
  <1> QED
    BY <1>3, <1>4, <1>5, <1>6 DEF LockInv, ArtifactInv

LEMMA LockStep ==
    ASSUME LockInv, Setting, [Lean!Next]_(Lean!vars)
    PROVE  LockInv'
  <1>1. CASE UNCHANGED Lean!vars
    BY <1>1 DEF Lean!vars, LockInv, TablesOK, FilesAgree, LocalsAgree
  <1>2. ASSUME NEW t \in Tasks, Lean!Compile(t)
        PROVE  LockInv'
    BY <1>2, CompileAgrees
  <1>3. ASSUME NEW t \in Tasks, Lean!Work(t)
        PROVE  LockInv'
    <2>1. CASE Lean!AcquireLocal(t)
      BY <2>1, TakesLocal DEF Lean!AcquireLocal
    <2>2. CASE Lean!AcquireFile(t)
      BY <2>2, TakesFile
    <2>3. CASE Lean!Look(t) \/ Lean!ReadArtifact(t) \/ Lean!Build(t)
      BY <2>3, LookAgrees, ReadArtifactAgrees, BuildAgrees
    <2>4. CASE Lean!Ask(t) \/ Lean!Check(t)
      BY <2>4, AskAgrees, CheckAgrees
    <2>5. CASE Lean!Remove(t) \/ Lean!Publish(t)
      BY <2>5, RemoveAgrees, PublishAgrees
    <2> QED
      BY <1>3, <2>1, <2>2, <2>3, <2>4, <2>5 DEF Lean!Work
  <1>4. ASSUME NEW t \in Tasks, Lean!TimesOut(t)
        PROVE  LockInv'
    BY <1>4, LeaveAgrees DEF Lean!TimesOut
  <1>5. ASSUME NEW t \in Tasks, Lean!Cancel(t)
        PROVE  LockInv'
    BY <1>5, CancelAgrees
  <1>6. ASSUME NEW p \in Processes, Lean!Crash(p)
        PROVE  LockInv'
    BY <1>6, CrashAgrees
  <1> QED
    BY <1>1, <1>2, <1>3, <1>4, <1>5, <1>6 DEF Lean!Next

LEMMA ArtifactStep ==
    ASSUME LockInv, ArtifactInv, Setting, [Lean!Next]_(Lean!vars)
    PROVE  ArtifactInv'
  <1>1. CASE UNCHANGED Lean!vars
    <2>1. at' = at /\ disk' = disk /\ found' = found
      BY <1>1 DEF Lean!vars
    <2> SUFFICES ASSUME NEW t \in Tasks PROVE KnowsArtifact(t)'
      BY DEF ArtifactInv
    <2> QED
      BY <2>1, KnowsStill DEF ArtifactInv
  <1>2. ASSUME NEW t \in Tasks, Lean!Compile(t) \/ Lean!TimesOut(t) \/ Lean!Cancel(t)
        PROVE  ArtifactInv'
    BY <1>2, QuietStep
  <1>3. ASSUME NEW t \in Tasks, Lean!Work(t)
        PROVE  ArtifactInv'
    BY <1>3, QuietStep, WriteStep DEF Lean!Work
  <1>4. ASSUME NEW p \in Processes, Lean!Crash(p)
        PROVE  ArtifactInv'
    BY <1>4, CrashStep
  <1> QED
    BY <1>1, <1>2, <1>3, <1>4 DEF Lean!Next

LEMMA LockAlways ==
    ASSUME Setting
    PROVE  Lean!Spec => [](LockInv /\ ArtifactInv)
  <1>1. Lean!Init => LockInv /\ ArtifactInv
    BY LockInit
  <1>2. LockInv /\ ArtifactInv /\ [Lean!Next]_(Lean!vars) => (LockInv /\ ArtifactInv)'
    BY LockStep, ArtifactStep
  <1> QED
    BY <1>1, <1>2, PTL DEF Lean!Spec

LEMMA LocksAreTyped == ASSUME LockInv PROVE Lean!TypeOK
<1>1. \A t \in Tasks : Lean!Cache(t) \in Lean!Caches \cup {""}
  BY PlaceCases DEF LockInv, TablesOK, Lean!Cache, Lean!Caches
<1> QED
  BY <1>1 DEF LockInv, TablesOK, Lean!TypeOK

LEMMA HoldersAreInside == ASSUME LockInv PROVE Lean!NoLockIsAbandoned
<1>1. ASSUME NEW c \in Lean!Caches, file[c] # Nobody
      PROVE  Lean!Cache(file[c]) # ""
  <2>1. PICK t \in Tasks : file[c] = t
    BY <1>1 DEF LockInv, TablesOK
  <2>2. Behind(at[t], c)
    BY <2>1 DEF LockInv, FilesAgree
  <2> QED
    BY <2>1, <2>2 DEF Behind, Lean!Cache, Lean!Caches
<1>2. ASSUME NEW p \in Processes, NEW c \in Lean!Caches, local[<<p, c>>] # Nobody
      PROVE  Lean!Cache(local[<<p, c>>]) # "" /\ ProcessOf[local[<<p, c>>]] = p
  <2>1. PICK t \in Tasks : local[<<p, c>>] = t
    BY <1>2 DEF LockInv, TablesOK
  <2>2. ProcessOf[t] = p /\ Inside(at[t], c)
    BY <2>1 DEF LockInv, LocalsAgree
  <2> QED
    BY <2>1, <2>2 DEF Inside, Lean!Cache, Lean!Caches
<1>3. DOMAIN local = Processes \X Lean!Caches
  BY DEF LockInv, TablesOK
<1>4. ASSUME NEW l \in Processes \X Lean!Caches, local[l] # Nobody
      PROVE  Lean!Cache(local[l]) # "" /\ ProcessOf[local[l]] = l[1]
  <2>1. PICK p \in Processes, c \in Lean!Caches : l = <<p, c>>
    OBVIOUS
  <2>2. l[1] = p
    BY <2>1
  <2> QED
    BY <1>2, <1>4, <2>1, <2>2
<1> QED
  BY <1>1, <1>3, <1>4 DEF Lean!NoLockIsAbandoned

LEMMA LoadedIsThere == ASSUME ArtifactInv PROVE Lean!LoadedIsPublished
BY DEF ArtifactInv, KnowsArtifact, Lean!LoadedIsPublished

----------------------------------------------------------------------------
(* The theorems.                                                           *)

\* The tables keep their types, whatever the tasks do: types of VerifiedCompile's
\* state, of verified_compile/function.py and lean/locking.py.
THEOREM CompileTypeCorrect ==
    ASSUME Setting
    PROVE  Lean!Spec => []Lean!TypeOK
BY LocksAreTyped, LockAlways, PTL

\* Whoever holds a lock of experimental/lean/locking.py is still inside
\* compile(), and a thread lock is held by a task of its own process: no task
\* that was cancelled, timed out, failed or died leaves one taken.
THEOREM NoLockIsEverAbandoned ==
    ASSUME Setting
    PROVE  Lean!Spec => []Lean!NoLockIsAbandoned
BY HoldersAreInside, LockAlways, PTL

\* Two tasks, of one process or of two, are never behind the lock of the same
\* cache: no two read, build, remove or publish the same entry at once.
OneBehindEachLock ==
    \A c \in Lean!Caches : \A t, u \in Tasks : Behind(at[t], c) /\ Behind(at[u], c) => t = u

THEOREM OneIsBehindEachLock ==
    ASSUME Setting
    PROVE  Lean!Spec => []OneBehindEachLock
  <1>1. LockInv => OneBehindEachLock
    BY DEF LockInv, FilesAgree, OneBehindEachLock
  <1> QED
    BY <1>1, LockAlways, PTL

\* A task whose compile() returned its function finds the artifact in the cache,
\* accepted by read_artifact, for as long as the cache lives: nobody removes
\* what another one loaded.
THEOREM LoadedAlwaysPublished ==
    ASSUME Setting
    PROVE  Lean!Spec => []Lean!LoadedIsPublished
BY LoadedIsThere, LockAlways, PTL
===============================================================================
