------------------------------- MODULE Approvals -------------------------------
(***************************************************************************)
(* The way of a tool approval: whoever runs the tools of a thread asks     *)
(* ctx.on_interrupt, the worker parks a future per interrupt and has the   *)
(* request logged, somebody who sees it in the log decides through the     *)
(* coordinator, in the worker's process or from another one.  The asker is *)
(* the cycle of an AIThread, with a batch, or the callback by which the    *)
(* agent of a Claude or Kiro thread asks, one at a time, and outside the   *)
(* cycle's task.                                                           *)
(***************************************************************************)
EXTENDS Naturals, FiniteSets, Sequences, SequencesExt

CONSTANTS Askers,     \* of "agent", "claude", "kiro"
          Ids,        \* interrupts, each raised once
          Decisions,  \* what is decided: "allow", "approve" or "deny"
          DecideBound \* how often somebody decides

VARIABLES
    asker, auto,  \* who asks; KiroAgent.auto_approve
    remote,       \* is the worker in another process than the coordinator?
    linked,       \* is its connection up?
    hosted,       \* has the worker the record of the thread?
    cycle,        \* does a cycle run?
    pending,      \* the keys of record.pending_approvals
    fut,          \* the future of an interrupt
    waiting,      \* the batches that on_interrupt gathers
    told,         \* what the executor was told
    up, down,     \* event and resolve calls between worker and coordinator
    log           \* requests and decisions in the thread's log

vars == <<asker, auto, remote, linked, hosted, cycle, pending, fut, waiting, told, up, down, log>>
kind == <<asker, auto, remote, linked>>

TypeOK ==
    /\ asker \in Askers /\ {auto, remote, linked, hosted, cycle} \subseteq BOOLEAN
    /\ pending \subseteq Ids
    /\ fut \in [Ids -> Decisions \cup {"none", "pending", "cancelled"}]
    /\ told \in [Ids -> {"none", "run", "refuse"}]

Init ==
    /\ asker \in Askers /\ auto \in BOOLEAN /\ (auto => asker = "kiro") /\ remote \in BOOLEAN
    /\ linked = TRUE /\ hosted = TRUE /\ cycle = FALSE
    /\ pending = {} /\ fut = [i \in Ids |-> "none"] /\ waiting = {}
    /\ told = [i \in Ids |-> "none"] /\ up = <<>> /\ down = <<>> /\ log = <<>>

----------------------------------------------------------------------------
Request(id) == [event |-> "request", id |-> id]
Decided(id, decision) == [event |-> "decided", id |-> id, decision |-> decision]

\* Where in the log somebody decides on an interrupt.
DecisionsOn(id) == {i \in DOMAIN log : log[i].event = "decided" /\ log[i].id = id}

\* append_event of the worker: into the log, or a call on its way to it.
Route(events) ==
    IF remote
    THEN up' = (IF linked THEN up \o events ELSE up) /\ UNCHANGED log
    ELSE log' = log \o events /\ UNCHANGED up

\* _is_allow, _parse_permission_response; an AIThread hands the decision on.
Allows(decision) == decision \in IF asker = "kiro" THEN {"allow", "approve"} ELSE {"allow"}

\* Mutant: the futures of a batch share one place.
OnInterruptShares(batch) ==
    /\ pending' = pending \cup {Last(batch)}
    /\ fut' = [i \in Ids |-> IF i \in ToSet(batch) THEN "pending" ELSE fut[i]]
    /\ waiting' = waiting \cup {batch}
    /\ Route([i \in DOMAIN batch |-> Request(batch[i])])

\* _on_interrupt up to its gather.
OnInterrupt(batch) ==
    /\ pending' = pending \cup ToSet(batch)
    /\ fut' = [i \in Ids |-> IF i \in ToSet(batch) THEN "pending" ELSE fut[i]]
    /\ waiting' = waiting \cup {batch}
    /\ Route([i \in DOMAIN batch |-> Request(batch[i])])

Fresh == {i \in Ids : fut[i] = "none" /\ told[i] = "none"}

\* The invocation of an AIThread returns with interrupts.
Interrupts ==
    /\ asker = "agent" /\ cycle /\ waiting = {}
    /\ \E i, j \in Fresh : OnInterrupt(IF i = j THEN <<i>> ELSE <<i, j>>)
    /\ UNCHANGED <<kind, hosted, cycle, told, down>>

\* The agent asks: it is refused at once with no cycle on, and allowed at once
\* by a Kiro thread that approves everything.
AsksLeave ==
    /\ asker # "agent"
    /\ \E i \in Fresh :
          \/ auto /\ told' = [told EXCEPT ![i] = "run"] /\ UNCHANGED <<pending, fut, waiting, up, log>>
          \/ ~auto /\ ~cycle /\ told' = [told EXCEPT ![i] = "refuse"]
             /\ UNCHANGED <<pending, fut, waiting, up, log>>
          \/ ~auto /\ cycle /\ hosted /\ OnInterrupt(<<i>>) /\ UNCHANGED told
    /\ UNCHANGED <<kind, hosted, cycle, down>>

\* Mutant: the gather is over with its first future.
GatheredEarly(batch) == \E i \in ToSet(batch) : fut[i] \in Decisions

Gathered(batch) == \A i \in ToSet(batch) : fut[i] \in Decisions

\* _on_interrupt returns, and the executor acts on the answers.
Resumes ==
    /\ \E batch \in waiting :
          /\ Gathered(batch)
          /\ waiting' = waiting \ {batch}
          /\ told' = [i \in Ids |-> IF i \in ToSet(batch)
                                    THEN IF Allows(fut[i]) THEN "run" ELSE "refuse"
                                    ELSE told[i]]
    /\ UNCHANGED <<kind, hosted, cycle, pending, fut, up, down, log>>

----------------------------------------------------------------------------
\* Mutant: whoever decides last is obeyed.
WorkerResolvesAgain(id, decision) ==
    IF hosted /\ fut[id] \notin {"none", "cancelled"}
    THEN /\ pending' = pending \ {id} /\ fut' = [fut EXCEPT ![id] = decision]
    ELSE UNCHANGED <<pending, fut>>

\* LocalWorker.resolve_approval.
WorkerResolves(id, decision) ==
    IF hosted /\ id \in pending
    THEN /\ pending' = pending \ {id}
         /\ fut' = IF fut[id] = "pending" THEN [fut EXCEPT ![id] = decision] ELSE fut
    ELSE UNCHANGED <<pending, fut>>

\* Coordinator.resolve_approval: the worker is told, or a task that tells it is
\* started, and the decision is logged, whether or not it decided anything.
ResolveApproval ==
    /\ Cardinality(UNION {DecisionsOn(id) : id \in Ids}) < DecideBound
    /\ linked /\ hosted
    /\ \E id \in Ids, decision \in Decisions :
          /\ Request(id) \in ToSet(log)
          /\ IF remote
             THEN down' = Append(down, Decided(id, decision)) /\ UNCHANGED <<pending, fut>>
             ELSE WorkerResolves(id, decision) /\ UNCHANGED down
          /\ log' = Append(log, Decided(id, decision))
    /\ UNCHANGED <<kind, hosted, cycle, waiting, told, up>>

\* The calls between the two processes arrive in their order.
EventArrives ==
    /\ up # <<>>
    /\ log' = Append(log, Head(up)) /\ up' = Tail(up)
    /\ UNCHANGED <<kind, hosted, cycle, pending, fut, waiting, told, down>>

ResolveArrives ==
    /\ down # <<>> /\ down' = Tail(down)
    /\ WorkerResolves(Head(down).id, Head(down).decision)
    /\ UNCHANGED <<kind, hosted, cycle, waiting, told, up, log>>

----------------------------------------------------------------------------
CycleBegins ==
    /\ ~cycle /\ hosted /\ cycle' = TRUE
    /\ UNCHANGED <<kind, hosted, pending, fut, waiting, told, up, down, log>>

CycleEnds ==
    /\ cycle /\ (asker = "agent" => waiting = {}) /\ cycle' = FALSE
    /\ UNCHANGED <<kind, hosted, pending, fut, waiting, told, up, down, log>>

\* The cycle's task is cancelled: its own gather cancels its futures, the keys
\* stay; a callback of the agent waits on.
Cancelled ==
    /\ cycle /\ cycle' = FALSE
    /\ IF asker = "agent"
       THEN /\ fut' = [i \in Ids |-> IF fut[i] = "pending" THEN "cancelled" ELSE fut[i]]
            /\ waiting' = {}
       ELSE UNCHANGED <<fut, waiting>>
    /\ UNCHANGED <<kind, hosted, pending, told, up, down, log>>

\* The thread is torn down, its record with it.
TornDown ==
    /\ hosted /\ ~cycle /\ hosted' = FALSE /\ pending' = {}
    /\ UNCHANGED <<kind, cycle, fut, waiting, told, up, down, log>>

\* The worker's connection breaks: the thread is failed, so nobody can decide.
Disconnects ==
    /\ remote /\ linked /\ linked' = FALSE /\ up' = <<>> /\ down' = <<>>
    /\ UNCHANGED <<asker, auto, remote, hosted, cycle, pending, fut, waiting, told, log>>

Next ==
    \/ Interrupts \/ AsksLeave \/ Resumes
    \/ ResolveApproval \/ EventArrives \/ ResolveArrives
    \/ CycleBegins \/ CycleEnds \/ Cancelled \/ TornDown \/ Disconnects

Spec == Init /\ [][Next]_vars

----------------------------------------------------------------------------
\* A tool runs or is refused as the log says: by the first decision on its
\* interrupt, which is there before the tool, however many deciders compete.
LogDecides ==
    \A id \in Ids :
        told[id] # "none" /\ fut[id] # "none" =>
            \E i \in DecisionsOn(id) :
                /\ \A j \in DecisionsOn(id) : i <= j
                /\ told[id] = IF Allows(log[i].decision) THEN "run" ELSE "refuse"

\* Nobody waits for a decision that was logged, unless it is on its way or the
\* connection it should take is gone.
NoDecisionIsLost ==
    \A id \in Ids :
        hosted /\ linked /\ fut[id] = "pending" /\ DecisionsOn(id) # {} => \E e \in ToSet(down) : e.id = id
================================================================================
