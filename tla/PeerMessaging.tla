--------------------------- MODULE PeerMessaging ---------------------------
(***************************************************************************)
(* send_message between the threads of one coordinator.  Each peer is the  *)
(* service that ThreadService specifies and ThreadRuntime implements; this *)
(* module adds what coordinator_tools_core.py puts on top of it: the three *)
(* modes of a message and the waits-for graph that keeps two dispatchers   *)
(* from waiting for each other.                                            *)
(***************************************************************************)
EXTENDS Naturals, Sequences, FiniteSets

CONSTANTS Threads, Requests, TerminateAfterIdle,
          NoThread,      \* no wait edge; also the sender of a user's prompt
          CallsAtOnce    \* tool calls a cycle may have in flight together

ASSUME MessagingAssumption ==
    /\ NoThread \notin Threads
    /\ TerminateAfterIdle \notin Requests
    /\ CallsAtOnce \in Nat
    /\ IsFiniteSet(Requests)

VARIABLES line, busy, fut,  \* the threads, as ThreadService has them
          gone,     \* threads that were terminated and deregistered
          edge,     \* _wait_edges of this coordinator: waiter -> target
          sender,   \* the thread a request was sent by
          peer,     \* the thread it was sent to
          tool,     \* where the send_message that sent it stands
          stopped   \* history: waits whose own cycle was cancelled

serviceVars == <<line, busy, fut>>
callVars == <<edge, sender, peer, tool>>
vars == <<serviceVars, gone, callVars, stopped>>

Peer == INSTANCE ThreadService

TypeOK ==
    /\ line \in [Threads -> Seq(Requests \cup {TerminateAfterIdle})]
    /\ busy \in SUBSET Threads
    /\ fut \in [Requests -> {"new", "pending", "result", "error", "cancelled"}]
    /\ gone \in SUBSET Threads
    /\ edge \in [Threads -> Threads \cup {NoThread}]
    /\ sender \in [Requests -> Threads \cup {NoThread}]
    /\ peer \in [Requests -> Threads \cup {NoThread}]
    /\ tool \in [Requests -> {"none", "waiting", "reply", "error", "raised",
                              "watching", "told", "dropped"}]
    /\ stopped \in SUBSET Requests

Init ==
    /\ Peer!Init
    /\ gone = {}
    /\ edge = [t \in Threads |-> NoThread]
    /\ sender = [r \in Requests |-> NoThread]
    /\ peer = [r \in Requests |-> NoThread]
    /\ tool = [r \in Requests |-> "none"]
    /\ stopped = {}

----------------------------------------------------------------------------
\* The blocking sends the cycle of t is suspended in.
Waits(t) == {r \in Requests : tool[r] = "waiting" /\ sender[r] = t}

\* S is closed under the edges: no chain of waits leads out of it.
Closed(S) == \A x \in S : edge[x] # NoThread => edge[x] \in S

\* Mutant: only a direct wait back is looked for.
WouldCloseShortCycle(waiter, target) == waiter = target \/ edge[target] = waiter

\* Mutant: nothing looks for a cycle.
IgnoreCycles(waiter, target) == FALSE

\* The chain of edges from `target` leads to `waiter`.
WouldCloseCycle(waiter, target) ==
    \A S \in SUBSET Threads : target \in S /\ Closed(S) => waiter \in S

\* A cycle of t that is not being cancelled issues one more tool call, to a
\* registered peer.
CanSend(t, u) ==
    /\ t \in busy /\ Cardinality(Waits(t)) < CallsAtOnce
    /\ Waits(t) \cap stopped = {}
    /\ u # t
    /\ u \notin gone

\* peer.run(message), with the status of the tool call that made it.
Send(t, u, r, status) ==
    /\ Peer!Accept(u, r)
    /\ sender' = [sender EXCEPT ![r] = t]
    /\ peer' = [peer EXCEPT ![r] = u]
    /\ tool' = [tool EXCEPT ![r] = status]
    /\ UNCHANGED <<gone, stopped>>

----------------------------------------------------------------------------
\* A user runs a thread.
Prompt(t, r) ==
    /\ t \notin gone
    /\ Send(NoThread, t, r, "none")
    /\ UNCHANGED edge

Begin(t) == Peer!Begin(t) /\ UNCHANGED <<gone, callVars, stopped>>

\* mode="wait": check and register in one step, then suspend.
SendWait(t, u, r) ==
    /\ CanSend(t, u)
    /\ ~WouldCloseCycle(t, u)
    /\ edge' = [edge EXCEPT ![t] = u]
    /\ Send(t, u, r, "waiting")

SendAndForget(t, u, r) ==
    /\ CanSend(t, u)
    /\ Send(t, u, r, "none")
    /\ UNCHANGED edge

SendThenReceive(t, u, r) ==
    /\ CanSend(t, u)
    /\ Send(t, u, r, "watching")
    /\ UNCHANGED edge

\* Mutant: the edge is released only when the peer replied.
WaitReturnsHoldingEdge(r) ==
    /\ tool[r] = "waiting" /\ ~Peer!Pending(r)
    /\ tool' = [tool EXCEPT ![r] = CASE fut[r] = "result" -> "reply"
                                     [] fut[r] = "error"  -> "error"
                                     [] OTHER             -> "raised"]
    /\ edge' = IF fut[r] = "result" THEN [edge EXCEPT ![sender[r]] = NoThread] ELSE edge
    /\ UNCHANGED <<serviceVars, gone, sender, peer, stopped>>

\* The future of a blocking send settled and its tool call resumes: `finally`
\* drops the sender's edge; a CancelledError is no Exception and goes on up.
WaitReturns(r) ==
    /\ tool[r] = "waiting" /\ ~Peer!Pending(r)
    /\ tool' = [tool EXCEPT ![r] = CASE fut[r] = "result" -> "reply"
                                     [] fut[r] = "error"  -> "error"
                                     [] OTHER             -> "raised"]
    /\ edge' = [edge EXCEPT ![sender[r]] = NoThread]
    /\ UNCHANGED <<serviceVars, gone, sender, peer, stopped>>

\* The background task of continue_then_receive: the reply, or the error, is
\* sent as a new prompt n to the sender, if the sender still exists.
Notify(r, n) ==
    /\ tool[r] = "watching" /\ fut[r] \in {"result", "error"}
    /\ IF sender[r] \in gone
       THEN /\ tool' = [tool EXCEPT ![r] = "told"]
            /\ UNCHANGED <<serviceVars, sender, peer>>
       ELSE /\ Peer!Accept(sender[r], n)
            /\ sender' = [sender EXCEPT ![n] = peer[r]]
            /\ peer' = [peer EXCEPT ![n] = sender[r]]
            /\ tool' = [tool EXCEPT ![r] = "told"]
    /\ UNCHANGED <<gone, edge, stopped>>

\* ... but a cancelled future ends that task before it tells anybody.
NotifyDies(r) ==
    /\ tool[r] = "watching" /\ fut[r] = "cancelled"
    /\ tool' = [tool EXCEPT ![r] = "dropped"]
    /\ UNCHANGED <<serviceVars, gone, edge, sender, peer, stopped>>

\* The cycle of t is cancelled while suspended: the cancellation lands in the
\* futures it awaits.
Interrupt(t) ==
    /\ \E r \in Waits(t) : Peer!Pending(r)
    /\ fut' = [r \in Requests |-> IF r \in Waits(t) /\ Peer!Pending(r) THEN "cancelled" ELSE fut[r]]
    /\ stopped' = stopped \cup Waits(t)
    /\ UNCHANGED <<line, busy, gone, callVars>>

\* A cycle ends, once none of its tool calls is suspended.
Answer(t, outcome) ==
    /\ Waits(t) = {}
    /\ Peer!Answer(t, outcome)
    /\ UNCHANGED <<gone, callVars, stopped>>

\* The thread reaches its marker, or terminate_now stopped its cycle: what
\* waits in line is rejected and the thread leaves the registry.
Terminate(t) ==
    /\ t \notin gone
    /\ Peer!Drop(t)
    /\ gone' = gone \cup {t}
    /\ UNCHANGED <<callVars, stopped>>

Next ==
    \/ \E t \in Threads :
          \/ Begin(t) \/ Interrupt(t) \/ Terminate(t)
          \/ \E o \in {"result", "error", "cancelled"} : Answer(t, o)
          \/ \E r \in Requests : Prompt(t, r)
          \/ \E u \in Threads, r \in Requests :
                SendWait(t, u, r) \/ SendAndForget(t, u, r) \/ SendThenReceive(t, u, r)
    \/ \E r \in Requests : WaitReturns(r) \/ NotifyDies(r) \/ \E n \in Requests : Notify(r, n)

Spec == Init /\ [][Next]_vars

\* Dispatchers take what is queued, settled futures wake whoever awaits them,
\* and a cycle that is not suspended in a wait ends.
Fairness ==
    /\ \A t \in Threads : WF_vars(Begin(t)) /\ WF_vars(\E o \in {"result", "error"} : Answer(t, o))
    /\ \A r \in Requests : WF_vars(WaitReturns(r))

FairSpec == Spec /\ Fairness

----------------------------------------------------------------------------
\* The guard's graph is the truth: a thread has an edge exactly while its
\* cycle is suspended in a wait, and it points at the peer waited for.  (One
\* tool call at a time.)
EdgesAreWaits ==
    /\ \A t \in Threads : edge[t] # NoThread <=> Waits(t) # {}
    /\ \A t \in Threads : \A r \in Waits(t) : edge[t] = peer[r]

\* No circle of threads, of any length, in which each is suspended in a wait
\* for a reply of the next: the dispatchers can always drain.
NoCircularWait ==
    \A S \in (SUBSET Threads) \ {{}} :
        \E t \in S : \A r \in Waits(t) : Peer!Pending(r) => peer[r] \notin S

\* Every blocking send_message returns.
WaitsEnd == \A r \in Requests : tool[r] = "waiting" ~> tool[r] # "waiting"
=============================================================================
