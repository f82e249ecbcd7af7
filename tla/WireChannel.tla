----------------------------- MODULE WireChannel -----------------------------
(***************************************************************************)
(* The two ends of one connection, each a WireChannel: calls and their     *)
(* answers as frames over a duplex transport, the reader task, the table   *)
(* of pending futures, and close.  The transport keeps the order of the    *)
(* frames of one direction and, when it goes down, loses the last of them. *)
(* A step is what runs between two suspensions of the asyncio loop.        *)
(***************************************************************************)
EXTENDS Naturals, Sequences, FiniteSets

CONSTANTS Sides,        \* the two peers
          Calls         \* call ids

ASSUME ChannelAssumption == Cardinality(Sides) = 2

VARIABLES
    link,      \* is the transport up?
    net,       \* frames on their way to each side
    closing,   \* where close() stands; _closed is any value but "open"
    reader,    \* the reader task
    closeTask, \* sides whose reader has scheduled a close()
    pending,   \* _pending of each side
    by,        \* the side that made each call
    call,      \* where the coroutine of call() stands, or what it returned
    fut,       \* the future it awaits
    handler    \* the _handle_call task of the other side

endVars == <<closing, reader, closeTask>>
callVars == <<pending, by, call, fut>>
vars == <<link, net, endVars, callVars, handler>>

Outcomes == {"value", "error"}
Frame == [kind : {"call"} \cup Outcomes, id : Calls]

\* Outcomes of call(): the answer; "lost", ConnectionClosedError on its
\* future; "refused", the same on entry; "unsent", what Transport.send raised.
Suspended == {"sending", "sent", "waiting"}
Returned == Outcomes \cup {"lost", "refused", "unsent", "cancelled"}

TypeOK ==
    /\ link \in {"up", "down"}
    /\ net \in [Sides -> Seq(Frame)]
    /\ closing \in [Sides -> {"open", "closing", "closed"}]
    /\ reader \in [Sides -> {"reading", "stopping", "ended"}]
    /\ closeTask \in SUBSET Sides
    /\ pending \in [Sides -> SUBSET Calls]
    /\ by \in [Calls -> Sides]
    /\ call \in [Calls -> {"new"} \cup Suspended \cup Returned]
    /\ fut \in [Calls -> {"none", "open", "lost", "cancelled"} \cup Outcomes]
    /\ handler \in [Calls -> {"none", "running", "stopped"} \cup Outcomes]

Init ==
    /\ link = "up"
    /\ net = [s \in Sides |-> <<>>]
    /\ closing = [s \in Sides |-> "open"]
    /\ reader = [s \in Sides |-> "reading"]
    /\ closeTask = {}
    /\ pending = [s \in Sides |-> {}]
    /\ by \in [Calls -> Sides]
    /\ call = [c \in Calls |-> "new"]
    /\ fut = [c \in Calls |-> "none"]
    /\ handler = [c \in Calls |-> "none"]

----------------------------------------------------------------------------
Other(s) == CHOOSE p \in Sides : p # s

Closed(s) == closing[s] # "open"

\* Transport.send: on a transport that is down but has not noticed yet, the
\* frame is accepted and lost.
Deliver(s, kind, c) ==
    net' = IF link = "up" THEN [net EXCEPT ![s] = Append(@, [kind |-> kind, id |-> c])] ELSE net

\* Settle the futures of C that are still open.
Settle(C, outcome) ==
    fut' = [c \in Calls |-> IF c \in C /\ fut[c] = "open" THEN outcome ELSE fut[c]]

Forget(c) == pending' = [pending EXCEPT ![by[c]] = @ \ {c}]

Moves(c, to) == call' = [call EXCEPT ![c] = to]

----------------------------------------------------------------------------
(* call().                                                                 *)

\* Mutant: a channel that is closed still takes calls.
CallAnyway(c) ==
    /\ call[c] = "new"
    /\ Moves(c, "sending")
    /\ fut' = [fut EXCEPT ![c] = "open"]
    /\ pending' = [pending EXCEPT ![by[c]] = @ \cup {c}]
    /\ UNCHANGED <<link, net, endVars, by, handler>>

\* The check of _closed and the entry in _pending are one step.
Call(c) ==
    /\ call[c] = "new"
    /\ \/ /\ Closed(by[c])
          /\ Moves(c, "refused")
          /\ UNCHANGED <<pending, fut>>
       \/ /\ ~Closed(by[c])
          /\ Moves(c, "sending")
          /\ fut' = [fut EXCEPT ![c] = "open"]
          /\ pending' = [pending EXCEPT ![by[c]] = @ \cup {c}]
    /\ UNCHANGED <<link, net, endVars, by, handler>>

\* Transport.send puts the frame on the wire and may suspend once more.
Sends(c) ==
    /\ call[c] = "sending"
    /\ Deliver(Other(by[c]), "call", c)
    /\ Moves(c, "sent")
    /\ UNCHANGED <<link, endVars, pending, by, fut, handler>>

SendReturns(c) ==
    /\ call[c] = "sent"
    /\ Moves(c, "waiting")
    /\ UNCHANGED <<link, net, endVars, pending, by, fut, handler>>

\* Transport.send raises, before or after the frame went out.
SendFails(c) ==
    /\ call[c] \in {"sending", "sent"} /\ link = "down"
    /\ Forget(c)
    /\ Moves(c, "unsent")
    /\ UNCHANGED <<link, net, endVars, by, fut, handler>>

\* Mutant: call() does not await its future.
ReturnsAtOnce(c) ==
    /\ call[c] = "waiting"
    /\ Moves(c, fut[c])
    /\ UNCHANGED <<link, net, endVars, pending, by, fut, handler>>

Returns(c) ==
    /\ call[c] = "waiting" /\ fut[c] # "open"
    /\ Moves(c, fut[c])
    /\ UNCHANGED <<link, net, endVars, pending, by, fut, handler>>

\* The task that awaits call() is cancelled: CancelledError is no Exception,
\* so the table keeps the entry until an answer or close() removes it.
Abandon(c) ==
    /\ call[c] \in Suspended
    /\ Moves(c, "cancelled")
    /\ fut' = [fut EXCEPT ![c] = IF call[c] = "waiting" /\ @ = "open" THEN "cancelled" ELSE @]
    /\ UNCHANGED <<link, net, endVars, pending, by, handler>>

----------------------------------------------------------------------------
(* The reader: _read_loop and _dispatch.                                   *)

\* Mutant: an answer is handed to whatever call is pending.
ResolvesAny(s, f) ==
    /\ f.kind \in Outcomes
    /\ Settle(pending[s], f.kind)
    /\ pending' = [pending EXCEPT ![s] = {}]
    /\ UNCHANGED handler

\* An answer resolves the future of its call, if the table still has it.
Resolves(s, f) ==
    /\ f.kind \in Outcomes
    /\ Settle({f.id} \cap pending[s], f.kind)
    /\ pending' = [pending EXCEPT ![s] = @ \ {f.id}]
    /\ UNCHANGED handler

\* A call frame starts a _handle_call task of its own.
Handles(s, f) ==
    /\ f.kind = "call"
    /\ handler' = [handler EXCEPT ![f.id] = "running"]
    /\ UNCHANGED <<pending, fut>>

Reads(s) ==
    /\ reader[s] = "reading" /\ net[s] # <<>>
    /\ Resolves(s, Head(net[s])) \/ Handles(s, Head(net[s]))
    /\ net' = [net EXCEPT ![s] = Tail(@)]
    /\ UNCHANGED <<link, endVars, by, call>>

\* Mutant: the reader ends without scheduling a close.
RecvFailsQuietly(s) ==
    /\ reader[s] = "reading" /\ net[s] = <<>> /\ link = "down"
    /\ reader' = [reader EXCEPT ![s] = "ended"]
    /\ UNCHANGED <<link, net, closing, closeTask, callVars, handler>>

\* Transport.recv raises once what had arrived is consumed; the loop ends and
\* schedules a close.
RecvFails(s) ==
    /\ reader[s] = "reading" /\ net[s] = <<>> /\ link = "down"
    /\ reader' = [reader EXCEPT ![s] = "ended"]
    /\ closeTask' = closeTask \cup {s}
    /\ UNCHANGED <<link, net, closing, callVars, handler>>

\* The reader that close() cancelled stops.
ReaderStops(s) ==
    /\ reader[s] = "stopping"
    /\ reader' = [reader EXCEPT ![s] = "ended"]
    /\ UNCHANGED <<link, net, closing, closeTask, callVars, handler>>

----------------------------------------------------------------------------
(* _handle_call on the side that was called.                               *)

\* Mutant: a side that is closing keeps its answers to itself.
AnswersIfOpen(c, outcome) ==
    /\ handler[c] = "running"
    /\ handler' = [handler EXCEPT ![c] = outcome]
    /\ IF Closed(Other(by[c])) THEN UNCHANGED net ELSE Deliver(by[c], outcome, c)
    /\ UNCHANGED <<link, endVars, callVars>>

\* The handler returned or raised; the answer goes out even from a side whose
\* close() has begun, as long as the transport takes it.
Answers(c, outcome) ==
    /\ handler[c] = "running"
    /\ handler' = [handler EXCEPT ![c] = outcome]
    /\ Deliver(by[c], outcome, c)
    /\ UNCHANGED <<link, endVars, callVars>>

\* The handler ends in CancelledError, or its value does not serialise: no
\* frame goes back.
Stops(c) ==
    /\ handler[c] = "running"
    /\ handler' = [handler EXCEPT ![c] = "stopped"]
    /\ UNCHANGED <<link, net, endVars, callVars>>

----------------------------------------------------------------------------
(* close(), and the connection going down.                                 *)

CloseBegins(s) ==
    /\ ~Closed(s)
    /\ Settle(pending[s], "lost")
    /\ pending' = [pending EXCEPT ![s] = {}]
    /\ closing' = [closing EXCEPT ![s] = "closing"]
    /\ reader' = [reader EXCEPT ![s] = IF @ = "reading" THEN "stopping" ELSE @]

UserCloses(s) ==
    /\ CloseBegins(s)
    /\ UNCHANGED <<link, net, closeTask, by, call, handler>>

ScheduledClose(s) ==
    /\ s \in closeTask
    /\ closeTask' = closeTask \ {s}
    /\ \/ CloseBegins(s)
       \/ Closed(s) /\ UNCHANGED <<closing, reader, pending, fut>>
    /\ UNCHANGED <<link, net, by, call, handler>>

\* Mutant: close leaves the transport to itself.
CloseKeepsTransport(s) ==
    /\ closing[s] = "closing" /\ reader[s] = "ended"
    /\ closing' = [closing EXCEPT ![s] = "closed"]
    /\ UNCHANGED <<link, net, reader, closeTask, callVars, handler>>

\* The reader is gone; Transport.close: what was sent before still arrives.
CloseEnds(s) ==
    /\ closing[s] = "closing" /\ reader[s] = "ended"
    /\ closing' = [closing EXCEPT ![s] = "closed"]
    /\ link' = "down"
    /\ UNCHANGED <<net, reader, closeTask, callVars, handler>>

\* The connection breaks: of each direction some last frames are lost.
Breaks ==
    /\ link = "up"
    /\ link' = "down"
    /\ \E n \in [Sides -> 0 .. Cardinality(Calls)] :
          /\ \A s \in Sides : n[s] <= Len(net[s])
          /\ net' = [s \in Sides |-> SubSeq(net[s], 1, n[s])]
    /\ UNCHANGED <<endVars, callVars, handler>>

----------------------------------------------------------------------------
Caller(c) == Sends(c) \/ SendReturns(c) \/ SendFails(c) \/ Returns(c)

Handler(c) == (\E o \in Outcomes : Answers(c, o)) \/ Stops(c)

Reader(s) == Reads(s) \/ RecvFails(s) \/ ReaderStops(s)

Closer(s) == ScheduledClose(s) \/ CloseEnds(s)

Next ==
    \/ \E c \in Calls : Call(c) \/ Caller(c) \/ Abandon(c) \/ Handler(c)
    \/ \E s \in Sides : Reader(s) \/ Closer(s) \/ UserCloses(s)
    \/ Breaks

\* The loop runs what is ready, and every handler ends.
Fairness ==
    /\ \A c \in Calls : WF_vars(Caller(c)) /\ WF_vars(Handler(c))
    /\ \A s \in Sides : WF_vars(Reader(s)) /\ WF_vars(Closer(s))

Spec == Init /\ [][Next]_vars

FairSpec == Spec /\ Fairness

----------------------------------------------------------------------------
\* Whoever is suspended in call() on an open future is in the table of a
\* channel that is still open: an answer or close() will find it.
WaitersAreTracked ==
    \A c \in Calls : call[c] \in Suspended /\ fut[c] = "open" =>
        c \in pending[by[c]] /\ ~Closed(by[c])

\* A caller gets what its own handler produced, and one that is told nothing
\* was sent from a closed channel is right.
AnswersAreTrue ==
    \A c \in Calls :
        /\ fut[c] \in Outcomes => handler[c] = fut[c]
        /\ call[c] \in Outcomes => handler[c] = call[c]
        /\ call[c] = "refused" => handler[c] = "none"

\* As long as the transport is up, an unanswered call is in exactly one place:
\* on its way, in its handler, or on its way back.
OnTheWay(c, s, kinds) == {i \in DOMAIN net[s] : net[s][i].id = c /\ net[s][i].kind \in kinds}

NoCallVanishes ==
    link = "up" =>
        \A c \in Calls : call[c] \in {"sent", "waiting"} /\ fut[c] = "open" =>
            Cardinality(OnTheWay(c, Other(by[c]), {"call"}))
              + (IF handler[c] \in {"running", "stopped"} THEN 1 ELSE 0)
              + Cardinality(OnTheWay(c, by[c], Outcomes)) = 1

\* call() returns, whatever happens to the connection, unless the handler at
\* the other end stopped without an answer.
CallsReturn ==
    \A c \in Calls : call[c] \in Suspended ~> call[c] \in Returned \/ handler[c] = "stopped"

\* When one side closes, so does the other.
ClosingSpreads == \A s \in Sides : Closed(s) ~> (\A p \in Sides : closing[p] = "closed")
=============================================================================
