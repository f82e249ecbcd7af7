------------------------------ MODULE AgentTurns ------------------------------
(***************************************************************************)
(* How a thread that an external agent backs turns what the agent says     *)
(* into events and into the answer of its cycle.  The agent is external:   *)
(* it works at one turn after the other and says, in order, that it writes *)
(* a message, calls a tool, has a tool's result, spent a token, is done.   *)
(* A cycle may be cut off at any await; the agent hears of it only where   *)
(* the code tells it.                                                      *)
(***************************************************************************)
EXTENDS Naturals, FiniteSets, Sequences, SequencesExt

CONSTANTS Backends,    \* of "codex", "claude", "kiro"
          TurnBound,   \* how many turns there are
          SayBound     \* how much the agent says but for the ends of its turns

VARIABLES
    backend,
    turn,      \* the turn the thread is in, 0 between two turns
    turns,     \* turns begun so far
    agent,     \* turns the agent has still to do or does, in order
    open,      \* what its present turn began: tool calls, and messages of Codex
    said,      \* how much it has said; numbers its messages and calls
    cost,      \* what it spent on each turn
    wire,      \* what it said and the thread has not read
    started,   \* _Turn.started
    heard,     \* the turns whose words are in the answer being put together
    tally,     \* usage added up over the turn
    log,       \* the events of the thread
    answers    \* what its cycles returned

vars == <<backend, turn, turns, agent, open, said, cost, wire, started, heard, tally, log, answers>>
agentVars == <<agent, open, said, cost>>

TypeOK ==
    /\ backend \in Backends /\ turn \in 0 .. turns /\ turns \in 0 .. TurnBound
    /\ agent \in Seq(1 .. turns) /\ said \in 0 .. SayBound
    /\ started \in BOOLEAN /\ heard \subseteq 1 .. turns
    /\ \A a \in answers : a.turn \in 1 .. turns

Init ==
    /\ backend \in Backends /\ turn = 0 /\ turns = 0
    /\ agent = <<>> /\ open = {} /\ said = 0 /\ cost = [t \in 1 .. TurnBound |-> 0]
    /\ wire = <<>> /\ started = FALSE /\ heard = {} /\ tally = 0
    /\ log = <<>> /\ answers = {}

----------------------------------------------------------------------------
(* The agent.                                                              *)

Says(kind, id) ==
    /\ agent # <<>>
    /\ wire' = Append(wire, [kind |-> kind, turn |-> Head(agent), id |-> id])

\* A message costs a token.  Codex announces it first and tells the price apart.
Writes ==
    /\ said < SayBound /\ said' = said + 1
    /\ \/ backend # "codex" /\ Says("message", said') /\ cost' = [cost EXCEPT ![Head(agent)] = @ + 1]
          /\ UNCHANGED open
       \/ backend = "codex" /\ Says("begun", said') /\ open' = open \cup {[message |-> said']}
          /\ UNCHANGED cost
       \/ backend = "codex" /\ Says("usage", said') /\ cost' = [cost EXCEPT ![Head(agent)] = @ + 1]
          /\ UNCHANGED open
    /\ UNCHANGED agent

Calls ==
    /\ said < SayBound /\ said' = said + 1
    /\ Says("call", said') /\ open' = open \cup {[tool |-> said']}
    /\ cost' = IF backend = "claude" THEN [cost EXCEPT ![Head(agent)] = @ + 1] ELSE cost
    /\ UNCHANGED agent

Finishes ==
    /\ \E item \in open :
          /\ IF "tool" \in DOMAIN item THEN Says("result", item.tool) ELSE Says("message", item.message)
          /\ open' = open \ {item}
    /\ UNCHANGED <<agent, said, cost>>

\* The turn is over, or (Codex, Kiro) has failed half-way.
Ends ==
    /\ \/ open = {} /\ Says("end", 0)
       \/ backend # "claude" /\ Says("error", 0)
    /\ agent' = Tail(agent) /\ open' = {}
    /\ UNCHANGED <<said, cost>>

Agent ==
    /\ Writes \/ Calls \/ Finishes \/ Ends
    /\ UNCHANGED <<backend, turn, turns, started, heard, tally, log, answers>>

----------------------------------------------------------------------------
(* The thread.                                                             *)

Event(kind, u) == [kind |-> kind, id |-> u.id, turn |-> turn, from |-> u.turn]
Emit(events) == log' = log \o events

\* send_turn: the combined prompt goes to the agent.
SendTurn ==
    /\ turn = 0 /\ turns < TurnBound
    /\ turn' = turns + 1 /\ turns' = turns + 1 /\ agent' = Append(agent, turns + 1)
    /\ started' = FALSE /\ heard' = {} /\ tally' = 0
    /\ UNCHANGED <<backend, open, said, cost, wire, log, answers>>

\* The turn's message of Kiro, which the first child event opens.
KiroMessage(kind) == [kind |-> kind, id |-> 0, turn |-> turn, from |-> turn]
EnsureStarted == IF started THEN <<>> ELSE <<KiroMessage("start")>>
Complete == IF started THEN <<KiroMessage("complete")>> ELSE <<>>

Usage(n) == IF n > 0 THEN <<[kind |-> "usage", id |-> n, turn |-> turn, from |-> turn]>> ELSE <<>>

Leaves == turn' = 0 /\ UNCHANGED <<started, heard, tally>>
Returns(of) == Leaves /\ answers' = answers \cup {[turn |-> turn, heard |-> of]}
Raises == Leaves /\ UNCHANGED answers
Stays == UNCHANGED <<turn, answers>>

\* Mutant: the result's total comes on top of the messages' own usage.
ClaudeUsageTwice(u, reported) == tally + (IF reported THEN cost[u.turn] ELSE 0)

\* The richer total of the ResultMessage, else the sum over the messages.
ClaudeUsage(u, reported) == IF reported THEN cost[u.turn] ELSE tally

\* _consume_stream, _emit_events_for; a message arrives whole, with its calls.
Claude(u) ==
    \/ /\ u.kind = "message" /\ Emit(<<Event("start", u), Event("complete", u)>>)
       /\ tally' = tally + 1 /\ Stays /\ UNCHANGED <<started, heard>>
    \/ /\ u.kind = "call" /\ Emit(<<Event("start", u), Event("call", u), Event("complete", u)>>)
       /\ tally' = tally + 1 /\ Stays /\ UNCHANGED <<started, heard>>
    \/ /\ u.kind = "result" /\ Emit(<<Event("result", u)>>) /\ Stays /\ UNCHANGED <<started, heard, tally>>
    \/ /\ u.kind = "end" /\ Returns({u.turn})
       /\ \E reported \in BOOLEAN : Emit(Usage(ClaudeUsage(u, reported)))

\* Mutant: the message is completed only when the prompt was answered.
KiroFailsOpen(u) == u.kind = "error" /\ u.turn = turn /\ Emit(<<>>) /\ Raises

\* session/prompt fails: finally completes the message it has started.
KiroFails(u) == u.kind = "error" /\ u.turn = turn /\ Emit(Complete) /\ Raises

\* _handle_update and _run_turn; the answer of a prompt given up is dropped.
Kiro(u) ==
    \/ /\ u.kind = "message" /\ Emit(EnsureStarted) /\ started' = TRUE
       /\ heard' = heard \cup {u.turn} /\ Stays /\ UNCHANGED tally
    \/ /\ u.kind \in {"call", "result"} /\ Emit(Append(EnsureStarted, Event(u.kind, u))) /\ started' = TRUE
       /\ Stays /\ UNCHANGED <<heard, tally>>
    \/ /\ u.kind = "end" /\ u.turn = turn /\ Returns(heard)
       /\ \E reported \in BOOLEAN : Emit(Complete \o Usage(IF reported THEN cost[turn] ELSE 0))
    \/ KiroFails(u)
    \/ u.kind \in {"end", "error"} /\ u.turn # turn /\ Emit(<<>>) /\ Stays /\ UNCHANGED <<started, heard, tally>>

\* Mutant: whichever turn is over, the stream is.
CodexEndsAny(u) == u.kind \in {"end", "error"}

\* TurnCompletedNotification of the turn that runs.
CodexEnds(u) == u.kind \in {"end", "error"} /\ u.turn = turn

\* _emit_notification, _emit_item_started, _emit_item_completed.
Codex(u) ==
    \/ u.kind = "begun" /\ Emit(<<Event("start", u)>>) /\ Stays /\ UNCHANGED <<started, heard, tally>>
    \/ /\ u.kind = "message" /\ Emit(<<Event("complete", u)>>) /\ heard' = {u.turn}
       /\ Stays /\ UNCHANGED <<started, tally>>
    \/ u.kind \in {"call", "result"} /\ Emit(<<Event(u.kind, u)>>) /\ Stays /\ UNCHANGED <<started, heard, tally>>
    \/ /\ u.kind = "usage" /\ tally' = IF u.turn = turn THEN tally + 1 ELSE tally
       /\ Emit(<<>>) /\ Stays /\ UNCHANGED <<started, heard>>
    \/ /\ CodexEnds(u) /\ Emit(Usage(tally))
       /\ IF u.kind = "end" THEN Returns(heard) ELSE Raises
    \/ u.kind \in {"end", "error"} /\ ~CodexEnds(u) /\ Emit(<<>>) /\ Stays /\ UNCHANGED <<started, heard, tally>>

\* Claude and Codex read while a turn is on; the connection of Kiro always
\* reads, and _handle_update drops what arrives between two turns.
Reads ==
    /\ wire # <<>> /\ wire' = Tail(wire)
    /\ \/ turn # 0 /\ backend = "claude" /\ Claude(Head(wire))
       \/ turn # 0 /\ backend = "codex" /\ Codex(Head(wire))
       \/ turn # 0 /\ backend = "kiro" /\ Kiro(Head(wire))
       \/ turn = 0 /\ backend = "kiro" /\ Emit(<<>>) /\ Stays /\ UNCHANGED <<started, heard, tally>>
    /\ UNCHANGED <<backend, turns, agentVars>>

\* The cycle is cancelled mid-turn.  Kiro completes its message; Codex has its
\* turn interrupted, and what is left to say of it is its price and its end.
\* Neither Claude nor Kiro is told.
CutOff ==
    /\ turn # 0 /\ Raises
    /\ Emit(IF backend = "kiro" THEN Complete ELSE <<>>)
    /\ IF backend = "codex" /\ turn \in ToSet(agent)
       THEN /\ agent' = Tail(agent) /\ open' = {}
            /\ wire' = Append(SelectSeq(wire, LAMBDA u : u.kind = "usage"),
                              [kind |-> "error", turn |-> turn, id |-> 0])
       ELSE /\ wire' = IF backend = "codex" THEN SelectSeq(wire, LAMBDA u : u.kind \in {"usage", "end", "error"})
                       ELSE wire
            /\ UNCHANGED <<agent, open>>
    /\ UNCHANGED <<backend, turns, said, cost>>

Next == Agent \/ SendTurn \/ Reads \/ CutOff

Spec == Init /\ [][Next]_vars

----------------------------------------------------------------------------
Indices(kind) == {i \in DOMAIN log : log[i].kind = kind}
Returned(t) == \E a \in answers : a.turn = t
IsStale(event) == event.from # event.turn

\* Every tool result in the log answers one call before it, but for results
\* that a turn of Kiro left behind: their calls may have been dropped.
ResultsHaveCalls ==
    \A i \in Indices("result") :
        /\ ~(backend = "kiro" /\ IsStale(log[i])) =>
               \E c \in Indices("call") : c < i /\ log[c].id = log[i].id
        /\ \A k \in Indices("result") : log[k].id = log[i].id => k = i

\* Between two turns no message is left open, also when the prompt failed or
\* was cut off; with Codex, when the turn returned.
MessagesAreClosed ==
    turn = 0 => \A i \in Indices("start") :
        \/ backend = "codex" /\ ~Returned(log[i].turn)
        \/ \E c \in Indices("complete") : c > i /\ <<log[c].id, log[c].turn>> = <<log[i].id, log[i].turn>>

\* A turn that answers for itself reports once what it has spent, however many
\* sources report it and whatever turns were cut off before.
UsageIsExact ==
    \A a \in answers : \A i \in Indices("usage") :
        log[i].turn = a.turn /\ a.heard \subseteq {a.turn} =>
            /\ log[i].id = cost[a.turn]
            /\ \A k \in Indices("usage") : log[k].turn = a.turn => k = i

\* A cycle returns what the agent said to its own prompt, all of it.
ReturnsItsOwnAnswer == \A a \in answers : a.heard \subseteq {a.turn} /\ a.turn \notin ToSet(agent)

\* Codex filters by turn, so it does, also after turns that were interrupted.
CodexReturnsItsOwn == backend = "codex" => ReturnsItsOwnAnswer
================================================================================
