------------------------------ MODULE Transcript ------------------------------
(***************************************************************************)
(* From a thread's event log to the messages its model sees, and back:     *)
(* rendering, the healing of tool calls that got no answer, the boundary a *)
(* compaction leaves, and where DefaultSummarizationStrategy cuts.  A text *)
(* is the set of user turns it speaks of: a turn of its own, or for a      *)
(* summary those of the messages the summarizer read.  Events without      *)
(* conversational content are left out: they are filtered everywhere.      *)
(***************************************************************************)
EXTENDS Naturals, FiniteSets, SequencesExt

CONSTANTS PreserveMinMessages,  \* bounds on the tail that is kept verbatim
          PreserveMinTokens,
          PreserveMaxTokens,
          HeavyTurns            \* the turns whose text is long

ASSUME PreserveAssumption ==
    /\ PreserveMinMessages \in Nat \ {0}
    /\ PreserveMinTokens \in Nat /\ PreserveMaxTokens \in Nat
    /\ PreserveMinTokens <= PreserveMaxTokens

----------------------------------------------------------------------------
(* Events and messages.                                                    *)

UserEvent(text) == [kind |-> "user", text |-> text, uses |-> <<>>, history |-> <<>>]
AssistantEvent(uses) == [kind |-> "assistant", text |-> {}, uses |-> uses, history |-> <<>>]
ResultEvent(use) == [kind |-> "result", text |-> {}, uses |-> <<use>>, history |-> <<>>]
SummarizedEvent(history) == [kind |-> "summarized", text |-> {}, uses |-> <<>>, history |-> history]

Renderable(event) == event.kind # "summarized"

Message(role, text, uses, results) ==
    [role |-> role, text |-> text, uses |-> uses, results |-> results]
ResultsMessage(results) == Message("user", {}, <<>>, results)

Sources(messages) == UNION {m.text : m \in ToSet(messages)}

----------------------------------------------------------------------------
(* reconstruct_messages.                                                   *)

IsTurn(event) == event.kind \in {"user", "assistant"}
IsResult(event) == event.kind = "result"

\* Does event i begin a message?  A run of tool results is one user message.
Begins(events, i) ==
    IsTurn(events[i]) \/ (IsResult(events[i]) /\ (i = 1 \/ ~IsResult(events[i - 1])))

\* The length of the run of tool results at event i.
RunLength(events, i) ==
    Cardinality({j \in i .. Len(events) : \A k \in i .. j : IsResult(events[k])})

MessageAt(events, i) ==
    IF IsResult(events[i])
    THEN ResultsMessage([k \in 1 .. RunLength(events, i) |-> events[i + k - 1].uses[1]])
    ELSE Message(events[i].kind, events[i].text, events[i].uses, <<>>)

\* render_renderable_events.
Render(events) ==
    LET begins == SelectSeq([i \in DOMAIN events |-> i], LAMBDA i : Begins(events, i))
    IN  [n \in DOMAIN begins |-> MessageAt(events, begins[n])]

\* The tool calls of message i that the next message does not answer.
Unanswered(messages, i) ==
    LET answered == IF i < Len(messages) THEN ToSet(messages[i + 1].results) ELSE {}
    IN  SelectSeq(messages[i].uses, LAMBDA use : use \notin answered)

HasResults(messages, i) == i <= Len(messages) /\ messages[i].results # <<>>

\* Mutant: a tool call without an answer is left alone.
HealNothing(messages) == messages

\* Answers are added to a message that already holds some, else inserted.
Heal(messages) ==
    FlattenSeq([i \in DOMAIN messages |->
        LET extended == IF i > 1 /\ HasResults(messages, i)
                        THEN [messages[i] EXCEPT !.results = @ \o Unanswered(messages, i - 1)]
                        ELSE messages[i]
            missing == Unanswered(messages, i)
        IN  IF missing # <<>> /\ ~HasResults(messages, i + 1)
            THEN <<extended, ResultsMessage(missing)>> ELSE <<extended>>])

\* The last compaction stands for everything before it.
Boundary(events) == SelectLastInSeq(events, LAMBDA event : event.kind = "summarized")

Reconstruct(events) ==
    LET b == Boundary(events)
        head == IF b = 0 THEN <<>> ELSE Render(events[b].history)
    IN  Heal(head \o Render(SubSeq(events, b + 1, Len(events))))

----------------------------------------------------------------------------
(* DefaultSummarizationStrategy.                                           *)

Tokens(message) ==
    1 + Len(message.results) + 3 * Cardinality(message.text \cap HeavyTurns)

TokensOf(messages) ==
    LET sum[i \in 0 .. Len(messages)] == IF i = 0 THEN 0 ELSE sum[i - 1] + Tokens(messages[i])
    IN  sum[Len(messages)]

From(messages, i) == SubSeq(messages, i, Len(messages))

\* The tail grows backwards from the newest message, which is always in,
\* until it satisfies both floors or the next message would break the ceiling.
FirstKept(messages) ==
    LET n == Len(messages)
        Enough(i) == /\ n - i + 1 >= PreserveMinMessages
                     /\ TokensOf(From(messages, i)) >= PreserveMinTokens
        Fits(i) == i = n \/ TokensOf(From(messages, i)) <= PreserveMaxTokens
    IN  CHOOSE i \in 1 .. n :
            /\ \A j \in i .. n : Fits(j) /\ (j > i => ~Enough(j))
            /\ i = 1 \/ Enough(i) \/ ~Fits(i - 1)

\* A tail may not begin with tool results, nor with a call whose results are
\* not in the next message.
AdjustSplit(messages, i) ==
    LET n == Len(messages)
        Legal(j) == /\ ~HasResults(messages, j)
                    /\ messages[j].uses # <<>> => HasResults(messages, j + 1)
        legal == {j \in i .. n : Legal(j)}
    IN  IF legal = {} THEN n + 1 ELSE Min(legal)

\* How many events of the log _events_producing_prefix takes for the first
\* count messages: it counts the messages of the raw log, knows no boundary
\* and none of the messages that healing inserted.
PrefixLength(events, count) ==
    LET Number(i) == Cardinality({j \in 1 .. i : Begins(events, j)})
        Stops(i) == IF Renderable(events[i]) \/ (i > 1 /\ IsResult(events[i - 1]))
                    THEN Number(i) > count ELSE Number(i) >= count
    IN  Cardinality({i \in DOMAIN events : \A j \in 1 .. i : ~Stops(j)})

\* How many events go to the summarizer; 0 when _split raises: nothing is
\* before the tail, or the newest message alone is over the ceiling.
Split(events) ==
    LET messages == Reconstruct(events)
        first == FirstKept(messages)
    IN  IF messages = <<>> \/ TokensOf(From(messages, first)) > PreserveMaxTokens THEN 0
        ELSE PrefixLength(events, AdjustSplit(messages, first) - 1)

\* Mutant: the first preserved event is lost.
NewHistorySkipsOne(events, k) ==
    <<UserEvent(Sources(Reconstruct(SubSeq(events, 1, k))))>>
        \o SelectSeq(SubSeq(events, k + 2, Len(events)), Renderable)

\* The summary is the answer of a helper thread seeded with the first k
\* events; what the log holds after them is preserved.
NewHistory(events, k) ==
    <<UserEvent(Sources(Reconstruct(SubSeq(events, 1, k))))>>
        \o SelectSeq(SubSeq(events, k + 1, Len(events)), Renderable)
=============================================================================
