------------------------------ MODULE AgentCycle ------------------------------
(***************************************************************************)
(* One AIThread: the cycles its dispatcher runs, one at a time, the inject *)
(* buffer through which every user turn reaches the log and the live       *)
(* Strands agent, the attempts of a cycle, summarize-and-retry, interrupts *)
(* and cancellation.  A step is what runs between two suspensions.  The    *)
(* agent is external: what it does to its message list between the hooks   *)
(* is modelled from what the hooks and reconstruct_messages rely on.       *)
(***************************************************************************)
EXTENDS Transcript

CONSTANTS MaxAttempts,            \* ThreadConfig.max_attempts
          SummarizationEnabled,   \* ThreadConfig.summarization_enabled
          Threshold,              \* ThreadConfig.summarization_threshold, or
          NoThreshold,            \* its None
          MaxSummarizations,      \* _MAX_SUMMARIZATION_ATTEMPTS
          CodeExecution,          \* is code_execution_mode LOCAL?
          PostConditions,         \* are there post-conditions?
          CycleBound,             \* how many cycles there are
          EventBound              \* how many notify calls, tool rounds and approvals

ASSUME CycleAssumption ==
    /\ {MaxAttempts, MaxSummarizations, CycleBound, EventBound} \subseteq Nat
    /\ Threshold = NoThreshold \/ Threshold \in Nat
    /\ {SummarizationEnabled, CodeExecution, PostConditions} \subseteq BOOLEAN

VARIABLES
    log,         \* the event log of the thread
    buffer,      \* _inject_buffer
    agent,       \* messages of the live agent
    pc,          \* where the cycle stands, or how the last one ended
    attempt,     \* the attempt the cycle is in
    fits,        \* ContextFitter._attempts of this invocation
    snapshot,    \* the events the running summarization read
    todo,        \* tool calls of the last assistant turn still to run
    cancel,      \* the cancel signal of the cycle
    enqueued,    \* every turn ever put on the buffer, in order
    cycles, extras   \* counted for the bounds

turnVars == <<log, buffer, agent, enqueued>>
loopVars == <<attempt, fits, snapshot, todo>>
counters == <<cycles, extras>>
vars == <<turnVars, loopVars, pc, cancel, counters>>

Ended == {"idle", "done", "failed", "cancelled", "gone"}
Suspended == {"fit", "summarizing", "retry", "boundary", "gate", "model", "tools", "interrupted", "validate"}

TypeOK ==
    /\ \A e \in ToSet(log) : e.kind \in {"user", "assistant", "result", "summarized"}
    /\ buffer \in Seq(Nat) /\ enqueued \in Seq(Nat)
    /\ pc \in Ended \cup Suspended
    /\ attempt \in 0 .. MaxAttempts + 1 /\ fits \in 0 .. MaxSummarizations
    /\ todo \in Seq(Nat) /\ cancel \in BOOLEAN

Init ==
    /\ log = <<>> /\ buffer = <<>> /\ agent = <<>> /\ enqueued = <<>>
    /\ pc = "idle" /\ cancel = FALSE
    /\ attempt = 0 /\ fits = 0 /\ snapshot = <<>> /\ todo = <<>>
    /\ cycles = 0 /\ extras = 0

----------------------------------------------------------------------------
Running == pc \notin Ended

\* The next turn on the buffer gets the next number.
Enqueue ==
    LET turn == Len(enqueued) + 1
    IN  buffer' = Append(buffer, turn) /\ enqueued' = Append(enqueued, turn)

Goes(to) == pc' = to

\* _emit_usage runs on every way out of an invocation; the event is inert.
CycleEnds(how) ==
    /\ Goes(how) /\ agent' = <<>> /\ cancel' = FALSE
    /\ attempt' = 0 /\ fits' = 0 /\ snapshot' = <<>> /\ todo' = <<>>

----------------------------------------------------------------------------
(* The thread's own methods.                                               *)

Notify ==
    /\ pc # "gone" /\ extras < EventBound
    /\ extras' = extras + 1
    /\ Enqueue
    /\ UNCHANGED <<log, agent, loopVars, pc, cancel, cycles>>

\* execute: bind the arguments, render the prompt, resolve the configuration
\* and the code plan; any of them may raise before the prompt is enqueued.
Execute ==
    /\ ~Running /\ pc # "gone" /\ cycles < CycleBound
    /\ cycles' = cycles + 1
    /\ \/ CycleEnds("failed") /\ UNCHANGED <<log, buffer, enqueued>>
       \/ /\ Enqueue
          /\ Goes("fit") /\ attempt' = 1
          /\ UNCHANGED <<log, agent, fits, snapshot, todo, cancel>>
    /\ UNCHANGED extras

Teardown ==
    /\ ~Running /\ pc # "gone"
    /\ Goes("gone") /\ buffer' = <<>> /\ enqueued' = SubSeq(enqueued, 1, Len(enqueued) - Len(buffer))
    /\ UNCHANGED <<log, agent, loopVars, cancel, counters>>

\* The dispatcher is told to cancel: it sets the signal and, wherever the
\* cycle is suspended, CancelledError may reach it.
CancelSignal ==
    /\ Running /\ ~cancel
    /\ cancel' = TRUE
    /\ UNCHANGED <<turnVars, loopVars, pc, counters>>

CancelledAtAwait ==
    /\ Running /\ cancel
    /\ CycleEnds("cancelled")
    /\ UNCHANGED <<log, buffer, enqueued, counters>>

----------------------------------------------------------------------------
(* _invoke_with_summarization and ContextFitter.                           *)

MayCompact == SummarizationEnabled /\ fits < MaxSummarizations

Overfull(messages) ==
    SummarizationEnabled /\ Threshold # NoThreshold /\ TokensOf(messages) > Threshold

\* Mutant: fit compacts however often it did so before.
FitUnbounded ==
    /\ pc = "fit"
    /\ LET messages == Reconstruct(log)
       IN  IF Overfull(messages)
           THEN /\ Goes("summarizing")
                /\ fits' = fits + 1 /\ snapshot' = log /\ UNCHANGED agent
           ELSE /\ Goes("boundary")
                /\ agent' = messages /\ UNCHANGED <<fits, snapshot>>
    /\ UNCHANGED <<log, buffer, enqueued, attempt, todo, cancel, counters>>

\* fit: read the log, compact while it is over the threshold, build the agent.
Fit ==
    /\ pc = "fit"
    /\ LET messages == Reconstruct(log)
       IN  IF Overfull(messages) /\ MayCompact
           THEN /\ Goes("summarizing")
                /\ fits' = fits + 1 /\ snapshot' = log /\ UNCHANGED agent
           ELSE /\ Goes("boundary")
                /\ agent' = messages /\ UNCHANGED <<fits, snapshot>>
    /\ UNCHANGED <<log, buffer, enqueued, attempt, todo, cancel, counters>>

\* Mutant: past the cap the invocation is tried again as it is.
RetryPastTheCap ==
    /\ pc = "retry"
    /\ IF MayCompact
       THEN /\ Goes("summarizing")
            /\ fits' = fits + 1 /\ snapshot' = log /\ UNCHANGED <<agent, attempt, todo, cancel>>
       ELSE Goes("fit") /\ UNCHANGED <<agent, loopVars, cancel>>
    /\ UNCHANGED <<log, buffer, enqueued, counters>>

\* compact_after_overflow: read the log again, or give up once the cap is used.
CompactAfterOverflow ==
    /\ pc = "retry"
    /\ IF MayCompact
       THEN /\ Goes("summarizing")
            /\ fits' = fits + 1 /\ snapshot' = log /\ UNCHANGED <<agent, attempt, todo, cancel>>
       ELSE CycleEnds("failed")
    /\ UNCHANGED <<log, buffer, enqueued, counters>>

\* _summarize_and_emit: the strategy or its helper thread fails, or the
\* compacted history is appended and the history is read again.
Summarize ==
    /\ pc = "summarizing"
    /\ LET k == Split(snapshot)
       IN  \/ CycleEnds("failed") /\ UNCHANGED log
           \/ /\ k > 0
              /\ log' = Append(log, SummarizedEvent(NewHistory(snapshot, k)))
              /\ Goes("fit") /\ snapshot' = <<>>
              /\ UNCHANGED <<agent, attempt, fits, todo, cancel>>
    /\ UNCHANGED <<buffer, enqueued, counters>>

----------------------------------------------------------------------------
(* The agent and its hooks.                                                *)

UserTurns(turns) == [i \in DOMAIN turns |-> UserEvent({turns[i]})]
UserMessages(turns) == [i \in DOMAIN turns |-> Message("user", {turns[i]}, <<>>, <<>>)]

\* Mutant: what is pending reaches the agent as one message.
BeforeModelCallJoins ==
    /\ pc = "boundary"
    /\ log' = log \o UserTurns(buffer)
    /\ buffer' = <<>>
    /\ IF cancel
       THEN CycleEnds("cancelled")
       ELSE /\ Goes("gate")
            /\ agent' = IF buffer = <<>> THEN agent
                        ELSE Append(agent, Message("user", ToSet(buffer), <<>>, <<>>))
            /\ UNCHANGED <<loopVars, cancel>>
    /\ UNCHANGED <<enqueued, counters>>

\* _on_before_model_call: the buffer goes to the log and to the agent, one
\* event and one message per turn; then the cooperative check.
BeforeModelCall ==
    /\ pc = "boundary"
    /\ log' = log \o UserTurns(buffer)
    /\ buffer' = <<>>
    /\ IF cancel
       THEN CycleEnds("cancelled")
       ELSE /\ Goes("gate")
            /\ agent' = agent \o UserMessages(buffer)
            /\ UNCHANGED <<loopVars, cancel>>
    /\ UNCHANGED <<enqueued, counters>>

\* wait_until_unpaused returns and the call is made.
Unpaused ==
    /\ pc = "gate"
    /\ Goes("model")
    /\ UNCHANGED <<turnVars, loopVars, cancel, counters>>

\* _on_after_model_call.
Replies(uses) ==
    /\ log' = Append(log, AssistantEvent(uses))
    /\ agent' = Append(agent, Message("assistant", {}, uses, <<>>))

Asks ==
    /\ pc = "model" /\ extras < EventBound
    /\ \E n \in 1 .. 2 :
          LET uses == [i \in 1 .. n |-> 2 * extras + i]
          IN  Replies(uses) /\ todo' = uses
    /\ Goes("tools") /\ extras' = extras + 1
    /\ UNCHANGED <<buffer, enqueued, attempt, fits, snapshot, cancel, cycles>>

Answers ==
    /\ pc = "model"
    /\ Replies(<<>>) /\ Goes("validate")
    /\ UNCHANGED <<buffer, enqueued, loopVars, cancel, counters>>

\* ContextWindowOverflowException: the hook finds no response and may have
\* written an empty turn.
Overflows ==
    /\ pc = "model"
    /\ \/ UNCHANGED log
       \/ log' = Append(log, AssistantEvent(<<>>))
    /\ Goes("retry")
    /\ UNCHANGED <<buffer, agent, enqueued, loopVars, cancel, counters>>

\* MaxTokensReachedException, or any other error of the model or the agent.
InvocationFails ==
    /\ pc \in {"model", "tools"}
    /\ CycleEnds("failed")
    /\ UNCHANGED <<log, buffer, enqueued, counters>>

\* The results since the last assistant turn, as the agent collects them.
Collected(events) ==
    LET last == SelectLastInSeq(events, LAMBDA event : event.kind = "assistant")
    IN  Render(SubSeq(events, last + 1, Len(events)))

\* _on_after_tool_call; the agent appends one message when all are done.
ToolReturns ==
    /\ pc = "tools" /\ todo # <<>>
    /\ \E i \in DOMAIN todo :
          /\ log' = Append(log, ResultEvent(todo[i]))
          /\ todo' = RemoveAt(todo, i)
    /\ IF Len(todo) = 1
       THEN agent' = agent \o Collected(log')
       ELSE UNCHANGED agent
    /\ Goes(IF Len(todo) = 1 THEN "boundary" ELSE "tools")
    /\ UNCHANGED <<buffer, enqueued, attempt, fits, snapshot, cancel, counters>>

\* A tool asks for approval: the invocation returns with its interrupts, and
\* the cycle awaits ctx.on_interrupt.
Interrupts ==
    /\ pc = "tools" /\ extras < EventBound
    /\ Goes("interrupted") /\ extras' = extras + 1
    /\ todo' = <<>>
    /\ UNCHANGED <<turnVars, attempt, fits, snapshot, cancel, cycles>>

\* The decisions start a new invocation with a fitter of its own.
Resumes ==
    /\ pc = "interrupted"
    /\ Goes("fit") /\ fits' = 0
    /\ UNCHANGED <<turnVars, attempt, snapshot, todo, cancel, counters>>

----------------------------------------------------------------------------
(* The attempts of a cycle.                                                *)

\* Another attempt with the feedback as a turn, or the last one is used up;
\* the feedback is enqueued either way.
TryAgain ==
    /\ Enqueue
    /\ IF attempt <= MaxAttempts
       THEN /\ Goes("fit") /\ attempt' = attempt + 1 /\ fits' = 0
            /\ UNCHANGED <<agent, snapshot, todo, cancel>>
       ELSE CycleEnds("failed")

\* _extract_result and _validate_result.
Validate ==
    /\ pc = "validate"
    /\ \/ CycleEnds("done") /\ UNCHANGED <<buffer, enqueued>>
       \/ PostConditions /\ TryAgain
       \/ CodeExecution /\ TryAgain
       \/ ~CodeExecution /\ CycleEnds("failed") /\ UNCHANGED <<buffer, enqueued>>
    /\ UNCHANGED <<log, counters>>

----------------------------------------------------------------------------
Invocation ==
    \/ Fit \/ CompactAfterOverflow \/ Summarize
    \/ BeforeModelCall \/ Unpaused
    \/ Asks \/ Answers \/ Overflows \/ InvocationFails
    \/ ToolReturns \/ Interrupts \/ Resumes \/ Validate

Next == Execute \/ Notify \/ Teardown \/ CancelSignal \/ CancelledAtAwait \/ Invocation

\* The loop runs what is ready; models, tools and whoever decides an approval
\* answer in the end, and nobody has to call the thread.  This is WF_vars of
\* Invocation: one of its steps is enabled exactly while the cycle runs, and
\* they are the steps that move pc or todo without ending it by cancellation.
Fairness == []<>~Running \/ []<><<pc' # pc \/ todo' # todo>>_vars

Spec == Init /\ [][Next]_vars /\ Fairness

----------------------------------------------------------------------------
(* Properties.                                                             *)

\* What the model is about to see is what the log reconstructs to (I7), and
\* every tool call in it has its answer in the next message (I10): no drain,
\* tool, interrupt, compaction, cancelled or failed cycle before it lets the
\* live message list and the log drift apart.
AgentSeesLog ==
    pc \in {"gate", "model"} =>
        /\ agent = Reconstruct(log)
        /\ \A i \in DOMAIN agent : Unanswered(agent, i) = <<>>

\* Every turn that was ever enqueued still waits in the buffer or is spoken
\* of by what the log reconstructs to, through any number of compactions.
NothingForgotten == ToSet(enqueued) = ToSet(buffer) \cup Sources(Reconstruct(log))

\* So the conversation is neither distorted nor cut short.
HistoryIsKept == AgentSeesLog /\ NothingForgotten

\* A cycle comes to an end: attempts, compactions and overflows run out.
CycleReturns == Running ~> ~Running

\* A compaction never makes the history longer.
HistoryShrinks ==
    [][pc = "summarizing" /\ log' # log
          => Len(Reconstruct(log')) <= Len(Reconstruct(log))]_vars
=============================================================================
