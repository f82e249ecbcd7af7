------------------------------- MODULE MCAgents -------------------------------
(***************************************************************************)
(* Small instances of what runs inside a thread, side by side: the cycle   *)
(* of an AIThread, what an agent that owns the conversation of its thread  *)
(* says, the optimizer's feedback through the graph of a result, the       *)
(* economic search, and the translation of contracts.  Each behaviour runs *)
(* one of them, which says which; the others keep still.  v1, v2, ... are  *)
(* the variables of the part that runs, in its own order.                  *)
(***************************************************************************)
EXTENDS AgentCycle

CONSTANTS Backends,             \* AgentTurns
          Numbers, Lists,       \* Contracts
          Ranks, Learners,      \* TextGrad: its threads
          Candidates, Scores    \* EconomicSearch

MCNumbers == {-1, 0, 2}
MCLists == {<<>>, <<2>>, <<2, 0>>, <<0, 2, 2>>}

VARIABLES which, v1, v2, v3, v4, v5, v6, v7, v8, v9, v10, v11, v12, v13

parts == <<v1, v2, v3, v4, v5, v6, v7, v8, v9, v10, v11, v12, v13>>

Turns == INSTANCE AgentTurns
    WITH TurnBound <- 2, SayBound <- 3,
         backend <- v1, turn <- v2, turns <- v3, agent <- v4, open <- v5, said <- v6,
         cost <- v7, wire <- v8, started <- v9, heard <- v10, tally <- v11, log <- v12,
         answers <- v13

Contract == INSTANCE Contracts WITH SizeBound <- 2, body <- v1

Grad == INSTANCE TextGrad
    WITH Threads <- Ranks, PassBound <- 2,
         spawned <- v1, inputs <- v2, learns <- v3, graph <- v4, queue <- v5,
         gradients <- v6, paramGrads <- v7, consolidated <- v8, passes <- v9

\* Even odds, a sure bet at a price, a cheap long shot, one not worth its cost.
Economic == INSTANCE EconomicSearch
    WITH Estimates <- {[p |-> 2, cost |-> 1], [p |-> 4, cost |-> 3], [p |-> 1, cost |-> 1],
                       [p |-> 1, cost |-> 2]},
         Value <- 8, Budget <- 4, MaxTries <- 1, Overrun <- 1, MayCancel <- FALSE,
         SameThread <- FALSE, RunBound <- 1,
         policy <- v1, phase <- v2, thread <- v3, runs <- v4, est <- v5, trying <- v6,
         records <- v7, kept <- v8, delegated <- v9, outcome <- v10, live <- v11,
         contribs <- v12, booked <- v13

AgentsInit ==
    /\ Init
    /\ \/ which = "agent" /\ v1 = 0 /\ v2 = 0 /\ v3 = 0 /\ v4 = 0 /\ v5 = 0 /\ v6 = 0 /\ v7 = 0
            /\ v8 = 0 /\ v9 = 0 /\ v10 = 0 /\ v11 = 0 /\ v12 = 0 /\ v13 = 0
       \/ which = "grad" /\ Grad!Init
            /\ v10 = 0 /\ v11 = 0 /\ v12 = 0 /\ v13 = 0
       \/ which = "economic" /\ Economic!Init
       \/ which = "turns" /\ Turns!Init
       \/ which = "contract" /\ Contract!Init /\ v2 = 0 /\ v3 = 0 /\ v4 = 0 /\ v5 = 0 /\ v6 = 0
            /\ v7 = 0 /\ v8 = 0 /\ v9 = 0 /\ v10 = 0 /\ v11 = 0 /\ v12 = 0 /\ v13 = 0

AgentsNext ==
    \/ which = "agent" /\ Next /\ UNCHANGED <<which, parts>>
    \/ which = "grad" /\ Grad!Next /\ UNCHANGED <<which, vars, v10, v11, v12, v13>>
    \/ which = "economic" /\ Economic!Next /\ UNCHANGED <<which, vars>>
    \/ which = "turns" /\ Turns!Next /\ UNCHANGED <<which, vars>>
    \/ which = "contract" /\ Contract!Next
          /\ UNCHANGED <<which, vars, v2, v3, v4, v5, v6, v7, v8, v9, v10, v11, v12, v13>>

AgentsSpec == AgentsInit /\ [][AgentsNext]_<<which, vars, parts>>

----------------------------------------------------------------------------
\* The type invariant of each part.
TypesOK == /\ TypeOK
           /\ which = "grad" => Grad!TypeOK
           /\ which = "economic" => Economic!TypeOK
           /\ which = "turns" => Turns!TypeOK

\* TextGrad: every learning thread that feeds the result is walked after all
\* of its consumers, and hears each of them once, however often backward ran.
EveryConsumerIsHeard == which = "grad" => Grad!NobodyCountsTwice /\ Grad!EveryLearnerIsWalked

\* EconomicSearch: no strategy can expect more than the reservation rule; a
\* call returns its best result and says for the right reason that it has
\* none, and the beliefs book each attempt once.
SearchIsSound ==
    which = "economic" => Economic!PolicyIsOptimal /\ Economic!EvidenceIsExact /\ Economic!EndsInOrder

\* AgentTurns: tool results answer calls, no message stays open, usage is told
\* once, and Codex answers with its own turn whatever was cut off before it.
TurnsAreTold ==
    which = "turns" => /\ Turns!ResultsHaveCalls /\ Turns!MessagesAreClosed
                       /\ Turns!UsageIsExact /\ Turns!CodexReturnsItsOwn

\* Contracts: the predicate that is translated from a validator holds exactly
\* when the validator completes, in the runtime as in Lean.
ContractMeansSource == which = "contract" => Contract!TranslationIsExact /\ Contract!LeanAgrees

\* "Send prompt ... return its string result" (ClaudeAgentThread.execute).
ReturnsItsOwnAnswer == which = "turns" => Turns!ReturnsItsOwnAnswer
=============================================================================
