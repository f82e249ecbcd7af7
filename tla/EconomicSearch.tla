--------------------------- MODULE EconomicSearch ---------------------------
(***************************************************************************)
(* Cost-aware routing: an economic function runs a sequential search over  *)
(* its candidates (Search and its policies), books every attempt with the  *)
(* beliefs, returns the best passing result and, afterwards, has its       *)
(* records settled by downstream feedback.                                 *)
(*                                                                         *)
(* Money is counted in whole units. A score is a number of quarters, a     *)
(* reward is Value * score / 4. An estimate is a Bernoulli score of        *)
(* probability p quarters, at a cost. A passing result is never None (the  *)
(* code takes a None for no result at all).                                *)
(***************************************************************************)
EXTENDS Integers, Sequences, FiniteSets, SequencesExt

CONSTANTS
    Candidates,    \* 1..n, in the order of the function's dict
    Estimates,     \* what beliefs may say of a candidate: records [p, cost]
    Value,         \* what a fully successful result is worth
    Budget,        \* the cap of a call, or Unlimited
    MaxTries,      \* attempts per candidate and call
    Scores,        \* the scores the scorer may give a passing result
    Overrun,       \* by how much an attempt may cost more than estimated
    MayCancel,     \* whether the run may be cancelled
    SameThread,    \* whether a thread may be run a second time
    RunBound

Unlimited == 1000
Infinity == 999
None == 0

VARIABLES
    policy,     \* "reservation" | "greedy" | "cheapest"
    phase,      \* "idle" | "search" | "attempt" | "over"
    thread,     \* the economic thread: a number
    runs,       \* calls so far
    est,        \* this call's estimates
    trying,     \* the candidate of the attempt under way
    records,    \* this call's attempts: [label, passed, score, cost]
    kept,       \* index of the record whose result is best_result, 0 = none
    delegated,  \* index of the record the TraceDelegationEvent names
    outcome,    \* how the call ended
    live,       \* indices of this call's attempt threads not yet terminated
    contribs,   \* the beliefs: record id -> [label, score, settled]
    booked      \* every update() the beliefs ever got: a sequence of labels

vars == <<policy, phase, thread, runs, est, trying, records, kept, delegated, outcome, live, contribs, booked>>

-----------------------------------------------------------------------------
(* Search: prices, policies, eligibility.                                  *)

Sum(f(_), s) == FoldLeft(LAMBDA acc, r : acc + f(r), 0, s)
Reward(score) == (Value * score) \div 4

\* Bernoulli.reservation_index, priced by RewardDistribution.
ReservationPrice(e) ==
    IF e.cost = 0 THEN Infinity
    ELSE IF 4 * e.cost >= Value * e.p THEN Reward(e.p) - e.cost
    ELSE Value - (4 * e.cost) \div e.p

NetValue(e) == Reward(e.p) - e.cost

\* The first of the candidates in `S` with the greatest key.
FirstBest(S, key(_)) ==
    CHOOSE l \in S : \A k \in S : key(l) > key(k) \/ (key(l) = key(k) /\ l =< k)

Affordable(S, remaining) == {l \in S : est[l].cost =< remaining}

\* Mutant: the candidates are ranked by their expected net value.
PickByNetValue(S, best, remaining) ==
    LET A == Affordable(S, remaining)
        l == FirstBest(A, LAMBDA k : NetValue(est[k]))
    IN IF A = {} \/ ReservationPrice(est[l]) =< best THEN None ELSE l

\* ReservationPricePolicy.next: Weitzman's rule.
PickByReservation(S, best, remaining) ==
    LET A == Affordable(S, remaining)
        l == FirstBest(A, LAMBDA k : ReservationPrice(est[k]))
    IN IF A = {} \/ ReservationPrice(est[l]) =< best THEN None ELSE l

\* Greedy.next
PickGreedily(S, best, remaining) ==
    LET A == Affordable(S, remaining)
        l == FirstBest(A, LAMBDA k : NetValue(est[k]))
    IN IF best > 0 \/ A = {} \/ NetValue(est[l]) =< 0 THEN None ELSE l

\* Cheapest.next
PickCheapest(S, best, remaining) ==
    LET A == Affordable(S, remaining)
    IN IF best > 0 \/ A = {} THEN None ELSE FirstBest(A, LAMBDA k : 0 - est[k].cost)

Pick(S, best, remaining) ==
    CASE policy = "reservation" -> PickByReservation(S, best, remaining)
      [] policy = "greedy"      -> PickGreedily(S, best, remaining)
      [] policy = "cheapest"    -> PickCheapest(S, best, remaining)

\* Search: _eligible, best, spent, remaining_budget.
Eligible == {l \in Candidates : Len(SelectSeq(records, LAMBDA r : r.label = l)) < MaxTries}
Best == FoldLeft(LAMBDA acc, r : IF Reward(r.score) > acc THEN Reward(r.score) ELSE acc, 0, records)
Spent == Sum(LAMBDA r : r.cost, records)
Remaining == IF Budget = Unlimited THEN Unlimited ELSE Budget - Spent

\* Search.next
NextLabel == Pick(Eligible, Best, Remaining)

\* Search.blocked_by_budget
BlockedByBudget ==
    Budget # Unlimited /\ Pick(Eligible, Best, Unlimited) # None /\ NextLabel = None

-----------------------------------------------------------------------------
(* EconomicThread.execute.                                                 *)

Init ==
    /\ policy \in {"reservation", "greedy", "cheapest"}
    /\ est \in [Candidates -> Estimates]
    /\ phase = "idle" /\ thread = 1 /\ runs = 0
    /\ trying = None /\ records = <<>> /\ kept = 0 /\ delegated = 0
    /\ outcome = "none" /\ live = {} /\ contribs = <<>> /\ booked = <<>>

\* A call: on a thread of its own (__call__, trace), or once more on the same
\* handle. Every candidate is estimated once; after the first call the beliefs
\* have learned, so anything may come out.
StartRun ==
    /\ phase \in {"idle", "over"} /\ runs < RunBound
    /\ phase' = "search" /\ runs' = runs + 1
    /\ thread' \in IF runs = 0 THEN {1} ELSE {thread + 1} \cup (IF SameThread THEN {thread} ELSE {})
    /\ records' = <<>> /\ kept' = 0 /\ delegated' = 0 /\ outcome' = "none"
    /\ live' = {}
    /\ est' \in IF runs = 0 THEN {est} ELSE [Candidates -> Estimates]
    /\ UNCHANGED <<policy, trying, contribs, booked>>

\* _run_attempt: spawn the candidate on the same worker.
SpawnAttempt ==
    /\ phase = "search" /\ NextLabel # None
    /\ trying' = NextLabel /\ phase' = "attempt"
    /\ live' = live \cup {Len(records) + 1}
    /\ UNCHANGED <<policy, thread, runs, est, records, kept, delegated, outcome, contribs, booked>>

\* Mutant: whatever ran last is kept.
KeepLast(r) == IF r.passed THEN Len(records) + 1 ELSE kept

\* The result is kept if it pays more than the one kept so far.
Keep(r) ==
    IF r.passed /\ (kept = 0 \/ Reward(r.score) > Reward(records[kept].score))
    THEN Len(records) + 1 ELSE kept

\* AttemptRecord's id: the thread's, and a count that starts anew in each call.
RecordId == <<thread, Len(records)>>

\* beliefs.update: one contribution per record id.
Update(r) == [id \in DOMAIN contribs \cup {RecordId} |->
                 IF id = RecordId THEN [label |-> r.label, score |-> r.score] ELSE contribs[id]]

\* The attempt passed or failed (or raised): book it and report it to the search.
AttemptEnds ==
    /\ phase = "attempt"
    /\ \E passed \in BOOLEAN, s \in Scores \cup {0}, over \in 0..Overrun :
          /\ IF passed THEN s \in Scores ELSE s = 0
          /\ LET r == [label |-> trying, passed |-> passed, score |-> s, cost |-> est[trying].cost + over]
             IN /\ records' = Append(records, r)
                /\ contribs' = Update(r)
                /\ booked' = Append(booked, r.label)
                /\ kept' = Keep(r)
    /\ phase' = "search" /\ trying' = None
    /\ UNCHANGED <<policy, thread, runs, est, delegated, outcome, live>>

\* _emit_trace_delegation: the last record with a positive local score, or the last.
Responsible ==
    LET scored == {i \in DOMAIN records : records[i].score > 0}
    IN IF scored = {} THEN Len(records) ELSE CHOOSE i \in scored : \A k \in scored : k =< i

\* Mutant: the attempts are terminated only when nothing was thrown.
LeaveAttempts(how, handles) ==
    /\ phase' = "over" /\ outcome' = how
    /\ delegated' = Responsible
    /\ live' = IF how = "returned" THEN live \ handles ELSE live
    /\ UNCHANGED <<policy, thread, runs, est, trying, records, kept, contribs, booked>>

\* The finally block: the delegation marker, if anything was booked, and the
\* end of the attempts in attempt_handles.
Finish(how, handles) ==
    /\ phase' = "over" /\ outcome' = how
    /\ delegated' = Responsible
    /\ live' = live \ handles
    /\ UNCHANGED <<policy, thread, runs, est, trying, records, kept, contribs, booked>>

\* The loop ended: the kept result, or _raise_empty.
Conclude ==
    /\ phase = "search" /\ NextLabel = None
    /\ Finish(IF kept # 0 THEN "returned"
              ELSE IF records = <<>> THEN "abstained"
              ELSE IF BlockedByBudget THEN "budget" ELSE "exhausted", live)

\* The scorer gave a score out of range: the attempt is not booked.
ScorerRaises ==
    /\ phase = "attempt"
    /\ Finish("raised", live)

\* CancelledError out of _run_attempt: the handle of the attempt under way was
\* not yet in attempt_handles.
Cancelled ==
    /\ MayCancel /\ phase = "attempt"
    /\ Finish("cancelled", live \ {Len(records) + 1})

\* Mutant: settling adds a contribution.
SettleAdds ==
    /\ phase = "over" /\ records # <<>>
    /\ \E s \in 0..4 :
          contribs' = [id \in DOMAIN contribs \cup {<<0 - thread, i>> : i \in 0..(Len(records) - 1)} |->
                          IF id \in DOMAIN contribs THEN contribs[id] ELSE [label |-> records[1].label, score |-> s]]
    /\ UNCHANGED <<policy, phase, thread, runs, est, trying, records, kept, delegated, outcome, live, booked>>

\* consolidate: the averaged downstream score replaces every record's score.
Settle ==
    /\ phase = "over" /\ records # <<>>
    /\ \E s \in Scores \cup {0} :
          contribs' = [id \in DOMAIN contribs |->
                          IF id[1] = thread /\ id[2] < Len(records)
                          THEN [contribs[id] EXCEPT !.score = s] ELSE contribs[id]]
    /\ UNCHANGED <<policy, phase, thread, runs, est, trying, records, kept, delegated, outcome, live, booked>>

Next == \/ StartRun \/ SpawnAttempt \/ AttemptEnds \/ Conclude \/ ScorerRaises \/ Cancelled \/ Settle

Spec == Init /\ [][Next]_vars

-----------------------------------------------------------------------------
(* Reference: the best any strategy could expect, in units of 1 / 4^n with *)
(* n candidates untried, when every candidate may be tried once, there is  *)
(* no budget, and a result pays Value or nothing.                          *)

RECURSIVE Optimum(_, _)
Optimum(S, best) ==
    LET stop == best * 4 ^ Cardinality(S)
        try(l) == est[l].p * Optimum(S \ {l}, Value) + (4 - est[l].p) * Optimum(S \ {l}, best)
                  - est[l].cost * 4 ^ Cardinality(S)
    IN FoldLeft(LAMBDA acc, l : IF try(l) > acc THEN try(l) ELSE acc, stop, SetToSeq(S))

\* What Weitzman's rule can expect, in the same units.
RECURSIVE Expected(_, _)
Expected(S, best) ==
    LET l == PickByReservation(S, best, Unlimited)
    IN IF l = None THEN best * 4 ^ Cardinality(S)
       ELSE est[l].p * Expected(S \ {l}, Value) + (4 - est[l].p) * Expected(S \ {l}, best)
            - est[l].cost * 4 ^ Cardinality(S)

TypeOK ==
    /\ est \in [Candidates -> Estimates]
    /\ phase \in {"idle", "search", "attempt", "over"}
    /\ kept \in 0..Len(records) /\ delegated \in 0..Len(records)
    /\ trying \in Candidates \cup {None} /\ runs \in 0..RunBound

\* ReservationPricePolicy is "optimal for independent candidates": no strategy
\* that looks at the outcomes so far can expect more than the rule earns.
PolicyIsOptimal ==
    phase = "idle" /\ policy = "reservation" => Expected(Candidates, 0) = Optimum(Candidates, 0)

\* E2: the beliefs hold each attempt exactly once, however often it was settled.
EvidenceIsExact ==
    \A l \in Candidates :
        Cardinality({id \in DOMAIN contribs : contribs[id].label = l})
            = Len(SelectSeq(booked, LAMBDA k : k = l))

\* A call that ends without a result says so for the right reason, and a call
\* that ends with one has no better one among its attempts, and none of the
\* attempt threads it spawned survives it.
EndsInOrder ==
    phase = "over" =>
        /\ outcome = "returned" => /\ records[kept].passed
                                   /\ \A i \in DOMAIN records : records[i].score =< records[kept].score
        /\ outcome \in {"abstained", "budget", "exhausted"} => \A i \in DOMAIN records : ~records[i].passed
        /\ outcome = "exhausted" => Pick(Eligible, 0, Unlimited) = None
        /\ live = {}

\* The marker "points at the attempt whose result the run returned".
DelegatesTheReturned == outcome = "returned" => delegated = kept

\* "Hard dollar cap per call".
BudgetIsHard == Spent =< Budget
=============================================================================
