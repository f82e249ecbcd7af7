------------------------------- MODULE TextGrad -------------------------------
(***************************************************************************)
(* The optimizer: build_graph_from_result turns the event logs of a traced *)
(* result into a graph of node objects, backward routes feedback from the  *)
(* root towards the parameters, consolidate hands it to the backends.      *)
(*                                                                         *)
(* A thread is a number; a thread is numbered before the threads it spawned*)
(* and before the threads whose results it consumed. A node object is its  *)
(* place in the sequence `graph`: two objects may stand for one thread. A  *)
(* piece of feedback is the node object that gave it, User for the root's. *)
(***************************************************************************)
EXTENDS Integers, Sequences, FiniteSets, SequencesExt

CONSTANTS
    Threads,      \* 1..n; 1 is the traced result's thread
    Learners,     \* the threads that may recall a grad-enabled parameter
    PassBound     \* how many times backward is called

User == 0

VARIABLES
    spawned,      \* thread -> its ThreadSpawnedEvents, in order
    inputs,       \* thread -> the Results among its arguments, in order
    learns,       \* the threads with a grad-enabled parameter
    graph,        \* the node objects, [thread, kids] each; <<>> before the build
    queue,        \* what backward has still to visit
    gradients,    \* node -> sequence of givers
    paramGrads,   \* node -> sequence of <<pass, giver>> on its parameter
    consolidated, \* the gradients of the last consolidate
    passes

vars == <<spawned, inputs, learns, graph, queue, gradients, paramGrads, consolidated, passes>>

Nodes == 1..Len(graph)

-----------------------------------------------------------------------------
(* The graph.                                                              *)

\* _build_subtree: a node for `t` and, recursively, for each spawned thread
\* not yet seen.
RECURSIVE BuildSubtree(_, _, _)
BuildSubtree(g, t, seen) ==
    LET self == Len(g) + 1
        Spawn(acc, c) ==
            IF c \in acc.seen THEN acc
            ELSE LET sub == BuildSubtree(acc.graph, c, acc.seen)
                 IN [graph |-> [sub.graph EXCEPT ![self].kids = Append(@, Len(acc.graph) + 1)],
                     seen |-> sub.seen]
    IN FoldLeft(Spawn,
                [graph |-> Append(g, [thread |-> t, kids |-> <<>>]), seen |-> seen \cup {t}],
                spawned[t])

\* _register_subtree: the first node object of a thread is the one kept. The
\* objects of one build are numbered in the order it registers them.
Register(built, g, first) ==
    [t \in Threads |->
        LET fresh == {n \in first..Len(g) : g[n].thread = t}
        IN IF built[t] # 0 \/ fresh = {} THEN built[t] ELSE CHOOSE n \in fresh : \A k \in fresh : n =< k]

\* _assemble: the node of `t`, built unless it is known, with a child for
\* each Result among its inputs.
RECURSIVE Assemble(_, _)
Assemble(st, t) ==
    LET base == IF st.built[t] # 0 THEN st
                ELSE LET g == BuildSubtree(st.graph, t, {}).graph
                     IN [graph |-> g, built |-> Register(st.built, g, Len(st.graph) + 1)]
        Graft(acc, inp) ==
            LET sub   == Assemble(acc, inp)
                node  == sub.built[t]
                child == sub.built[inp]
                known == {sub.graph[k].thread : k \in ToSet(sub.graph[node].kids)}
            IN IF child = node \/ inp \in known THEN sub
               ELSE [sub EXCEPT !.graph[node].kids = Append(@, child)]
    IN FoldLeft(Graft, base, inputs[t])

\* build_graph_from_result.
GraphOfResult == Assemble([graph |-> <<>>, built |-> [t \in Threads |-> 0]], 1).graph

\* Mutant: only a node's own parameters count.
OwnsGradParameter(n) == graph[n].thread \in learns

\* leads_to_grad_parameter: the node or one below it has a grad-enabled parameter.
RECURSIVE LeadsToGradParameter(_)
LeadsToGradParameter(n) ==
    \/ graph[n].thread \in learns
    \/ \E k \in ToSet(graph[n].kids) : LeadsToGradParameter(k)

\* Mutant: a node is listed before its children are walked.
RECURSIVE PreOrder(_, _)
PreOrder(order, n) ==
    IF n \in ToSet(order) THEN order
    ELSE FoldLeft(PreOrder, Append(order, n), SelectSeq(graph[n].kids, LeadsToGradParameter))
SortPreOrder == PreOrder(<<>>, 1)

\* topological_sort: depth first, children before parents, then reversed. The
\* walk marks a node on entry; in a graph without cycles that is the same as
\* marking it on exit.
RECURSIVE PostOrder(_, _)
PostOrder(order, n) ==
    IF n \in ToSet(order) THEN order
    ELSE Append(FoldLeft(PostOrder, order, SelectSeq(graph[n].kids, LeadsToGradParameter)), n)
TopologicalSort == Reverse(PostOrder(<<>>, 1))

-----------------------------------------------------------------------------
(* The calls of step(): build, backward, consolidate; and zero_grad.       *)

Before(a, b) == a < b

\* The traced programs: what was spawned, what was consumed, what learns. A
\* thread is spawned once; some order of the starts explains every edge.
Programs ==
    {p \in [parent : [Threads \ {1} -> {0} \cup Threads], eats : [Threads -> SUBSET Threads]] :
        /\ \A t \in Threads \ {1} : p.parent[t] < t
        /\ \A t \in Threads : \A u \in p.eats[t] : t < u
        /\ \E rank \in Permutations(Threads) :
              /\ \A t \in Threads \ {1} : p.parent[t] # 0 => rank[p.parent[t]] < rank[t]
              /\ \A t \in Threads : \A u \in p.eats[t] : rank[u] < rank[t]}

Init ==
    /\ \E p \in Programs, up \in BOOLEAN :
          /\ spawned = [t \in Threads |->
                            SetToSortSeq({u \in Threads \ {1} : p.parent[u] = t}, Before)]
          /\ inputs = [t \in Threads |->
                            LET s == SetToSortSeq(p.eats[t], Before) IN IF up THEN s ELSE Reverse(s)]
    /\ learns \in SUBSET Learners
    /\ graph = <<>> /\ queue = <<>> /\ gradients = <<>> /\ paramGrads = <<>>
    /\ consolidated = {} /\ passes = 0

Build ==
    /\ graph = <<>>
    /\ graph' = GraphOfResult
    /\ gradients' = [n \in 1..Len(graph') |-> <<>>]
    /\ paramGrads' = [n \in 1..Len(graph') |-> <<>>]
    /\ UNCHANGED <<spawned, inputs, learns, queue, consolidated, passes>>

\* Mutant: the gradients of an earlier pass are kept.
BackwardAccumulates ==
    /\ graph # <<>> /\ queue = <<>> /\ passes < PassBound
    /\ queue' = TopologicalSort
    /\ gradients' = [gradients EXCEPT ![1] = Append(@, User)]
    /\ passes' = passes + 1
    /\ UNCHANGED <<spawned, inputs, learns, graph, paramGrads, consolidated>>

\* backward: clear the nodes the pass will visit and seed the root.
Backward ==
    /\ graph # <<>> /\ queue = <<>> /\ passes < PassBound
    /\ queue' = TopologicalSort
    /\ gradients' = [n \in Nodes |-> IF n = 1 THEN <<User>>
                                     ELSE IF n \in ToSet(queue') THEN <<>> ELSE gradients[n]]
    /\ passes' = passes + 1
    /\ UNCHANGED <<spawned, inputs, learns, graph, paramGrads, consolidated>>

GradChildren(n) == {k \in ToSet(graph[n].kids) : LeadsToGradParameter(k)}

\* The body of backward's loop for a node with targets: _distribute routes
\* one answer of the backward model, which may skip any target.
Distribute ==
    /\ queue # <<>>
    /\ LET n == Head(queue) IN
       /\ gradients[n] # <<>>
       /\ GradChildren(n) # {} \/ graph[n].thread \in learns
       /\ \E picked \in SUBSET GradChildren(n) :
             gradients' = [k \in Nodes |-> IF k \in picked THEN Append(gradients[k], n) ELSE gradients[k]]
       /\ \/ UNCHANGED paramGrads
          \/ /\ graph[n].thread \in learns
             /\ paramGrads' = [paramGrads EXCEPT ![n] = Append(@, <<passes, n>>)]
    /\ queue' = Tail(queue)
    /\ UNCHANGED <<spawned, inputs, learns, graph, consolidated, passes>>

\* A node nobody gave feedback is skipped.
Skip ==
    /\ queue # <<>> /\ gradients[Head(queue)] = <<>>
    /\ queue' = Tail(queue)
    /\ UNCHANGED <<spawned, inputs, learns, graph, gradients, paramGrads, consolidated, passes>>

\* No routable target: the raw gradients go to every child.
PassThrough ==
    /\ queue # <<>>
    /\ LET n == Head(queue) IN
       /\ gradients[n] # <<>>
       /\ GradChildren(n) = {} /\ graph[n].thread \notin learns
       /\ gradients' = [k \in Nodes |-> IF k \in ToSet(graph[n].kids)
                                        THEN gradients[k] \o gradients[n] ELSE gradients[k]]
    /\ queue' = Tail(queue)
    /\ UNCHANGED <<spawned, inputs, learns, graph, paramGrads, consolidated, passes>>

\* consolidate: everything the sorted nodes' parameters hold goes to the
\* backend in one call (the parameter is shared by the threads that recall it).
Consolidate ==
    /\ queue = <<>> /\ passes > 0
    /\ consolidated' = UNION {{<<n, i>> : i \in DOMAIN paramGrads[n]} : n \in ToSet(TopologicalSort)}
    /\ UNCHANGED <<spawned, inputs, learns, graph, queue, gradients, paramGrads, passes>>

ZeroGrad ==
    /\ queue = <<>> /\ passes > 0
    /\ LET sorted == ToSet(TopologicalSort) IN
       /\ gradients' = [n \in Nodes |-> IF n \in sorted THEN <<>> ELSE gradients[n]]
       /\ paramGrads' = [n \in Nodes |-> IF n \in sorted THEN <<>> ELSE paramGrads[n]]
    /\ UNCHANGED <<spawned, inputs, learns, graph, queue, consolidated, passes>>

Next == \/ Build \/ Backward \/ Distribute \/ Skip \/ PassThrough \/ Consolidate \/ ZeroGrad

Spec == Init /\ [][Next]_vars

-----------------------------------------------------------------------------

TypeOK ==
    /\ graph \in Seq([thread : Threads, kids : Seq(1..(2 * Cardinality(Threads)))])
    /\ DOMAIN gradients = Nodes /\ DOMAIN paramGrads = Nodes
    /\ queue \in Seq(Nodes) /\ passes \in 0..PassBound

\* Within a pass a node that can learn hears each consumer at most once, however often
\* backward was called before: "calling backward twice does not double-count".
NobodyCountsTwice ==
    \A n \in Nodes : LeadsToGradParameter(n) => IsInjective(gradients[n])

\* A learning thread that feeds the result is never pruned away from the walk
\* or from its consumers' targets: its node is in the sort, after all of them,
\* so that no feedback comes to a node the walk has left (the diamond of two
\* consumers of one result).
EveryLearnerIsWalked ==
    graph # <<>> /\ queue = <<>> =>
        \A n \in Nodes : graph[n].thread \in learns =>
            LET sorted == TopologicalSort IN
            \E i \in DOMAIN sorted :
                /\ sorted[i] = n
                /\ \A m \in Nodes : n \in ToSet(graph[m].kids) => \E j \in 1..(i - 1) : sorted[j] = m

\* What _register_subtree promises: one thread is one node object, so the
\* feedback of all its consumers meets in one place.
OneNodePerThread ==
    \A n, k \in Nodes : graph[n].thread = graph[k].thread => n = k

\* The same for every node, as backward's docstring has it.
BackwardIsIdempotent == \A n \in Nodes : IsInjective(gradients[n])
=============================================================================
