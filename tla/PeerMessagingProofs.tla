------------------------ MODULE PeerMessagingProofs ------------------------
(***************************************************************************)
(* The waits-for graph of send_message never closes: no two dispatchers,   *)
(* and no longer circle of them, wait for each other, as long as a cycle   *)
(* makes one tool call at a time.                                          *)
(***************************************************************************)
EXTENDS PeerMessaging, FiniteSetTheorems, TLAPS

USE MessagingAssumption

\* Every set of threads has a member whose edge does not stay in the set.
Acyclic ==
    \A S \in SUBSET Threads : S # {} => \E t \in S : edge[t] \notin S

\* A request that was never sent belongs to no tool call.
FreshIsIdle == \A r \in Requests : fut[r] = "new" => tool[r] # "waiting"

EdgeType ==
    /\ edge \in [Threads -> Threads \cup {NoThread}]
    /\ sender \in [Requests -> Threads \cup {NoThread}]
    /\ peer \in [Requests -> Threads \cup {NoThread}]
    /\ DOMAIN tool = Requests /\ tool = [r \in Requests |-> tool[r]]
    /\ fut = [r \in Requests |-> fut[r]]
    /\ \A r \in Requests : tool[r] = "waiting" => sender[r] \in Threads

\* A cycle is suspended in one wait at most.
OneWait == \A t \in Threads : \A q, r \in Waits(t) : q = r

IInv == EdgeType /\ FreshIsIdle /\ OneWait /\ EdgesAreWaits /\ Acyclic

----------------------------------------------------------------------------
\* The step everything rests on: an edge that WouldCloseCycle lets through
\* keeps the graph acyclic.  A set that the new edge kept closed would, cut
\* down to what the target reaches, have been closed before.
LEMMA NewEdgeAcyclic ==
    ASSUME Acyclic, edge \in [Threads -> Threads \cup {NoThread}],
           NEW t \in Threads, NEW u \in Threads,
           ~WouldCloseCycle(t, u), edge' = [edge EXCEPT ![t] = u]
    PROVE  Acyclic'
  <1> SUFFICES ASSUME NEW S \in SUBSET Threads, S # {}, \A x \in S : edge'[x] \in S
               PROVE  FALSE
    BY DEF Acyclic
  <1>1. PICK R \in SUBSET Threads : u \in R /\ Closed(R) /\ t \notin R
    BY DEF WouldCloseCycle
  <1>2. PICK x \in S : edge[x] \notin S
    BY DEF Acyclic
  <1>3. x = t
    BY <1>2
  <1>4. u \in S
    BY <1>3
  <1>5. S \cap R # {} /\ S \cap R \in SUBSET Threads
    BY <1>1, <1>4
  <1>6. PICK y \in S \cap R : edge[y] \notin S \cap R
    BY <1>5 DEF Acyclic
  <1>7. y # t
    BY <1>1, <1>6
  <1>8. edge[y] \in S
    BY <1>6, <1>7
  <1>9. edge[y] \in R
    BY <1>1, <1>6, <1>8 DEF Closed
  <1> QED
    BY <1>6, <1>8, <1>9

\* Releasing an edge closes nothing.
LEMMA ReleasedEdgeAcyclic ==
    ASSUME Acyclic, edge \in [Threads -> Threads \cup {NoThread}],
           NEW t \in Threads, edge' = [edge EXCEPT ![t] = NoThread]
    PROVE  Acyclic'
  <1> SUFFICES ASSUME NEW S \in SUBSET Threads, S # {}
               PROVE  \E x \in S : edge'[x] \notin S
    BY DEF Acyclic
  <1>1. CASE t \in S
    BY <1>1
  <1>2. CASE t \notin S
    BY <1>2 DEF Acyclic
  <1> QED
    BY <1>1, <1>2

\* A cycle that may make one call at a time and still can make one is
\* suspended in none.
LEMMA FreeToSend ==
    ASSUME CallsAtOnce = 1, NEW t \in Threads, NEW u \in Threads, CanSend(t, u)
    PROVE  Waits(t) = {}
  <1>1. IsFiniteSet(Waits(t))
    BY FS_Subset DEF Waits
  <1>2. Cardinality(Waits(t)) \in Nat /\ Cardinality(Waits(t)) < 1
    BY <1>1, FS_CardinalityType DEF CanSend
  <1> QED
    BY <1>1, <1>2, FS_EmptySet

----------------------------------------------------------------------------
(* The invariant, one kind of step at a time.                              *)

\* Steps that make no blocking send and resume none.
LEMMA QuietStep ==
    ASSUME IInv, UNCHANGED callVars,
           fut' = [r \in Requests |-> fut'[r]],
           \A r \in Requests : fut'[r] = "new" => fut[r] = "new"
    PROVE  IInv'
  <1> USE DEF callVars
  <1>1. EdgeType' /\ FreshIsIdle'
    BY DEF IInv, EdgeType, FreshIsIdle
  <1>2. EdgesAreWaits' /\ OneWait'
    BY DEF IInv, EdgesAreWaits, OneWait, Waits
  <1>3. Acyclic'
    BY DEF IInv, Acyclic
  <1> QED
    BY <1>1, <1>2, <1>3 DEF IInv

\* A new request sent without suspending the cycle.
LEMMA PlainSend ==
    ASSUME IInv, NEW t \in Threads \cup {NoThread}, NEW u \in Threads, NEW r \in Requests,
           NEW status, status # "waiting", Send(t, u, r, status), UNCHANGED edge
    PROVE  IInv'
  <1>1. fut[r] = "new" /\ fut' = [fut EXCEPT ![r] = "pending"] /\ tool[r] # "waiting"
    BY DEF Send, Peer!Accept, IInv, FreshIsIdle
  <1>2. sender' = [sender EXCEPT ![r] = t] /\ peer' = [peer EXCEPT ![r] = u] /\ tool' = [tool EXCEPT ![r] = status]
    BY DEF Send
  <1>3. EdgeType' /\ FreshIsIdle'
    BY <1>1, <1>2 DEF IInv, EdgeType, FreshIsIdle
  <1>4. \A s \in Threads : Waits(s)' = Waits(s)
    BY <1>1, <1>2 DEF IInv, EdgeType, Waits
  <1>5. EdgesAreWaits' /\ OneWait'
    BY <1>1, <1>2, <1>4 DEF IInv, EdgesAreWaits, OneWait, EdgeType, Waits
  <1>6. Acyclic'
    BY DEF IInv, Acyclic
  <1> QED
    BY <1>3, <1>5, <1>6 DEF IInv

LEMMA BlockingSend ==
    ASSUME IInv, CallsAtOnce = 1, NEW t \in Threads, NEW u \in Threads, NEW r \in Requests, SendWait(t, u, r)
    PROVE  IInv'
  <1>1. fut[r] = "new" /\ fut' = [fut EXCEPT ![r] = "pending"] /\ tool[r] # "waiting"
    BY DEF SendWait, Send, Peer!Accept, IInv, FreshIsIdle
  <1>2. /\ sender' = [sender EXCEPT ![r] = t] /\ peer' = [peer EXCEPT ![r] = u]
        /\ tool' = [tool EXCEPT ![r] = "waiting"] /\ edge' = [edge EXCEPT ![t] = u]
    BY DEF SendWait, Send
  <1>3. EdgeType' /\ FreshIsIdle'
    BY <1>1, <1>2 DEF IInv, EdgeType, FreshIsIdle
  <1>4. Waits(t) = {}
    BY FreeToSend DEF SendWait
  <1>5. Waits(t)' = {r} /\ \A s \in Threads : s # t => Waits(s)' = Waits(s)
    BY <1>1, <1>2, <1>4 DEF IInv, EdgeType, Waits
  <1>6. EdgesAreWaits'
    <2>1. ASSUME NEW s \in Threads
          PROVE  (edge'[s] # NoThread <=> Waits(s)' # {}) /\ \A x \in Waits(s)' : edge'[s] = peer'[x]
      <3>1. CASE s = t
        BY <1>2, <1>5, <3>1 DEF IInv, EdgeType
      <3>2. CASE s # t
        <4>1. \A x \in Waits(s) : x \in Requests /\ x # r
          BY <1>1 DEF Waits
        <4> QED
          BY <1>2, <1>5, <3>2, <4>1 DEF IInv, EdgeType, EdgesAreWaits
      <3> QED
        BY <3>1, <3>2
    <2> QED
      BY <2>1 DEF EdgesAreWaits
  <1>7. Acyclic'
    BY <1>2, NewEdgeAcyclic DEF IInv, EdgeType, SendWait
  <1>8. OneWait'
    BY <1>5 DEF IInv, OneWait
  <1> QED
    BY <1>3, <1>6, <1>7, <1>8 DEF IInv

\* The tool call of a blocking send resumes.
LEMMA WaitOver ==
    ASSUME IInv, NEW r \in Requests, WaitReturns(r)
    PROVE  IInv'
  <1> DEFINE t == sender[r]
  <1>1. t \in Threads /\ Waits(t) = {r}
    BY DEF WaitReturns, IInv, EdgeType, OneWait, Waits
  <1>2. /\ edge' = [edge EXCEPT ![t] = NoThread]
        /\ UNCHANGED <<sender, peer, fut>>
        /\ tool' = [tool EXCEPT ![r] = tool'[r]] /\ tool'[r] # "waiting"
    BY DEF WaitReturns, serviceVars, IInv, EdgeType
  <1>3. EdgeType' /\ FreshIsIdle'
    BY <1>1, <1>2 DEF IInv, EdgeType, FreshIsIdle
  <1>4. Waits(t)' = {} /\ \A s \in Threads : s # t => Waits(s)' = Waits(s)
    BY <1>1, <1>2 DEF IInv, EdgeType, Waits
  <1>5. EdgesAreWaits' /\ OneWait'
    BY <1>1, <1>2, <1>4 DEF IInv, EdgesAreWaits, OneWait, EdgeType
  <1>6. Acyclic'
    BY <1>1, <1>2, ReleasedEdgeAcyclic DEF IInv, EdgeType
  <1> QED
    BY <1>3, <1>5, <1>6 DEF IInv

\* The background task of continue_then_receive ends: it is no blocking send.
LEMMA NotifyOver ==
    ASSUME IInv, NEW r \in Requests, NEW n \in Requests, Notify(r, n) \/ NotifyDies(r)
    PROVE  IInv'
  <1>1. /\ tool[r] = "watching" /\ edge' = edge
        /\ tool' = [tool EXCEPT ![r] = tool'[r]] /\ tool'[r] # "waiting"
    BY DEF Notify, NotifyDies, IInv, EdgeType
  <1>2. /\ fut' = [x \in Requests |-> fut'[x]]
        /\ \A x \in Requests : fut'[x] = "new" => fut[x] = "new"
    BY DEF Notify, NotifyDies, Peer!Accept, serviceVars, IInv, EdgeType
  <1>3. /\ sender' \in [Requests -> Threads \cup {NoThread}] /\ peer' \in [Requests -> Threads \cup {NoThread}]
        /\ \A x \in Requests : tool[x] = "waiting" => sender'[x] = sender[x] /\ peer'[x] = peer[x]
    BY DEF Notify, NotifyDies, Peer!Accept, serviceVars, IInv, EdgeType, FreshIsIdle
  <1>4. EdgeType' /\ FreshIsIdle'
    BY <1>1, <1>2, <1>3 DEF IInv, EdgeType, FreshIsIdle
  <1>5. \A s \in Threads : Waits(s)' = Waits(s)
    BY <1>1, <1>3 DEF IInv, EdgeType, Waits
  <1>6. EdgesAreWaits' /\ OneWait'
    BY <1>1, <1>3, <1>5 DEF IInv, EdgesAreWaits, OneWait, Waits
  <1>7. Acyclic'
    BY <1>1 DEF IInv, Acyclic
  <1> QED
    BY <1>4, <1>6, <1>7 DEF IInv

LEMMA InvariantStep ==
    ASSUME IInv, CallsAtOnce = 1, [Next]_vars
    PROVE  IInv'
  <1> USE DEF vars, serviceVars
  <1>1. CASE UNCHANGED vars
    BY <1>1, QuietStep DEF IInv, EdgeType
  <1>2. ASSUME NEW t \in Threads, Begin(t)
        PROVE  IInv'
    BY <1>2, QuietStep DEF Begin, Peer!Begin, IInv, EdgeType
  <1>3. ASSUME NEW t \in Threads, Interrupt(t)
        PROVE  IInv'
    BY <1>3, QuietStep DEF Interrupt
  <1>4. ASSUME NEW t \in Threads, Terminate(t)
        PROVE  IInv'
    BY <1>4, QuietStep DEF Terminate, Peer!Drop
  <1>5. ASSUME NEW t \in Threads, NEW o \in {"result", "error", "cancelled"}, Answer(t, o)
        PROVE  IInv'
    <2>1. fut' = [fut EXCEPT ![Head(line[t])] = IF @ = "pending" THEN o ELSE @]
      BY <1>5 DEF Answer, Peer!Answer
    <2>2. fut' = [r \in Requests |-> fut'[r]] /\ \A r \in Requests : fut'[r] = "new" => fut[r] = "new"
      BY <2>1 DEF IInv, EdgeType
    <2> QED
      BY <1>5, <2>2, QuietStep DEF Answer
  <1>6. ASSUME NEW t \in Threads, NEW r \in Requests, Prompt(t, r)
        PROVE  IInv'
    BY <1>6, PlainSend DEF Prompt
  <1>7. ASSUME NEW t \in Threads, NEW u \in Threads, NEW r \in Requests,
               SendAndForget(t, u, r) \/ SendThenReceive(t, u, r)
        PROVE  IInv'
    BY <1>7, PlainSend DEF SendAndForget, SendThenReceive
  <1>8. CASE Next
    BY <1>2, <1>3, <1>4, <1>5, <1>6, <1>7, <1>8, BlockingSend, WaitOver, NotifyOver DEF Next
  <1> QED
    BY <1>1, <1>8

LEMMA InvariantInit == Init => IInv
  BY DEF Init, Peer!Init, IInv, EdgeType, FreshIsIdle, OneWait, EdgesAreWaits, Acyclic, Waits

\* The threads of a circle would each have an edge inside it.
LEMMA AcyclicMeansNoCircle ==
    ASSUME IInv
    PROVE  NoCircularWait
  BY DEF IInv, Acyclic, EdgesAreWaits, NoCircularWait

\* The waits-for graph that send_message consults is exact, for any number of
\* threads and requests, through every reply, failure, cancellation and
\* termination, as long as a cycle makes one tool call at a time.
THEOREM EdgesAlwaysAreWaits ==
    ASSUME CallsAtOnce = 1
    PROVE  Spec => []EdgesAreWaits
  <1>1. IInv /\ [Next]_vars => IInv'
    BY InvariantStep
  <1>2. IInv => EdgesAreWaits
    BY DEF IInv
  <1> QED
    BY InvariantInit, <1>1, <1>2, PTL DEF Spec

\* Blocking sends never deadlock the dispatchers: no set of threads, however
\* large, waits only for its own members.
THEOREM NoCircularWaitEver ==
    ASSUME CallsAtOnce = 1
    PROVE  Spec => []NoCircularWait
  <1>1. IInv /\ [Next]_vars => IInv'
    BY InvariantStep
  <1>2. IInv => NoCircularWait
    BY AcyclicMeansNoCircle
  <1> QED
    BY InvariantInit, <1>1, <1>2, PTL DEF Spec
=============================================================================
