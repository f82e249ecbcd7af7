------------------------- MODULE WireChannelProofs -------------------------
(***************************************************************************)
(* Whoever awaits a call of a WireChannel can still be woken, for any set  *)
(* of calls: the check of _closed, the entry in the table, the answers and *)
(* close() never leave a future behind that no one will settle.            *)
(***************************************************************************)
EXTENDS WireChannel, FiniteSetTheorems, TLAPS

\* Whoever is suspended in a call has a future.
FutureExists == \A c \in Calls : fut[c] = "none" => call[c] \in {"new", "refused"}

IInv == TypeOK /\ FutureExists /\ WaitersAreTracked

USE DEF Suspended, Returned, Outcomes

----------------------------------------------------------------------------
\* Putting a frame on the wire keeps the network well typed.
LEMMA DeliverType ==
    ASSUME net \in [Sides -> Seq(Frame)], NEW s, NEW c \in Calls,
           NEW kind \in {"call"} \cup Outcomes, Deliver(s, kind, c)
    PROVE  net' \in [Sides -> Seq(Frame)]
  <1>1. [kind |-> kind, id |-> c] \in Frame
    BY DEF Frame
  <1>2. CASE s \in Sides
    BY <1>1, <1>2 DEF Deliver
  <1>3. CASE s \notin Sides
    <2>1. net' = net
      BY <1>3 DEF Deliver
    <2> QED
      BY <2>1
  <1> QED
    BY <1>2, <1>3

\* Settling futures keeps their type, and touches only open ones.
LEMMA SettleType ==
    ASSUME TypeOK, NEW C, NEW o \in Outcomes \cup {"lost"}, Settle(C, o)
    PROVE  /\ fut' \in [Calls -> {"none", "open", "lost", "cancelled"} \cup Outcomes]
           /\ \A c \in Calls : fut[c] # "open" => fut'[c] = fut[c]
           /\ \A c \in Calls : fut[c] = "open" => fut'[c] = IF c \in C THEN o ELSE "open"
  BY DEF Settle, TypeOK

----------------------------------------------------------------------------
\* One lemma per part of the next-state relation.
LEMMA CallKeeps ==
    ASSUME IInv, NEW c \in Calls, Call(c) PROVE IInv'
  <1> USE DEF IInv, TypeOK, FutureExists, WaitersAreTracked, Moves, endVars, Closed
  <1>1. CASE /\ Closed(by[c])
             /\ Moves(c, "refused")
             /\ UNCHANGED <<pending, fut, link, net, endVars, by, handler>>
    <2>1. TypeOK'
      <3>1. call' = [call EXCEPT ![c] = "refused"]
        BY <1>1
      <3>2. call' \in [Calls -> {"new"} \cup Suspended \cup Returned]
        BY <3>1
      <3> QED
        BY <1>1, <3>2
    <2>2. FutureExists' /\ WaitersAreTracked'
      BY <1>1 DEF Call
    <2> QED
      BY <2>1, <2>2
  <1>2. CASE /\ ~Closed(by[c])
             /\ Moves(c, "sending")
             /\ fut' = [fut EXCEPT ![c] = "open"]
             /\ pending' = [pending EXCEPT ![by[c]] = @ \cup {c}]
             /\ UNCHANGED <<link, net, endVars, by, handler>>
    <2>1. TypeOK'
      BY <1>2
    <2>2. FutureExists'
      BY <1>2
    <2>3. WaitersAreTracked'
      BY <1>2
    <2> QED
      BY <2>1, <2>2, <2>3
  <1> QED
    BY <1>1, <1>2 DEF Call

LEMMA CallerKeeps ==
    ASSUME IInv, NEW c \in Calls, Caller(c) PROVE IInv'
  <1> USE DEF IInv, TypeOK, FutureExists, WaitersAreTracked, Moves, endVars, Closed
  <1>1. CASE Sends(c)
    <2>1. net' \in [Sides -> Seq(Frame)]
      BY <1>1, DeliverType DEF Sends
    <2> QED
      BY <1>1, <2>1 DEF Sends
  <1>2. CASE SendReturns(c)
    BY <1>2 DEF SendReturns
  <1>3. CASE SendFails(c)
    BY <1>3 DEF SendFails, Forget
  <1>4. CASE Returns(c)
    <2>1. fut[c] \in Returned
      BY <1>4 DEF Returns
    <2> QED
      BY <1>4, <2>1 DEF Returns
  <1> QED
    BY <1>1, <1>2, <1>3, <1>4 DEF Caller

LEMMA AbandonKeeps ==
    ASSUME IInv, NEW c \in Calls, Abandon(c) PROVE IInv'
  BY DEF IInv, TypeOK, FutureExists, WaitersAreTracked, Moves, endVars, Closed, Abandon

LEMMA HandlerKeeps ==
    ASSUME IInv, NEW c \in Calls, Handler(c) PROVE IInv'
  <1> USE DEF IInv, TypeOK, FutureExists, WaitersAreTracked, endVars, callVars, Closed
  <1>1. ASSUME NEW o \in Outcomes, Answers(c, o) PROVE IInv'
    <2>1. net' \in [Sides -> Seq(Frame)]
      BY <1>1, DeliverType DEF Answers
    <2> QED
      BY <1>1, <2>1 DEF Answers
  <1>2. CASE Stops(c)
    BY <1>2 DEF Stops
  <1> QED
    BY <1>1, <1>2 DEF Handler

\* An answer settles the future it removes from the table; a call frame
\* touches neither.
LEMMA ReaderKeeps ==
    ASSUME IInv, NEW s \in Sides, Reader(s) PROVE IInv'
  <1> USE DEF IInv, TypeOK, FutureExists, WaitersAreTracked, endVars, callVars, Closed
  <1>1. CASE Reads(s)
    <2> DEFINE f == Head(net[s])
    <2>1. f \in Frame /\ net' \in [Sides -> Seq(Frame)]
      BY <1>1 DEF Reads
    <2>2. CASE Resolves(s, f)
      <3>1. Settle({f.id} \cap pending[s], f.kind) /\ f.kind \in Outcomes
        BY <2>2 DEF Resolves
      <3>2. /\ fut' \in [Calls -> {"none", "open", "lost", "cancelled"} \cup Outcomes]
            /\ \A c \in Calls : fut[c] # "open" => fut'[c] = fut[c]
            /\ \A c \in Calls : fut[c] = "open" =>
                  fut'[c] = IF c \in {f.id} \cap pending[s] THEN f.kind ELSE "open"
        BY <3>1, SettleType
      <3>3. /\ pending' = [pending EXCEPT ![s] = @ \ {f.id}]
            /\ UNCHANGED <<link, closing, reader, closeTask, by, call, handler>>
        BY <1>1, <2>2 DEF Resolves, Reads
      <3>4. WaitersAreTracked'
        BY <3>1, <3>2, <3>3
      <3>5. FutureExists'
        BY <3>1, <3>2, <3>3
      <3>6. TypeOK'
        BY <2>1, <3>2, <3>3
      <3> QED
        BY <3>4, <3>5, <3>6
    <2>3. CASE Handles(s, f)
      BY <1>1, <2>1, <2>3 DEF Reads, Handles
    <2> QED
      BY <1>1, <2>2, <2>3 DEF Reads
  <1>2. CASE RecvFails(s)
    BY <1>2 DEF RecvFails
  <1>3. CASE ReaderStops(s)
    BY <1>3 DEF ReaderStops
  <1> QED
    BY <1>1, <1>2, <1>3 DEF Reader

\* close() empties the table it closes, in the step that sets _closed.
LEMMA CloseBeginsKeeps ==
    ASSUME IInv, NEW s \in Sides, CloseBegins(s),
           closeTask' \in SUBSET Sides, UNCHANGED <<link, net, by, call, handler>>
    PROVE  IInv'
  <1> USE DEF IInv, TypeOK, FutureExists, WaitersAreTracked, Closed
  <1>1. /\ fut' \in [Calls -> {"none", "open", "lost", "cancelled"} \cup Outcomes]
        /\ \A c \in Calls : fut[c] # "open" => fut'[c] = fut[c]
        /\ \A c \in Calls : fut[c] = "open" =>
              fut'[c] = IF c \in pending[s] THEN "lost" ELSE "open"
    BY SettleType DEF CloseBegins
  <1>2. TypeOK'
    BY <1>1 DEF CloseBegins
  <1>3. WaitersAreTracked'
    BY <1>1 DEF CloseBegins
  <1> QED
    BY <1>1, <1>2, <1>3

LEMMA CloserKeeps ==
    ASSUME IInv, NEW s \in Sides, Closer(s) \/ UserCloses(s) PROVE IInv'
  <1> USE DEF IInv, TypeOK, FutureExists, WaitersAreTracked, callVars, Closed
  <1>1. CASE UserCloses(s)
    BY <1>1, CloseBeginsKeeps DEF UserCloses
  <1>2. CASE ScheduledClose(s) /\ CloseBegins(s)
    BY <1>2, CloseBeginsKeeps DEF ScheduledClose
  <1>3. CASE ScheduledClose(s) /\ ~CloseBegins(s)
    BY <1>3 DEF ScheduledClose
  <1>4. CASE CloseEnds(s)
    BY <1>4 DEF CloseEnds
  <1> QED
    BY <1>1, <1>2, <1>3, <1>4 DEF Closer

LEMMA BreaksKeeps ==
    ASSUME IInv, Breaks PROVE IInv'
  <1> USE DEF IInv, TypeOK, FutureExists, WaitersAreTracked, endVars, callVars, Closed
  <1>1. PICK n \in [Sides -> 0 .. Cardinality(Calls)] :
          /\ \A s \in Sides : n[s] <= Len(net[s])
          /\ net' = [s \in Sides |-> SubSeq(net[s], 1, n[s])]
    BY DEF Breaks
  <1>2. net' \in [Sides -> Seq(Frame)]
    <2>1. ASSUME NEW s \in Sides PROVE SubSeq(net[s], 1, n[s]) \in Seq(Frame)
      <3>1. n[s] \in Nat /\ n[s] <= Len(net[s]) /\ net[s] \in Seq(Frame)
        BY <1>1
      <3> QED
        BY <3>1
    <2> QED
      BY <1>1, <2>1
  <1> QED
    BY <1>2 DEF Breaks

----------------------------------------------------------------------------
LEMMA Inductive == Spec => []IInv
  <1>1. Init => IInv
    <2> SUFFICES ASSUME Init PROVE IInv
      OBVIOUS
    <2>1. net \in [Sides -> Seq(Frame)]
      BY DEF Init
    <2> QED
      BY <2>1 DEF Init, IInv, TypeOK, FutureExists, WaitersAreTracked
  <1>2. IInv /\ [Next]_vars => IInv'
    <2> SUFFICES ASSUME IInv, [Next]_vars PROVE IInv'
      OBVIOUS
    <2>1. CASE UNCHANGED vars
      BY <2>1 DEF vars, endVars, callVars, IInv, TypeOK, FutureExists, WaitersAreTracked, Closed
    <2>2. CASE Next
      BY <2>2, CallKeeps, CallerKeeps, AbandonKeeps, HandlerKeeps, ReaderKeeps, CloserKeeps,
         BreaksKeeps DEF Next
    <2> QED
      BY <2>1, <2>2
  <1> QED
    BY <1>1, <1>2, PTL DEF Spec

\* The tables, tasks and frames of both ends keep their types.
THEOREM ChannelTypeCorrect == Spec => []TypeOK
  <1>1. IInv => TypeOK
    BY DEF IInv
  <1> QED
    BY <1>1, Inductive, PTL

\* Nobody is suspended in call() on a future that the channel has forgotten:
\* the entry and the check of _closed are one step, and so are _closed and
\* the rejection of the table.
THEOREM WaitersAlwaysTracked == Spec => []WaitersAreTracked
  <1>1. IInv => WaitersAreTracked
    BY DEF IInv
  <1> QED
    BY <1>1, Inductive, PTL

----------------------------------------------------------------------------
(* Answers are true: a frame on the wire says what its handler did.        *)

Unsent == {"new", "sending", "refused"}

\* An answer on the wire is the outcome of its handler; a call on the wire was
\* sent and has no handler yet.
FrameIsTrue(f) ==
    /\ f.kind \in Outcomes => handler[f.id] = f.kind
    /\ f.kind = "call" => handler[f.id] = "none" /\ call[f.id] \notin Unsent

FramesAreTrue == \A s \in Sides : \A i \in DOMAIN net[s] : FrameIsTrue(net[s][i])

\* No call is on the wire twice.
OneCallFrame ==
    \A s \in Sides, p \in Sides : \A i \in DOMAIN net[s], j \in DOMAIN net[p] :
        /\ net[s][i].kind = "call" /\ net[p][j].kind = "call"
        /\ net[s][i].id = net[p][j].id
        => s = p /\ i = j

UnsentIsUnserved == \A c \in Calls : call[c] \in Unsent => handler[c] = "none"

TruthInv == FramesAreTrue /\ OneCallFrame /\ UnsentIsUnserved /\ AnswersAreTrue

\* Putting a frame on the wire adds that frame, at the end, or none.
LEMMA DeliverFrames ==
    ASSUME TypeOK, NEW s, NEW kind, NEW c, Deliver(s, kind, c)
    PROVE  \A p \in Sides : \A i \in DOMAIN net'[p] :
               \/ i \in DOMAIN net[p] /\ net'[p][i] = net[p][i]
               \/ p = s /\ i = Len(net[s]) + 1 /\ net'[p][i] = [kind |-> kind, id |-> c]
  <1> DEFINE f == [kind |-> kind, id |-> c]
  <1> SUFFICES ASSUME NEW p \in Sides, NEW i \in DOMAIN net'[p], net' # net
               PROVE  \/ i \in DOMAIN net[p] /\ net'[p][i] = net[p][i]
                      \/ p = s /\ i = Len(net[s]) + 1 /\ net'[p][i] = f
    OBVIOUS
  <1>1. net' = [net EXCEPT ![s] = Append(@, f)]
    BY DEF Deliver
  <1>2. CASE p = s
    <2>1. net'[p] = Append(net[p], f) /\ net[p] \in Seq(Frame)
      BY <1>1, <1>2 DEF TypeOK
    <2>2. i \in 1 .. Len(net[p]) + 1
      BY <2>1
    <2>3. i # Len(net[p]) + 1 => i \in DOMAIN net[p] /\ net'[p][i] = net[p][i]
      BY <2>1, <2>2
    <2>4. i = Len(net[p]) + 1 => net'[p][i] = f
      BY <2>1
    <2> QED
      BY <1>2, <2>3, <2>4
  <1>3. CASE p # s
    BY <1>1, <1>3 DEF TypeOK
  <1> QED
    BY <1>2, <1>3

\* The frames that are left when the first k[s] of each direction, or any of
\* the last, are gone.
Keeps(k) ==
    \A s \in Sides : \A i \in DOMAIN net'[s] :
        i + k[s] \in DOMAIN net[s] /\ net'[s][i] = net[s][i + k[s]]

LEMMA KeepsOneCallFrame ==
    ASSUME TypeOK, TypeOK', OneCallFrame, NEW k \in [Sides -> Nat], Keeps(k)
    PROVE  OneCallFrame'
  <1> SUFFICES ASSUME NEW s \in Sides, NEW p \in Sides,
                      NEW i \in DOMAIN net'[s], NEW j \in DOMAIN net'[p],
                      net'[s][i].kind = "call", net'[p][j].kind = "call",
                      net'[s][i].id = net'[p][j].id
               PROVE  s = p /\ i = j
    BY DEF OneCallFrame
  <1>1. s = p /\ i + k[s] = j + k[p]
    BY DEF Keeps, OneCallFrame
  <1>2. i \in Nat /\ j \in Nat /\ k[s] \in Nat
    BY DEF TypeOK
  <1> QED
    BY <1>1, <1>2

\* Frames that are lost, and nothing else.
LEMMA BreaksTrue ==
    ASSUME TypeOK, TypeOK', TruthInv, Breaks
    PROVE  TruthInv'
  <1>1. PICK n \in [Sides -> 0 .. Cardinality(Calls)] :
          /\ \A s \in Sides : n[s] <= Len(net[s])
          /\ net' = [s \in Sides |-> SubSeq(net[s], 1, n[s])]
    BY DEF Breaks
  <1> DEFINE k == [s \in Sides |-> 0]
  <1>2. Keeps(k)
    <2> SUFFICES ASSUME NEW s \in Sides, NEW i \in DOMAIN net'[s]
                 PROVE  i \in DOMAIN net[s] /\ net'[s][i] = net[s][i] /\ i + 0 = i
      BY DEF Keeps
    <2>1. net[s] \in Seq(Frame) /\ n[s] \in Nat /\ n[s] <= Len(net[s]) /\ net'[s] = SubSeq(net[s], 1, n[s])
      BY <1>1 DEF TypeOK
    <2> QED
      BY <2>1
  <1>3. OneCallFrame'
    <2> HIDE DEF k
    <2>1. k \in [Sides -> Nat]
      BY DEF k
    <2> QED
      BY <1>2, <2>1, KeepsOneCallFrame DEF TruthInv
  <1>4. \A s \in Sides : \A i \in DOMAIN net'[s] : i \in DOMAIN net[s] /\ net'[s][i] = net[s][i]
    BY <1>2 DEF Keeps, TypeOK
  <1> QED
    BY <1>3, <1>4 DEF Breaks, callVars, TruthInv, FramesAreTrue, FrameIsTrue, UnsentIsUnserved, AnswersAreTrue

LEMMA TailFrames ==
    ASSUME NEW q \in Seq(Frame), q # <<>>
    PROVE  /\ 1 \in DOMAIN q /\ Head(q) = q[1] /\ q[1] \in Frame
           /\ \A i \in DOMAIN Tail(q) :
                 i \in Nat /\ i # 0 /\ i + 1 \in DOMAIN q /\ Tail(q)[i] = q[i + 1]
  <1>1. Len(q) \in Nat /\ Len(q) # 0 /\ DOMAIN Tail(q) = 1 .. Len(q) - 1
    OBVIOUS
  <1>2. \A i \in 1 .. Len(q) - 1 : Tail(q)[i] = q[i + 1]
    OBVIOUS
  <1> QED
    BY <1>1, <1>2

LEMMA ReadsTrue ==
    ASSUME TypeOK, TypeOK', TruthInv, NEW s \in Sides, Reads(s)
    PROVE  TruthInv'
  <1> DEFINE f == Head(net[s])
             k == [p \in Sides |-> IF p = s THEN 1 ELSE 0]
  <1>0. /\ net[s] \in Seq(Frame) /\ net[s] # <<>> /\ net'[s] = Tail(net[s])
        /\ \A p \in Sides \ {s} : net'[p] = net[p]
    BY DEF Reads, TypeOK
  <1>1. 1 \in DOMAIN net[s] /\ f = net[s][1] /\ f \in Frame
    BY <1>0, TailFrames
  <1>2. ASSUME NEW p \in Sides, NEW i \in DOMAIN net'[p]
        PROVE  /\ i + k[p] \in DOMAIN net[p] /\ net'[p][i] = net[p][i + k[p]]
               /\ i + k[p] # 1 \/ p # s
    <2>1. CASE p = s
      <3>1. i \in Nat /\ i # 0 /\ i + 1 \in DOMAIN net[s] /\ net'[s][i] = net[s][i + 1]
        BY <1>0, <2>1, TailFrames
      <3>2. k[p] = 1
        BY <2>1
      <3> QED
        BY <2>1, <3>1, <3>2
    <2>2. CASE p # s
      <3>1. k[p] = 0 /\ net'[p] = net[p] /\ i \in Nat
        BY <1>0, <2>2 DEF TypeOK
      <3> QED
        BY <2>2, <3>1
    <2> QED
      BY <2>1, <2>2
  <1>3. k \in [Sides -> Nat] /\ Keeps(k)
    BY <1>2 DEF Keeps
  <1>4. OneCallFrame'
    <2> HIDE DEF k
    <2> QED
      BY <1>3, KeepsOneCallFrame DEF TruthInv
  <1> HIDE DEF f, k
  <1>5. FrameIsTrue(f) /\ f.id \in Calls
    BY <1>1 DEF TruthInv, FramesAreTrue, Frame
  <1>6. CASE Resolves(s, f)
    <2>1. /\ UNCHANGED <<call, handler>>
          /\ \A c \in Calls : fut'[c] = fut[c] \/ (c = f.id /\ fut'[c] = f.kind)
          /\ f.kind \in Outcomes
      BY <1>6 DEF Resolves, Settle, Reads, TypeOK
    <2>2. AnswersAreTrue' /\ UnsentIsUnserved'
      BY <1>5, <2>1 DEF FrameIsTrue, TruthInv, AnswersAreTrue, UnsentIsUnserved
    <2>3. FramesAreTrue'
      BY <1>2, <2>1 DEF TruthInv, FramesAreTrue, FrameIsTrue
    <2> QED
      BY <1>4, <2>2, <2>3 DEF TruthInv
  <1>7. CASE Handles(s, f)
    <2>1. /\ UNCHANGED <<call, fut>> /\ f.kind = "call"
          /\ handler' = [handler EXCEPT ![f.id] = "running"]
      BY <1>7 DEF Handles, Reads
    <2>2. handler[f.id] = "none" /\ call[f.id] \notin Unsent
      BY <1>5, <2>1 DEF FrameIsTrue
    <2>3. AnswersAreTrue' /\ UnsentIsUnserved'
      BY <1>5, <2>1, <2>2 DEF TruthInv, AnswersAreTrue, UnsentIsUnserved, Unsent, TypeOK
    <2>4. ASSUME NEW p \in Sides, NEW i \in DOMAIN net'[p]
          PROVE  FrameIsTrue(net[p][i])'
      <3> DEFINE g == net[p][i + k[p]]
      <3>1. /\ i + k[p] \in DOMAIN net[p] /\ net'[p][i] = g
            /\ i + k[p] # 1 \/ p # s
        BY <1>2, <2>4
      <3>2. FrameIsTrue(g) /\ g \in Frame
        BY <3>1 DEF TruthInv, FramesAreTrue, TypeOK
      <3>3. g.id # f.id
        <4>1. g.kind \in Outcomes => handler[g.id] \in Outcomes
          BY <3>2 DEF FrameIsTrue
        <4>2. g.kind = "call" => g.id # f.id
          BY <1>1, <2>1, <3>1 DEF TruthInv, OneCallFrame
        <4>3. g.kind \in {"call"} \cup Outcomes
          BY <3>2 DEF Frame
        <4> QED
          BY <2>2, <4>1, <4>2, <4>3
      <3>4. handler'[g.id] = handler[g.id]
        BY <2>1, <3>2, <3>3 DEF TypeOK, Frame
      <3> QED
        BY <2>1, <3>1, <3>2, <3>4 DEF FrameIsTrue
    <2>5. FramesAreTrue'
      BY <2>4 DEF FramesAreTrue
    <2> QED
      BY <1>4, <2>3, <2>5 DEF TruthInv
  <1> QED
    BY <1>6, <1>7 DEF Reads, f

\* A call goes on the wire once, while it has no handler.
LEMMA SendsTrue ==
    ASSUME TypeOK, TypeOK', TruthInv, NEW c \in Calls, Sends(c)
    PROVE  TruthInv'
  <1> DEFINE to == Other(by[c])
             f == [kind |-> "call", id |-> c]
  <1>1. /\ call[c] = "sending" /\ call' = [call EXCEPT ![c] = "sent"] /\ UNCHANGED <<fut, handler>>
        /\ Deliver(to, "call", c)
    BY DEF Sends, Moves
  <1>2. \A p \in Sides : \A i \in DOMAIN net'[p] :
           \/ i \in DOMAIN net[p] /\ net'[p][i] = net[p][i]
           \/ p = to /\ i = Len(net[to]) + 1 /\ net'[p][i] = f
    BY <1>1, DeliverFrames
  <1>3. handler[c] = "none"
    BY <1>1 DEF TruthInv, UnsentIsUnserved, Unsent
  <1>4. \A p \in Sides : \A i \in DOMAIN net[p] : net[p][i].kind = "call" => net[p][i].id # c
    BY <1>1 DEF TruthInv, FramesAreTrue, FrameIsTrue, Unsent
  <1>5. AnswersAreTrue' /\ UnsentIsUnserved'
    BY <1>1 DEF TruthInv, AnswersAreTrue, UnsentIsUnserved, Unsent, TypeOK
  <1>6. OneCallFrame'
    BY <1>2, <1>4 DEF TruthInv, OneCallFrame
  <1>7. FramesAreTrue'
    <2> SUFFICES ASSUME NEW p \in Sides, NEW i \in DOMAIN net'[p]
                 PROVE  FrameIsTrue(net[p][i])'
      BY DEF FramesAreTrue
    <2>1. CASE i \in DOMAIN net[p] /\ net'[p][i] = net[p][i]
      <3>1. FrameIsTrue(net[p][i]) /\ net[p][i] \in Frame
        BY <2>1 DEF TruthInv, FramesAreTrue, TypeOK
      <3> QED
        BY <1>1, <2>1, <3>1 DEF FrameIsTrue, TypeOK, Unsent, Frame
    <2>2. CASE net'[p][i] = f
      <3>1. net'[p][i].kind = "call" /\ net'[p][i].id = c
        BY <2>2
      <3> QED
        BY <1>1, <1>3, <3>1 DEF FrameIsTrue, TypeOK, Unsent
    <2> QED
      BY <1>2, <2>1, <2>2
  <1> QED
    BY <1>5, <1>6, <1>7 DEF TruthInv

\* An answer goes on the wire while its handler runs, so it is the only one.
LEMMA AnswersTrue ==
    ASSUME TypeOK, TypeOK', TruthInv, NEW c \in Calls, NEW o \in Outcomes, Answers(c, o)
    PROVE  TruthInv'
  <1> DEFINE f == [kind |-> o, id |-> c]
  <1>1. /\ handler[c] = "running" /\ handler' = [handler EXCEPT ![c] = o] /\ UNCHANGED <<call, fut>>
        /\ Deliver(by[c], o, c)
    BY DEF Answers, callVars
  <1>2. \A p \in Sides : \A i \in DOMAIN net'[p] :
           \/ i \in DOMAIN net[p] /\ net'[p][i] = net[p][i]
           \/ p = by[c] /\ i = Len(net[by[c]]) + 1 /\ net'[p][i] = f
    BY <1>1, DeliverFrames
  <1>3. f.kind # "call"
    OBVIOUS
  <1>4. \A p \in Sides : \A i \in DOMAIN net[p] :
           net[p][i].id # c /\ net[p][i].kind \in {"call"} \cup Outcomes
    <2> SUFFICES ASSUME NEW p \in Sides, NEW i \in DOMAIN net[p]
                 PROVE  net[p][i].id # c /\ net[p][i].kind \in {"call"} \cup Outcomes
      OBVIOUS
    <2>1. net[p][i] \in Frame
      BY DEF TypeOK
    <2>2. net[p][i].kind \in {"call"} \cup Outcomes
      BY <2>1 DEF Frame
    <2>3. FrameIsTrue(net[p][i])
      BY DEF TruthInv, FramesAreTrue
    <2> QED
      BY <1>1, <2>2, <2>3 DEF FrameIsTrue
  <1>5. AnswersAreTrue' /\ UnsentIsUnserved'
    BY <1>1 DEF TruthInv, AnswersAreTrue, UnsentIsUnserved, Unsent, TypeOK
  <1>6. OneCallFrame'
    BY <1>2, <1>3 DEF TruthInv, OneCallFrame
  <1>7. FramesAreTrue'
    <2> SUFFICES ASSUME NEW p \in Sides, NEW i \in DOMAIN net'[p]
                 PROVE  FrameIsTrue(net[p][i])'
      BY DEF FramesAreTrue
    <2>1. CASE i \in DOMAIN net[p] /\ net'[p][i] = net[p][i]
      <3>1. FrameIsTrue(net[p][i]) /\ net[p][i] \in Frame /\ net[p][i].id # c
        BY <1>4, <2>1 DEF TruthInv, FramesAreTrue, TypeOK
      <3> QED
        BY <1>1, <2>1, <3>1 DEF FrameIsTrue, TypeOK, Frame
    <2>2. CASE net'[p][i] = f
      <3>1. net'[p][i].kind = o /\ net'[p][i].id = c
        BY <2>2
      <3> QED
        BY <1>1, <3>1 DEF FrameIsTrue, TypeOK
    <2> QED
      BY <1>2, <2>1, <2>2
  <1> QED
    BY <1>5, <1>6, <1>7 DEF TruthInv

\* A step that leaves the wire and the handlers alone, moves a call only to
\* where it may be, and settles no future with an answer.
LEMMA QuietTrue ==
    ASSUME TruthInv, UNCHANGED <<net, handler>>,
           \A c \in Calls : fut'[c] \in Outcomes => fut'[c] = fut[c],
           \A c \in Calls : \/ call'[c] = call[c]
                            \/ call[c] \in Unsent /\ call'[c] \in Unsent
                            \/ call'[c] \notin Unsent \cup Outcomes
                            \/ call'[c] = fut[c] /\ call'[c] \notin Unsent,
           TypeOK
    PROVE  TruthInv'
  <1>1. AnswersAreTrue'
    BY DEF TruthInv, AnswersAreTrue, UnsentIsUnserved, Unsent
  <1>2. UnsentIsUnserved'
    BY DEF TruthInv, UnsentIsUnserved, Unsent
  <1>3. \A s \in Sides : \A i \in DOMAIN net[s] : net[s][i].id \in Calls
    <2>1. \A s \in Sides : \A i \in DOMAIN net[s] : net[s][i] \in Frame
      BY DEF TypeOK
    <2> QED
      BY <2>1 DEF Frame
  <1>4. FramesAreTrue'
    BY <1>3 DEF TruthInv, FramesAreTrue, FrameIsTrue, Unsent
  <1> QED
    BY <1>1, <1>2, <1>4 DEF TruthInv, OneCallFrame

LEMMA TruthStep ==
    ASSUME TypeOK, TypeOK', FutureExists, TruthInv, [Next]_vars
    PROVE  TruthInv'
  <1>1. CASE UNCHANGED vars
    BY <1>1, QuietTrue DEF vars, callVars
  <1>2. ASSUME NEW c \in Calls, Call(c) PROVE TruthInv'
    BY <1>2, QuietTrue DEF Call, Moves, Unsent, TypeOK
  <1>3. ASSUME NEW c \in Calls, Caller(c) PROVE TruthInv'
    <2>1. CASE Sends(c)
      BY <2>1, SendsTrue
    <2>2. CASE SendReturns(c)
      BY <2>2, QuietTrue DEF SendReturns, Moves, Unsent, TypeOK
    <2>3. CASE SendFails(c)
      BY <2>3, QuietTrue DEF SendFails, Moves, Unsent, TypeOK
    <2>4. CASE Returns(c)
      <3>1. fut[c] \notin Unsent
        BY DEF TypeOK, Unsent
      <3> QED
        BY <2>4, <3>1, QuietTrue DEF Returns, Moves, TypeOK
    <2> QED
      BY <1>3, <2>1, <2>2, <2>3, <2>4 DEF Caller
  <1>4. ASSUME NEW c \in Calls, Abandon(c) PROVE TruthInv'
    <2>1. UNCHANGED <<net, handler>> /\ call' = [call EXCEPT ![c] = "cancelled"]
      BY <1>4 DEF Abandon, Moves
    <2>2. \A d \in Calls : fut'[d] \in Outcomes => fut'[d] = fut[d]
      BY <1>4 DEF Abandon, TypeOK
    <2> QED
      BY <2>1, <2>2, QuietTrue DEF Unsent, TypeOK
  <1>5. ASSUME NEW c \in Calls, Handler(c) PROVE TruthInv'
    <2>1. CASE Stops(c)
      <3>1. /\ handler[c] = "running" /\ handler' = [handler EXCEPT ![c] = "stopped"]
            /\ UNCHANGED <<net, call, fut>>
        BY <2>1 DEF Stops, callVars
      <3>2. ASSUME NEW p \in Sides, NEW i \in DOMAIN net[p] PROVE FrameIsTrue(net[p][i])'
        <4>1. FrameIsTrue(net[p][i]) /\ net[p][i] \in Frame
          BY <3>2 DEF TruthInv, FramesAreTrue, TypeOK
        <4> QED
          BY <3>1, <4>1 DEF FrameIsTrue, Frame, TypeOK
      <3>3. AnswersAreTrue' /\ UnsentIsUnserved'
        BY <3>1 DEF TruthInv, AnswersAreTrue, UnsentIsUnserved, TypeOK
      <3> QED
        BY <3>1, <3>2, <3>3 DEF TruthInv, FramesAreTrue, OneCallFrame
    <2> QED
      BY <1>5, <2>1, AnswersTrue DEF Handler
  <1>6. ASSUME NEW s \in Sides, Reader(s) PROVE TruthInv'
    <2>1. CASE RecvFails(s) \/ ReaderStops(s)
      BY <2>1, QuietTrue DEF RecvFails, ReaderStops, callVars
    <2> QED
      BY <1>6, <2>1, ReadsTrue DEF Reader
  <1>7. ASSUME NEW s \in Sides, Closer(s) \/ UserCloses(s) PROVE TruthInv'
    <2>1. UNCHANGED <<net, handler, call>>
      BY <1>7 DEF Closer, UserCloses, ScheduledClose, CloseEnds, callVars
    <2>2. CASE CloseBegins(s)
      BY <2>1, <2>2, SettleType, QuietTrue DEF CloseBegins, TypeOK
    <2>3. CASE UNCHANGED fut
      BY <2>1, <2>3, QuietTrue
    <2> QED
      BY <1>7, <2>2, <2>3 DEF Closer, UserCloses, ScheduledClose, CloseEnds, callVars
  <1> QED
    BY <1>1, <1>2, <1>3, <1>4, <1>5, <1>6, <1>7, BreaksTrue DEF Next

\* Whoever gets an answer gets what the handler of that very call produced,
\* and a call that was refused never ran: for any number of calls in both
\* directions, through connections that break and sides that close.
THEOREM AnswersAlwaysAreTrue == Spec => []AnswersAreTrue
  <1>1. Init => TruthInv
    BY DEF Init, TruthInv, FramesAreTrue, OneCallFrame, UnsentIsUnserved, AnswersAreTrue
  <1>2. IInv /\ IInv' /\ TruthInv /\ [Next]_vars => TruthInv'
    BY TruthStep DEF IInv
  <1>3. TruthInv => AnswersAreTrue
    BY DEF TruthInv
  <1> QED
    BY <1>1, <1>2, <1>3, Inductive, PTL DEF Spec
----------------------------------------------------------------------------
(* No call vanishes while the transport is up.                             *)

\* No answer is on the wire twice.
OneAnswerFrame ==
    \A s \in Sides, p \in Sides : \A i \in DOMAIN net[s], j \in DOMAIN net[p] :
        /\ net[s][i].kind \in Outcomes /\ net[p][j].kind \in Outcomes
        /\ net[s][i].id = net[p][j].id
        => s = p /\ i = j

IsOn(s, kinds, c) == \E i \in DOMAIN net[s] : net[s][i].kind \in kinds /\ net[s][i].id = c

Awaits(c) == call[c] \in {"sent", "waiting"} /\ fut[c] = "open"

\* An unanswered call whose handler has not begun is on the wire, and the
\* answer of a handler that has ended is.
Somewhere(c) ==
    link = "up" /\ Awaits(c) =>
        /\ handler[c] = "none" => IsOn(Other(by[c]), {"call"}, c)
        /\ handler[c] \in Outcomes => IsOn(by[c], Outcomes, c)

PlaceInv == OneAnswerFrame /\ \A c \in Calls : Somewhere(c)

LEMMA OtherIsSide ==
    ASSUME NEW s \in Sides PROVE Other(s) \in Sides /\ Other(s) # s
  <1>1. \E p \in Sides : p # s
    <2> SUFFICES ASSUME Sides = {s} PROVE FALSE
      OBVIOUS
    <2>1. Cardinality({s}) = 1
      BY FS_Singleton
    <2> QED
      BY <2>1, ChannelAssumption
  <1> QED
    BY <1>1 DEF Other

LEMMA KeepsOneAnswerFrame ==
    ASSUME TypeOK, TypeOK', OneAnswerFrame, NEW k \in [Sides -> Nat], Keeps(k)
    PROVE  OneAnswerFrame'
  <1> SUFFICES ASSUME NEW s \in Sides, NEW p \in Sides,
                      NEW i \in DOMAIN net'[s], NEW j \in DOMAIN net'[p],
                      net'[s][i].kind \in Outcomes, net'[p][j].kind \in Outcomes,
                      net'[s][i].id = net'[p][j].id
               PROVE  s = p /\ i = j
    BY DEF OneAnswerFrame
  <1>1. s = p /\ i + k[s] = j + k[p]
    BY DEF Keeps, OneAnswerFrame
  <1>2. i \in Nat /\ j \in Nat /\ k[s] \in Nat
    BY DEF TypeOK
  <1> QED
    BY <1>1, <1>2

\* A transport that is up takes the frame, and keeps those before it.
LEMMA DeliverArrives ==
    ASSUME TypeOK, link = "up", NEW s \in Sides, NEW kind, NEW c, Deliver(s, kind, c)
    PROVE  /\ IsOn(s, {kind}, c)'
           /\ \A p \in Sides : \A i \in DOMAIN net[p] : i \in DOMAIN net'[p] /\ net'[p][i] = net[p][i]
  <1> DEFINE f == [kind |-> kind, id |-> c]
  <1>1. net' = [net EXCEPT ![s] = Append(net[s], f)]
    BY DEF Deliver
  <1>2. /\ net'[s] = Append(net[s], f) /\ net[s] \in Seq(Frame)
        /\ \A p \in Sides \ {s} : net'[p] = net[p]
    BY <1>1 DEF TypeOK
  <1>3. /\ Len(net[s]) + 1 \in DOMAIN net'[s] /\ net'[s][Len(net[s]) + 1] = f
        /\ \A i \in DOMAIN net[s] : i \in DOMAIN net'[s] /\ net'[s][i] = net[s][i]
    BY <1>2
  <1> QED
    BY <1>2, <1>3 DEF IsOn

\* A call that was awaited before, whose handler has not moved, and whose
\* frames are where they were.
LEMMA StaysSomewhere ==
    ASSUME TypeOK, NEW c \in Calls, Somewhere(c), by' = by,
           link' = "up" => link = "up", Awaits(c)' => Awaits(c), handler'[c] = handler[c],
           \A s \in Sides : \A i \in DOMAIN net[s] : net[s][i].id = c =>
               \E j \in DOMAIN net'[s] : net'[s][j] = net[s][i]
    PROVE  Somewhere(c)'
  <1>1. by[c] \in Sides /\ Other(by[c]) \in Sides
    BY OtherIsSide DEF TypeOK
  <1>2. Other(by[c])' = Other(by[c])
    BY DEF Other
  <1>3. IsOn(Other(by[c]), {"call"}, c) => IsOn(Other(by[c]), {"call"}, c)'
    BY <1>1, <1>2 DEF IsOn
  <1>4. IsOn(by[c], Outcomes, c) => IsOn(by[c], Outcomes, c)'
    BY <1>1 DEF IsOn
  <1> QED
    BY <1>2, <1>3, <1>4 DEF Somewhere

\* A step that leaves the wire and the handlers alone and makes no call await.
LEMMA QuietPlaces ==
    ASSUME TypeOK, PlaceInv, UNCHANGED <<net, by, handler>>, link' = "up" => link = "up",
           \A c \in Calls : Awaits(c)' => Awaits(c)
    PROVE  PlaceInv'
  <1>1. ASSUME NEW c \in Calls PROVE Somewhere(c)'
    BY StaysSomewhere DEF PlaceInv
  <1> QED
    BY <1>1 DEF PlaceInv, OneAnswerFrame

LEMMA SendsPlaces ==
    ASSUME TypeOK, TypeOK', TruthInv, PlaceInv, NEW c \in Calls, Sends(c)
    PROVE  PlaceInv'
  <1>1. PICK to \in Sides : to = Other(by[c])
    BY OtherIsSide DEF TypeOK
  <1>2. /\ call[c] = "sending" /\ call' = [call EXCEPT ![c] = "sent"]
        /\ UNCHANGED <<link, by, fut, handler>> /\ Deliver(to, "call", c)
    BY <1>1 DEF Sends, Moves
  <1>3. OneAnswerFrame'
    <2>1. \A p \in Sides : \A i \in DOMAIN net'[p] :
             \/ i \in DOMAIN net[p] /\ net'[p][i] = net[p][i]
             \/ net'[p][i] = [kind |-> "call", id |-> c]
      BY <1>2, DeliverFrames
    <2>2. [kind |-> "call", id |-> c].kind = "call"
      OBVIOUS
    <2> QED
      BY <2>1, <2>2 DEF PlaceInv, OneAnswerFrame
  <1>4. ASSUME NEW d \in Calls, link = "up" PROVE Somewhere(d)'
    <2>1. /\ IsOn(to, {"call"}, c)'
          /\ \A p \in Sides : \A i \in DOMAIN net[p] : i \in DOMAIN net'[p] /\ net'[p][i] = net[p][i]
      BY <1>1, <1>2, <1>4, DeliverArrives
    <2>2. CASE d = c
      <3>1. handler'[c] = "none"
        BY <1>2 DEF TruthInv, UnsentIsUnserved, Unsent
      <3>2. Other(by[c])' = to
        BY <1>1, <1>2 DEF Other
      <3>3. IsOn(Other(by[c]), {"call"}, c)'
        BY <2>1, <3>2 DEF IsOn
      <3> QED
        BY <2>2, <3>1, <3>3 DEF Somewhere
    <2>3. CASE d # c
      <3>1. Awaits(d)' => Awaits(d)
        BY <1>2, <2>3 DEF Awaits, TypeOK
      <3> QED
        BY <1>2, <2>1, <3>1, StaysSomewhere DEF PlaceInv
    <2> QED
      BY <2>2, <2>3
  <1>5. ASSUME NEW d \in Calls, link # "up" PROVE Somewhere(d)'
    BY <1>2, <1>5 DEF Somewhere
  <1> QED
    BY <1>3, <1>4, <1>5 DEF PlaceInv

LEMMA AnswersPlaces ==
    ASSUME TypeOK, TypeOK', TruthInv, PlaceInv, NEW c \in Calls, NEW o \in Outcomes, Answers(c, o)
    PROVE  PlaceInv'
  <1>1. /\ handler[c] = "running" /\ handler' = [handler EXCEPT ![c] = o]
        /\ UNCHANGED <<link, by, call, fut>> /\ Deliver(by[c], o, c)
    BY DEF Answers, callVars
  <1>2. by[c] \in Sides
    BY DEF TypeOK
  <1>3. OneAnswerFrame'
    <2>1. \A p \in Sides : \A i \in DOMAIN net'[p] :
             \/ i \in DOMAIN net[p] /\ net'[p][i] = net[p][i]
             \/ p = by[c] /\ i = Len(net[by[c]]) + 1 /\ net'[p][i] = [kind |-> o, id |-> c]
      BY <1>1, DeliverFrames
    <2>2. [kind |-> o, id |-> c].id = c
      OBVIOUS
    <2>3. \A p \in Sides : \A i \in DOMAIN net[p] : net[p][i].kind \in Outcomes => net[p][i].id # c
      BY <1>1 DEF TruthInv, FramesAreTrue, FrameIsTrue
    <2> QED
      BY <2>1, <2>2, <2>3 DEF PlaceInv, OneAnswerFrame
  <1>4. ASSUME NEW d \in Calls, link = "up" PROVE Somewhere(d)'
    <2>1. /\ IsOn(by[c], {o}, c)'
          /\ \A p \in Sides : \A i \in DOMAIN net[p] : i \in DOMAIN net'[p] /\ net'[p][i] = net[p][i]
      BY <1>1, <1>2, <1>4, DeliverArrives
    <2>2. CASE d = c
      <3>1. handler'[c] = o
        BY <1>1 DEF TypeOK
      <3>2. IsOn(by[c], Outcomes, c)'
        BY <1>1, <2>1 DEF IsOn
      <3> QED
        BY <2>2, <3>1, <3>2 DEF Somewhere
    <2>3. CASE d # c
      <3>1. (Awaits(d)' => Awaits(d)) /\ handler'[d] = handler[d]
        BY <1>1, <2>3 DEF Awaits, TypeOK
      <3> QED
        BY <1>1, <2>1, <3>1, StaysSomewhere DEF PlaceInv
    <2> QED
      BY <2>2, <2>3
  <1>5. ASSUME NEW d \in Calls, link # "up" PROVE Somewhere(d)'
    BY <1>1, <1>5 DEF Somewhere
  <1> QED
    BY <1>3, <1>4, <1>5 DEF PlaceInv

\* What the reader takes is either a call, whose handler begins, or the answer
\* of a call, which the table still has if its caller waits for it.
LEMMA ReadsPlaces ==
    ASSUME TypeOK, TypeOK', WaitersAreTracked, PlaceInv, NEW s \in Sides, Reads(s)
    PROVE  PlaceInv'
  <1> DEFINE f == Head(net[s])
             k == [p \in Sides |-> IF p = s THEN 1 ELSE 0]
  <1>0. /\ net[s] \in Seq(Frame) /\ net[s] # <<>> /\ net'[s] = Tail(net[s])
        /\ \A p \in Sides \ {s} : net'[p] = net[p]
        /\ UNCHANGED <<link, by, call>>
    BY DEF Reads, TypeOK
  <1>1. 1 \in DOMAIN net[s] /\ f = net[s][1] /\ f \in Frame
    BY <1>0, TailFrames
  <1>2. k \in [Sides -> Nat] /\ Keeps(k)
    <2> SUFFICES ASSUME NEW p \in Sides, NEW i \in DOMAIN net'[p]
                 PROVE  i + k[p] \in DOMAIN net[p] /\ net'[p][i] = net[p][i + k[p]]
      BY DEF Keeps
    <2>1. CASE p = s
      <3>1. k[p] = 1
        BY <2>1
      <3> QED
        BY <1>0, <2>1, <3>1, TailFrames
    <2>2. CASE p # s
      <3>1. k[p] = 0 /\ net'[p] = net[p] /\ i \in Nat
        BY <1>0, <2>2 DEF TypeOK
      <3> QED
        BY <3>1
    <2> QED
      BY <2>1, <2>2
  <1>3. OneAnswerFrame'
    <2> HIDE DEF k
    <2> QED
      BY <1>2, KeepsOneAnswerFrame DEF PlaceInv
  <1> HIDE DEF f, k
  <1>4. ASSUME NEW p \in Sides, NEW i \in DOMAIN net[p], ~(p = s /\ i = 1)
        PROVE  \E j \in DOMAIN net'[p] : net'[p][j] = net[p][i]
    <2>1. CASE p = s
      <3>1. Len(net[s]) \in Nat /\ DOMAIN net[s] = 1 .. Len(net[s]) /\ DOMAIN Tail(net[s]) = 1 .. Len(net[s]) - 1
        BY <1>0
      <3>2. i - 1 \in DOMAIN Tail(net[s])
        BY <1>4, <2>1, <3>1
      <3>3. Tail(net[s])[i - 1] = net[s][i]
        BY <1>0, <3>1, <3>2, <2>1
      <3> QED
        BY <1>0, <2>1, <3>2, <3>3
    <2>2. CASE p # s
      BY <1>0, <2>2
    <2> QED
      BY <2>1, <2>2
  <1>5. ASSUME NEW c \in Calls, c # f.id, handler'[c] = handler[c], Awaits(c)' => Awaits(c)
        PROVE  Somewhere(c)'
    BY <1>0, <1>1, <1>4, <1>5, StaysSomewhere DEF PlaceInv
  <1>6. CASE Resolves(s, f)
    <2>1. /\ handler' = handler /\ f.kind \in Outcomes
          /\ \A c \in Calls : fut'[c] = IF c = f.id /\ c \in pending[s] /\ fut[c] = "open" THEN f.kind ELSE fut[c]
      BY <1>6 DEF Resolves, Settle
    <2>2. \A c \in Calls : Awaits(c)' => Awaits(c)
      BY <1>0, <2>1 DEF Awaits
    <2>3. ASSUME NEW c \in Calls, c = f.id PROVE Somewhere(c)'
      <3> SUFFICES ASSUME link = "up", Awaits(c)' PROVE Somewhere(c)'
        BY <1>0 DEF Somewhere
      <3>1. Awaits(c) /\ c \in pending[by[c]] /\ by[c] \in Sides /\ Other(by[c]) \in Sides
        BY <2>2, OtherIsSide DEF Awaits, WaitersAreTracked, TypeOK
      <3>2. by[c] # s
        BY <2>1, <2>3, <3>1 DEF Awaits
      <3>3. Other(by[c])' = Other(by[c])
        BY <1>0 DEF Other
      <3>4. IsOn(by[c], Outcomes, c) => IsOn(by[c], Outcomes, c)'
        BY <1>0, <3>1, <3>2 DEF IsOn
      <3>5. ASSUME IsOn(Other(by[c]), {"call"}, c) PROVE IsOn(Other(by[c]), {"call"}, c)'
        <4> DEFINE q == Other(by[c])
        <4>1. PICK i \in DOMAIN net[q] : net[q][i].kind = "call" /\ net[q][i].id = c
          BY <3>5 DEF IsOn
        <4>2. ~(q = s /\ i = 1)
          BY <1>1, <2>1, <4>1
        <4>3. PICK j \in DOMAIN net'[q] : net'[q][j] = net[q][i]
          BY <1>4, <3>1, <4>2
        <4> QED
          BY <3>3, <4>1, <4>3 DEF IsOn
      <3> QED
        BY <1>0, <2>1, <3>1, <3>3, <3>4, <3>5 DEF Somewhere, PlaceInv
    <2>4. \A c \in Calls : Somewhere(c)'
      BY <1>5, <2>1, <2>2, <2>3
    <2> QED
      BY <1>3, <2>4 DEF PlaceInv
  <1>7. CASE Handles(s, f)
    <2>1. fut' = fut /\ handler' = [handler EXCEPT ![f.id] = "running"]
      BY <1>7 DEF Handles
    <2>2. ASSUME NEW c \in Calls PROVE Somewhere(c)'
      <3>1. CASE c = f.id
        BY <2>1, <3>1 DEF Somewhere, TypeOK
      <3>2. CASE c # f.id
        <4>1. handler'[c] = handler[c] /\ (Awaits(c)' => Awaits(c))
          BY <1>0, <2>1, <3>2 DEF Awaits, TypeOK
        <4> QED
          BY <1>5, <3>2, <4>1
      <3> QED
        BY <3>1, <3>2
    <2> QED
      BY <1>3, <2>2 DEF PlaceInv
  <1> QED
    BY <1>6, <1>7 DEF Reads, f

LEMMA BreaksPlaces ==
    ASSUME TypeOK, TypeOK', PlaceInv, Breaks
    PROVE  PlaceInv'
  <1>1. PICK n \in [Sides -> 0 .. Cardinality(Calls)] :
          /\ \A s \in Sides : n[s] <= Len(net[s])
          /\ net' = [s \in Sides |-> SubSeq(net[s], 1, n[s])]
    BY DEF Breaks
  <1> DEFINE k == [s \in Sides |-> 0]
  <1>2. Keeps(k)
    <2> SUFFICES ASSUME NEW s \in Sides, NEW i \in DOMAIN net'[s]
                 PROVE  i \in DOMAIN net[s] /\ net'[s][i] = net[s][i] /\ i + 0 = i
      BY DEF Keeps
    <2>1. net[s] \in Seq(Frame) /\ n[s] \in Nat /\ n[s] <= Len(net[s]) /\ net'[s] = SubSeq(net[s], 1, n[s])
      BY <1>1 DEF TypeOK
    <2> QED
      BY <2>1
  <1>3. k \in [Sides -> Nat]
    OBVIOUS
  <1> HIDE DEF k
  <1>4. OneAnswerFrame'
    BY <1>2, <1>3, KeepsOneAnswerFrame DEF PlaceInv
  <1> QED
    BY <1>4 DEF PlaceInv, Somewhere, Breaks

LEMMA PlaceStep ==
    ASSUME TypeOK, TypeOK', WaitersAreTracked, TruthInv, PlaceInv, [Next]_vars
    PROVE  PlaceInv'
  <1>1. CASE UNCHANGED vars
    BY <1>1, QuietPlaces DEF vars, callVars, Awaits
  <1>2. ASSUME NEW c \in Calls, Call(c) PROVE PlaceInv'
    <2>1. /\ UNCHANGED <<net, link, by, handler>>
          /\ call' = [call EXCEPT ![c] = "refused"] \/ call' = [call EXCEPT ![c] = "sending"]
          /\ \A d \in Calls \ {c} : fut'[d] = fut[d]
      BY <1>2 DEF Call, Moves, TypeOK
    <2> QED
      BY <2>1, QuietPlaces DEF Awaits, TypeOK
  <1>3. ASSUME NEW c \in Calls, Caller(c) PROVE PlaceInv'
    <2>1. CASE Sends(c)
      BY <2>1, SendsPlaces
    <2>2. CASE SendReturns(c)
      BY <2>2, QuietPlaces DEF SendReturns, Moves, Awaits, TypeOK
    <2>3. CASE SendFails(c)
      BY <2>3, QuietPlaces DEF SendFails, Moves, Awaits, TypeOK
    <2>4. CASE Returns(c)
      BY <2>4, QuietPlaces DEF Returns, Moves, Awaits, TypeOK
    <2> QED
      BY <1>3, <2>1, <2>2, <2>3, <2>4 DEF Caller
  <1>4. ASSUME NEW c \in Calls, Abandon(c) PROVE PlaceInv'
    BY <1>4, QuietPlaces DEF Abandon, Moves, Awaits, TypeOK
  <1>5. ASSUME NEW c \in Calls, Handler(c) PROVE PlaceInv'
    <2>1. CASE Stops(c)
      <3>1. /\ handler' = [handler EXCEPT ![c] = "stopped"] /\ UNCHANGED <<link, net, by, call, fut>>
        BY <2>1 DEF Stops, callVars
      <3>2. ASSUME NEW d \in Calls PROVE Somewhere(d)'
        <4>1. CASE d = c
          BY <3>1, <4>1 DEF Somewhere, TypeOK
        <4>2. CASE d # c
          <5>1. handler'[d] = handler[d] /\ (Awaits(d)' => Awaits(d))
            BY <3>1, <4>2 DEF Awaits, TypeOK
          <5> QED
            BY <3>1, <5>1, StaysSomewhere DEF PlaceInv
        <4> QED
          BY <4>1, <4>2
      <3> QED
        BY <3>1, <3>2 DEF PlaceInv, OneAnswerFrame
    <2> QED
      BY <1>5, <2>1, AnswersPlaces DEF Handler
  <1>6. ASSUME NEW s \in Sides, Reader(s) PROVE PlaceInv'
    <2>1. CASE RecvFails(s) \/ ReaderStops(s)
      BY <2>1, QuietPlaces DEF RecvFails, ReaderStops, callVars, Awaits
    <2> QED
      BY <1>6, <2>1, ReadsPlaces DEF Reader
  <1>7. ASSUME NEW s \in Sides, Closer(s) \/ UserCloses(s) PROVE PlaceInv'
    <2>1. UNCHANGED <<net, by, handler, call>> /\ (link' = "up" => link = "up")
      BY <1>7 DEF Closer, UserCloses, ScheduledClose, CloseEnds, callVars
    <2>2. CASE CloseBegins(s)
      <3>1. \A c \in Calls : fut'[c] = "open" => fut[c] = "open"
        BY <2>2, SettleType DEF CloseBegins
      <3> QED
        BY <2>1, <3>1, QuietPlaces DEF Awaits
    <2>3. CASE UNCHANGED fut
      BY <2>1, <2>3, QuietPlaces DEF Awaits
    <2> QED
      BY <1>7, <2>2, <2>3 DEF Closer, UserCloses, ScheduledClose, CloseEnds, callVars
  <1> QED
    BY <1>1, <1>2, <1>3, <1>4, <1>5, <1>6, <1>7, BreaksPlaces DEF Next

\* The frames of one call in one direction are one, or none.
LEMMA OneOrNone ==
    ASSUME NEW c, NEW s, NEW kinds,
           \A i, j \in OnTheWay(c, s, kinds) : i = j
    PROVE  Cardinality(OnTheWay(c, s, kinds)) = IF IsOn(s, kinds, c) THEN 1 ELSE 0
  <1>1. IsOn(s, kinds, c) <=> OnTheWay(c, s, kinds) # {}
    BY DEF IsOn, OnTheWay
  <1>2. CASE OnTheWay(c, s, kinds) = {}
    BY <1>1, <1>2, FS_EmptySet
  <1>3. CASE OnTheWay(c, s, kinds) # {}
    <2>1. PICK i : OnTheWay(c, s, kinds) = {i}
      BY <1>3
    <2> QED
      BY <1>1, <1>3, <2>1, FS_Singleton
  <1> QED
    BY <1>2, <1>3

LEMMA PlacesAreOne ==
    ASSUME TypeOK, TruthInv, PlaceInv PROVE NoCallVanishes
  <1> SUFFICES ASSUME link = "up", NEW c \in Calls, Awaits(c)
               PROVE  Cardinality(OnTheWay(c, Other(by[c]), {"call"}))
                        + (IF handler[c] \in {"running", "stopped"} THEN 1 ELSE 0)
                        + Cardinality(OnTheWay(c, by[c], Outcomes)) = 1
    BY DEF NoCallVanishes, Awaits
  <1> DEFINE a == Other(by[c])
             b == by[c]
  <1>1. a \in Sides /\ b \in Sides
    BY OtherIsSide DEF TypeOK
  <1> HIDE DEF a, b
  <1>2. Cardinality(OnTheWay(c, a, {"call"})) = IF IsOn(a, {"call"}, c) THEN 1 ELSE 0
    <2>1. \A i, j \in OnTheWay(c, a, {"call"}) : i = j
      BY <1>1 DEF OnTheWay, TruthInv, OneCallFrame
    <2> QED
      BY <2>1, OneOrNone
  <1>3. Cardinality(OnTheWay(c, b, Outcomes)) = IF IsOn(b, Outcomes, c) THEN 1 ELSE 0
    <2>1. \A i, j \in OnTheWay(c, b, Outcomes) : i = j
      BY <1>1 DEF OnTheWay, PlaceInv, OneAnswerFrame
    <2> QED
      BY <2>1, OneOrNone
  <1>4. IsOn(a, {"call"}, c) => handler[c] = "none"
    BY <1>1 DEF IsOn, TruthInv, FramesAreTrue, FrameIsTrue
  <1>5. IsOn(b, Outcomes, c) => handler[c] \in Outcomes
    BY <1>1 DEF IsOn, TruthInv, FramesAreTrue, FrameIsTrue
  <1>6. /\ handler[c] = "none" => IsOn(a, {"call"}, c)
        /\ handler[c] \in Outcomes => IsOn(b, Outcomes, c)
    BY DEF PlaceInv, Somewhere, a, b
  <1>7. handler[c] \in {"none", "running", "stopped"} \cup Outcomes
    BY DEF TypeOK
  <1>8. CASE handler[c] = "none"
    BY <1>2, <1>3, <1>5, <1>6, <1>8 DEF a, b
  <1>9. CASE handler[c] \in {"running", "stopped"}
    BY <1>2, <1>3, <1>4, <1>5, <1>9 DEF a, b
  <1>10. CASE handler[c] \in Outcomes
    BY <1>2, <1>3, <1>4, <1>6, <1>10 DEF a, b
  <1> QED
    BY <1>7, <1>8, <1>9, <1>10

\* As long as the transport is up, a call that its caller awaits is in exactly
\* one place, on its way, in its handler or on its way back, however many calls
\* and answers of both sides cross.
THEOREM NoCallEverVanishes == Spec => []NoCallVanishes
  <1>1. Init => TruthInv /\ PlaceInv
    <2>1. DOMAIN <<>> = {}
      OBVIOUS
    <2> QED
      BY <2>1 DEF Init, TruthInv, FramesAreTrue, OneCallFrame, UnsentIsUnserved, AnswersAreTrue,
                  PlaceInv, OneAnswerFrame, Somewhere, Awaits
  <1>2. IInv /\ IInv' /\ TruthInv /\ PlaceInv /\ [Next]_vars => TruthInv' /\ PlaceInv'
    BY TruthStep, PlaceStep DEF IInv
  <1>3. IInv /\ TruthInv /\ PlaceInv => NoCallVanishes
    BY PlacesAreOne DEF IInv
  <1> QED
    BY <1>1, <1>2, <1>3, Inductive, PTL DEF Spec
=============================================================================
