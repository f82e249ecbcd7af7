--------------------------- MODULE ThreadService ---------------------------
(***************************************************************************)
(* What a hosted thread promises the holders of its handle: requests are   *)
(* served one at a time, in the order they were submitted; each is settled *)
(* at most once; nobody but the caller settles a request that is still     *)
(* waiting, except when the whole line is dropped at the end of the thread *)
(* (the marker of terminate reached, or terminate_now).                    *)
(***************************************************************************)
EXTENDS Naturals, Sequences

CONSTANTS Threads, Requests, TerminateAfterIdle

VARIABLES line, \* what each thread has accepted and not yet finished with
          busy, \* threads serving the head of their line
          fut   \* the caller's view of each request

vars == <<line, busy, fut>>

Init ==
    /\ line = [t \in Threads |-> <<>>]
    /\ busy = {}
    /\ fut = [r \in Requests |-> "new"]

Pending(r) == fut[r] = "pending"

InLine(t) == {line[t][i] : i \in DOMAIN line[t]}

Accept(t, r) ==
    /\ fut[r] = "new"
    /\ line' = [line EXCEPT ![t] = Append(@, r)]
    /\ fut' = [fut EXCEPT ![r] = "pending"]
    /\ UNCHANGED busy

\* terminate marks one thread, close marks several at once.
AcceptMarker(S) ==
    /\ line' = [t \in Threads |-> IF t \in S THEN Append(line[t], TerminateAfterIdle) ELSE line[t]]
    /\ UNCHANGED <<busy, fut>>

Withdraw(r) ==
    /\ Pending(r)
    /\ fut' = [fut EXCEPT ![r] = "cancelled"]
    /\ UNCHANGED <<line, busy>>

Begin(t) ==
    /\ t \notin busy /\ line[t] # <<>>
    /\ Head(line[t]) \in Requests
    /\ busy' = busy \cup {t}
    /\ UNCHANGED <<line, fut>>

Answer(t, outcome) ==
    /\ t \in busy
    /\ busy' = busy \ {t}
    /\ line' = [line EXCEPT ![t] = Tail(@)]
    /\ fut' = [fut EXCEPT ![Head(line[t])] = IF @ = "pending" THEN outcome ELSE @]

\* The thread is gone; what still waits is rejected, never answered.
Drop(t) ==
    /\ t \notin busy
    /\ line' = [line EXCEPT ![t] = <<>>]
    /\ fut' = [r \in Requests |-> IF r \in InLine(t) /\ Pending(r) THEN "cancelled" ELSE fut[r]]
    /\ UNCHANGED busy

Next ==
    \/ \E t \in Threads :
          \/ \E r \in Requests : Accept(t, r)
          \/ Begin(t)
          \/ \E o \in {"result", "error", "cancelled"} : Answer(t, o)
          \/ Drop(t)
    \/ \E S \in SUBSET Threads : AcceptMarker(S)
    \/ \E r \in Requests : Withdraw(r)

Spec == Init /\ [][Next]_vars
=============================================================================
