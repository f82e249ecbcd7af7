------------------------------ MODULE MemoryStore ------------------------------
(***************************************************************************)
(* JSONMemoryBackend: one list parameter of each actor, the ledger of its  *)
(* entry ids, the calls that edit it, the file the actors share, and the   *)
(* recall of a view that traced threads consume.  An entry is the number   *)
(* of the call that made it, whatever its text becomes.                    *)
(***************************************************************************)
EXTENDS Naturals, FiniteSets, SequencesExt

CONSTANTS Actors,
          Calls,         \* edits in flight at a time: tools run in OS threads
          Traces,        \* traced threads that consume the one view
          ClosesOverlap, \* whether close may run in two processes at a time
          EntryBound, OpenBound

VARIABLES
    file,     \* record of each actor in the shared file
    store,    \* the backend an actor has open
    snapshot, \* on_disk of a close that has read and not yet replaced
    call,     \* edits under way
    made,     \* entries made
    opened,   \* times each actor was opened
    names,    \* history: the <<id, entry>> pairs an actor handed out
    saved,    \* history: what each actor persisted last
    emitted, trace, logs  \* the view's flag, its consumers, the logs that have it

storeVars == <<store, call, made, names>>
fileVars == <<file, snapshot, saved>>
viewVars == <<emitted, trace, logs>>
vars == <<storeVars, fileVars, opened, viewVars>>

Absent == [values |-> <<>>, ids |-> <<>>, next |-> 0]
Closed == Absent
Idle == [op |-> "none", actor |-> "none", id |-> 0, at |-> 0, step |-> 0]
Opened(a) == store[a].next > 0
Unread == [read |-> FALSE]

TypeOK ==
    /\ \A a \in Actors : store[a].next \in Nat /\ \A i \in ToSet(store[a].ids) : i < store[a].next
    /\ \A c \in Calls : call[c].op \in {"none", "add", "update", "remove"} /\ call[c].step \in 0..4
    /\ made <= EntryBound + 1 /\ logs \subseteq Traces

\* A legacy record holds values and no ledger.
Init ==
    /\ \E legacy \in SUBSET Actors :
         file = [a \in Actors |-> IF a \in legacy THEN [values |-> <<1>>, ids |-> <<>>, next |-> 0] ELSE Absent]
    /\ store = [a \in Actors |-> Closed] /\ snapshot = [a \in Actors |-> Unread]
    /\ call = [c \in Calls |-> Idle] /\ made = 1 /\ opened = [a \in Actors |-> 0]
    /\ names = [a \in Actors |-> {}] /\ saved = file
    /\ emitted = FALSE /\ trace = [t \in Traces |-> "ready"] /\ logs = {}

----------------------------------------------------------------------------
\* _alloc_id for every value: n fresh ids from the counter, which only grows.
FreshIds(next, values) == [k \in 1..Len(values) |-> next + k - 1]

\* Mutant: a rebuilt ledger starts counting from 1 again.
RebuildFromOne(r) ==
    LET next == IF r.next = 0 THEN 1 ELSE r.next
    IN  IF Len(r.ids) = Len(r.values) THEN [r EXCEPT !.next = next]
        ELSE [values |-> r.values, ids |-> FreshIds(1, r.values), next |-> Len(r.values) + 1]

\* _ensure_ledgers: an aligned ledger is kept, any other is rebuilt.
EnsureLedger(r) ==
    LET next == IF r.next = 0 THEN 1 ELSE r.next
    IN  IF Len(r.ids) = Len(r.values) THEN [r EXCEPT !.next = next]
        ELSE [values |-> r.values, ids |-> FreshIds(next, r.values), next |-> next + Len(r.values)]

Pairs(s) == {<<s.ids[k], s.values[k]>> : k \in 1..Len(s.ids)}

\* __init__: the actor's record is read from the file.
Open(a) ==
    /\ ~Opened(a) /\ opened[a] < OpenBound
    /\ store' = [store EXCEPT ![a] = EnsureLedger(file[a])]
    /\ opened' = [opened EXCEPT ![a] = @ + 1]
    /\ names' = [names EXCEPT ![a] = @ \cup Pairs(store'[a])]
    /\ UNCHANGED <<call, made, fileVars, viewVars>>

InUse(a) == snapshot[a].read \/ \E c \in Calls : call[c].actor = a

----------------------------------------------------------------------------
\* A tool call starts; an id is one the actor handed out at some time.
Start(c, a) ==
    /\ call[c] = Idle /\ Opened(a)
    /\ \/ made <= EntryBound /\ made' = made + 1
          /\ call' = [call EXCEPT ![c] = [op |-> "add", actor |-> a, id |-> 0, at |-> made + 1, step |-> 1]]
       \/ \E p \in names[a], o \in {"update", "remove"} :
            call' = [call EXCEPT ![c] = [op |-> o, actor |-> a, id |-> p[1], at |-> 0, step |-> 1]]
          /\ UNCHANGED made
    /\ UNCHANGED <<store, names, opened, fileVars, viewVars>>

Step(c) == call' = [call EXCEPT ![c].step = @ + 1]
Finish(c) == call' = [call EXCEPT ![c] = Idle]

\* Mutant: an entry is numbered by its place in the list.
AddByPlace(c) ==
    LET k == call[c] a == k.actor IN
    /\ k.op = "add"
    /\ \/ k.step = 1 /\ call' = [call EXCEPT ![c].id = Len(store[a].ids) + 1, ![c].step = 2]
          /\ UNCHANGED <<store, names>>
       \/ k.step = 2 /\ store' = [store EXCEPT ![a].next = k.id + 1] /\ Step(c) /\ UNCHANGED names
       \/ k.step = 3 /\ store' = [store EXCEPT ![a].values = Append(@, k.at)] /\ Step(c) /\ UNCHANGED names
       \/ k.step = 4 /\ store' = [store EXCEPT ![a].ids = Append(@, k.id)] /\ Finish(c)
          /\ names' = [names EXCEPT ![a] = @ \cup {<<k.id, k.at>>}]
    /\ UNCHANGED <<made, opened, fileVars, viewVars>>

\* _list_add: the counter is read and written, then value and id are appended.
Add(c) ==
    LET k == call[c] a == k.actor IN
    /\ k.op = "add"
    /\ \/ k.step = 1 /\ call' = [call EXCEPT ![c].id = store[a].next, ![c].step = 2]
          /\ UNCHANGED <<store, names>>
       \/ k.step = 2 /\ store' = [store EXCEPT ![a].next = k.id + 1] /\ Step(c) /\ UNCHANGED names
       \/ k.step = 3 /\ store' = [store EXCEPT ![a].values = Append(@, k.at)] /\ Step(c) /\ UNCHANGED names
       \/ k.step = 4 /\ store' = [store EXCEPT ![a].ids = Append(@, k.id)] /\ Finish(c)
          /\ names' = [names EXCEPT ![a] = @ \cup {<<k.id, k.at>>}]
    /\ UNCHANGED <<made, opened, fileVars, viewVars>>

EntryOf(a, id) == (CHOOSE p \in names[a] : p[1] = id)[2]

\* The index is looked up first; an id that is gone is the caller's ValueError.
Locate(c) ==
    LET k == call[c] IN
    /\ k.op \in {"update", "remove"} /\ k.step = 1
    /\ IF Contains(store[k.actor].ids, k.id)
       THEN call' = [call EXCEPT ![c].at = SelectInSeq(store[k.actor].ids, LAMBDA i : i = k.id), ![c].step = 2]
       ELSE Finish(c)
    /\ UNCHANGED <<store, made, names, opened, fileVars, viewVars>>

\* _list_update writes at the index, _list_remove deletes there and in the ledger.
Update(c) ==
    LET k == call[c] a == k.actor IN
    /\ k.op = "update" /\ k.step = 2
    /\ store' = [store EXCEPT ![a].values[k.at] = EntryOf(a, k.id)] /\ Finish(c)
    /\ UNCHANGED <<made, names, opened, fileVars, viewVars>>

Delete(c) ==
    LET k == call[c] a == k.actor IN
    /\ k.op = "remove" /\ k.step \in {2, 3}
    /\ \/ k.step = 2 /\ store' = [store EXCEPT ![a].values = RemoveAt(@, k.at)] /\ Step(c)
       \/ k.step = 3 /\ store' = [store EXCEPT ![a].ids = RemoveAt(@, k.at)] /\ Finish(c)
    /\ UNCHANGED <<made, names, opened, fileVars, viewVars>>

\* Mutant: the new entries do not step the counter.
SaveUncounted(a, n) ==
    /\ Opened(a) /\ ~InUse(a) /\ made + n <= EntryBound + 1
    /\ LET values == [k \in 1..n |-> made + k] IN
         store' = [store EXCEPT ![a] = [values |-> values, ids |-> FreshIds(@.next, values), next |-> @.next]]
    /\ made' = made + n
    /\ names' = [names EXCEPT ![a] = @ \cup Pairs(store'[a])]
    /\ UNCHANGED <<call, opened, fileVars, viewVars>>

\* _save replaces the list by one of n new entries, _delete (n = 0) by the default.
Save(a, n) ==
    /\ Opened(a) /\ ~InUse(a) /\ made + n <= EntryBound + 1
    /\ LET values == [k \in 1..n |-> made + k] IN
         store' = [store EXCEPT ![a] = [values |-> values, ids |-> FreshIds(@.next, values), next |-> @.next + n]]
    /\ made' = made + n
    /\ names' = [names EXCEPT ![a] = @ \cup Pairs(store'[a])]
    /\ UNCHANGED <<call, opened, fileVars, viewVars>>

----------------------------------------------------------------------------
\* close reads the file, then replaces it with the actor's own record put in.
CloseReads(a) ==
    /\ Opened(a) /\ ~InUse(a) /\ (ClosesOverlap \/ \A b \in Actors : ~snapshot[b].read)
    /\ snapshot' = [snapshot EXCEPT ![a] = [read |-> TRUE, disk |-> file]]
    /\ UNCHANGED <<file, saved, storeVars, opened, viewVars>>

\* Mutant: the other actors' records are those this backend once loaded.
CloseForgetsOthers(a) ==
    /\ snapshot[a].read
    /\ file' = [b \in Actors |-> IF b = a THEN store[a] ELSE Absent]
    /\ saved' = [saved EXCEPT ![a] = store[a]]
    /\ snapshot' = [snapshot EXCEPT ![a] = Unread]
    /\ UNCHANGED <<storeVars, opened, viewVars>>

CloseReplaces(a) ==
    /\ snapshot[a].read
    /\ file' = [snapshot[a].disk EXCEPT ![a] = store[a]]
    /\ saved' = [saved EXCEPT ![a] = store[a]]
    /\ snapshot' = [snapshot EXCEPT ![a] = Unread]
    /\ UNCHANGED <<storeVars, opened, viewVars>>

\* The process ends with nothing left to persist.
Exit(a) ==
    /\ Opened(a) /\ ~InUse(a) /\ saved[a] = store[a]
    /\ store' = [store EXCEPT ![a] = Closed]
    /\ UNCHANGED <<call, made, names, fileVars, opened, viewVars>>

\* Someone edits the file by hand: an entry more than the ledger knows.
ExternalEdit(a) ==
    /\ ~Opened(a) /\ made <= EntryBound /\ \A b \in Actors : ~snapshot[b].read
    /\ file[a].next > 0 /\ Len(file[a].values) = Len(file[a].ids)
    /\ made' = made + 1 /\ file' = [file EXCEPT ![a].values = Append(@, made + 1)]
    /\ saved' = file'
    /\ UNCHANGED <<store, call, names, snapshot, opened, viewVars>>

----------------------------------------------------------------------------
\* Mutant: emit_recall does not look at the view's flag.
EmitAgain(t) ==
    /\ trace[t] = "ready" /\ \A u \in Traces : trace[u] # "emitting"
    /\ trace' = [trace EXCEPT ![t] = "emitting"] /\ logs' = logs \cup {t}
    /\ UNCHANGED <<emitted, storeVars, fileVars, opened>>

\* emit_recall: the event is appended, and polled for, before the flag is set.
Emit(t) ==
    /\ trace[t] = "ready" /\ \A u \in Traces : trace[u] # "emitting"
    /\ IF emitted THEN trace' = [trace EXCEPT ![t] = "done"] /\ UNCHANGED logs
       ELSE trace' = [trace EXCEPT ![t] = "emitting"] /\ logs' = logs \cup {t}
    /\ UNCHANGED <<emitted, storeVars, fileVars, opened>>

Emitted(t) ==
    /\ trace[t] = "emitting"
    /\ trace' = [trace EXCEPT ![t] = "done"] /\ emitted' = TRUE
    /\ UNCHANGED <<logs, storeVars, fileVars, opened>>

Next ==
    \/ \E a \in Actors : Open(a) \/ CloseReads(a) \/ CloseReplaces(a) \/ Exit(a) \/ ExternalEdit(a)
    \/ \E a \in Actors, n \in 0..1 : Save(a, n)
    \/ \E c \in Calls, a \in Actors : Start(c, a)
    \/ \E c \in Calls : Add(c) \/ Locate(c) \/ Update(c) \/ Delete(c)
    \/ \E t \in Traces : Emit(t) \/ Emitted(t)

Spec == Init /\ [][Next]_vars

----------------------------------------------------------------------------
\* An id that was ever handed out, to a tool or to an event log, names the
\* entry it was handed out for or nothing: whatever is deleted, replaced,
\* reopened or rebuilt from a misaligned file in between.
IdNamesItsEntry ==
    \A a \in Actors : \A p \in names[a] : \A k \in 1..Len(store[a].ids) :
        store[a].ids[k] = p[1] /\ ~InUse(a) => store[a].values[k] = p[2]

\* What an actor persisted last is what the file holds for it, whoever else
\* closed its backend on the same file since.
OthersAreKept == file = saved

\* One recall of a view is in the log of one traced thread.
RecallLoggedOnce == Cardinality(logs) <= 1
================================================================================
