----------------------------- MODULE WireErrors -----------------------------
(***************************************************************************)
(* The exception a call ends with, on its way from the process that raised *)
(* it over the connections between a worker's process, the coordinator's   *)
(* and the caller's: classified and framed by one, rebuilt by the next.    *)
(* Each process has its own registry of kinds.  The message is abstracted  *)
(* to the number of times it was quoted.                                   *)
(***************************************************************************)
EXTENDS Naturals, Sequences, FiniteSets, FiniteSetsExt, SequencesExt

CONSTANTS Registered,   \* the classes a host registers a kind for
          RegisterBound

Worker == 1
Coordinator == 2
Client == 3
Processes == {Worker, Coordinator, Client}

VARIABLES
    registry,    \* of each process: class -> kind, for the registered ones
    registered,  \* register_error_kind was called so often
    at,          \* where the call stands
    exc,         \* the exception it ends with there
    frame,       \* or the ErrorFrame under way from there
    origin,      \* what was raised, where, and the kind it was sent off with
    lost         \* the caller's own connection closed

vars == <<registry, registered, at, exc, frame, origin, lost>>

ErrorKinds == {"cancelled", "not_found", "terminated", "invalid_input",
               "model_unavailable", "worker_lost", "connection_lost", "internal"}
NewerKind == "brand_new_kind"     \* a kind of another build's vocabulary
Unsent == "none"                  \* of a peer that sends no kind

\* type(exc).__mro__, without what lies above Exception.
Mro == [ ValueError |-> <<"ValueError">>,
         ValidationError |-> <<"ValidationError", "ValueError">>,
         ThreadIdMismatchError |-> <<"ThreadIdMismatchError", "ValueError">>,
         KeyError |-> <<"KeyError">>,
         ThreadNotFoundError |-> <<"ThreadNotFoundError", "KeyError">>,
         NotImplementedError |-> <<"NotImplementedError", "RuntimeError">>,
         EventEmissionError |-> <<"EventEmissionError", "RuntimeError">>,
         DistributedError |-> <<"DistributedError">>,
         WorkerLostError |-> <<"WorkerLostError", "DistributedError">>,
         SerializationError |-> <<"SerializationError", "DistributedError">>,
         ConnectionLostError |-> <<"ConnectionLostError", "DistributedError">>,
         ConnectionClosedError |-> <<"ConnectionClosedError", "WireError">>,
         Throttled |-> <<"Throttled", "ProviderError">> ]

\* The error_kind that classes declare.
Declared == [ ThreadIdMismatchError |-> "invalid_input", EventEmissionError |-> "invalid_input",
              ThreadNotFoundError |-> "not_found", WorkerLostError |-> "worker_lost",
              SerializationError |-> "invalid_input", ConnectionLostError |-> "connection_lost",
              ConnectionClosedError |-> "connection_lost" ]

Seeded == [ValidationError |-> "invalid_input", ValueError |-> "invalid_input"]

\* Mutant: a dropped connection of a peer is rebuilt like one's own.
KnownWithConnection == {"ValueError", "KeyError", "NotImplementedError", "ThreadNotFoundError",
                        "DistributedError", "ConnectionClosedError"}

\* _KNOWN_EXCEPTIONS: what a message alone rebuilds.
KnownExceptions == {"ValueError", "KeyError", "NotImplementedError", "ThreadNotFoundError",
                    "DistributedError"}

NoError == [class |-> "none"]
Raised(class, quotes) == [class |-> class, quotes |-> quotes]
RemoteError(type, quotes, kind) ==
    [class |-> "RemoteError", quotes |-> quotes, type |-> type, kind |-> kind]

TypeOK ==
    /\ registered \in 0 .. RegisterBound /\ at \in Processes /\ lost \in BOOLEAN
    /\ \A p \in Processes : \A c \in DOMAIN registry[p] : registry[p][c] \in ErrorKinds \cup {NewerKind}
    /\ exc.class = "RemoteError" => exc.kind \in ErrorKinds

Init ==
    /\ registry = [p \in Processes |-> Seeded] /\ registered = 0
    /\ at = Worker /\ exc = NoError /\ frame = NoError /\ lost = FALSE
    /\ origin = NoError

----------------------------------------------------------------------------
KindAt(p, class) ==
    IF class \in DOMAIN registry[p] THEN {registry[p][class]}
    ELSE IF class \in DOMAIN Declared THEN {Declared[class]} ELSE {}

\* Mutant: the declaration of the class itself goes before any registration.
ClassifyDeclared(p, class) ==
    IF class \in DOMAIN Declared THEN Declared[class]
    ELSE LET named == {i \in DOMAIN Mro[class] : KindAt(p, Mro[class][i]) # {}}
         IN  IF named = {} THEN "internal"
             ELSE CHOOSE k \in KindAt(p, Mro[class][Max(named)]) : TRUE

\* classify: the most derived class that is registered or declared.
Classify(p, class) ==
    LET named == {i \in DOMAIN Mro[class] : KindAt(p, Mro[class][i]) # {}}
    IN  IF named = {} THEN "internal" ELSE CHOOSE k \in KindAt(p, Mro[class][Min(named)]) : TRUE

\* Mutant: a kind is taken as it comes.
CoerceNothing(kind) == kind

CoerceErrorKind(kind) == IF kind \in ErrorKinds THEN kind ELSE "internal"

\* str of a KeyError is the repr of what it was made with.
Quotes(e) == IF e.class \in {"KeyError", "ThreadNotFoundError"} THEN e.quotes + 1 ELSE e.quotes

\* Mutant: a RemoteError is described like any other exception.
Redescribe(p, e) ==
    [class |-> e.class, quotes |-> Quotes(e),
     kind |-> IF e.class = "RemoteError" THEN "internal" ELSE Classify(p, e.class)]

\* _error_frame: a RemoteError is relayed as it came.
ErrorFrame(p, e) ==
    IF e.class = "RemoteError" THEN [class |-> e.type, quotes |-> e.quotes, kind |-> e.kind]
    ELSE [class |-> e.class, quotes |-> Quotes(e), kind |-> Classify(p, e.class)]

RehydrateError(f) ==
    IF f.class \in KnownExceptions THEN Raised(f.class, f.quotes)
    ELSE RemoteError(f.class, f.quotes, CoerceErrorKind(f.kind))

----------------------------------------------------------------------------
\* The last registration of a class wins; a host of a newer build knows more kinds.
RegisterErrorKind(p, class, kind) ==
    /\ registered < RegisterBound /\ registered' = registered + 1
    /\ registry' = [registry EXCEPT ![p] = [c \in DOMAIN @ \cup {class} |->
                                              IF c = class THEN kind ELSE @[c]]]
    /\ UNCHANGED <<at, exc, frame, origin, lost>>

\* The handler of the worker, or of the coordinator, raises.
Raise(p, class) ==
    /\ origin = NoError /\ ~lost
    /\ at' = p /\ exc' = Raised(class, 0)
    /\ origin' = [class |-> class, at |-> p, kind |-> Unsent]
    /\ UNCHANGED <<registry, registered, frame, lost>>

\* No handler under the method's name.
Unanswered(p) ==
    /\ origin = NoError /\ ~lost
    /\ at' = p /\ frame' = [class |-> "NotImplementedError", quotes |-> 0, kind |-> "invalid_input"]
    /\ origin' = [class |-> "NotImplementedError", at |-> p, kind |-> "invalid_input"]
    /\ UNCHANGED <<registry, registered, exc, lost>>

\* The coordinator's connection to the worker closes under the relayed call.
WorkerGoes ==
    /\ at = Worker /\ ~lost
    /\ at' = Coordinator /\ exc' = Raised("ConnectionClosedError", 0) /\ frame' = NoError
    /\ origin' = [class |-> "ConnectionClosedError", at |-> Coordinator, kind |-> Unsent]
    /\ UNCHANGED <<registry, registered, lost>>

\* _handle_call answers with the exception of its handler; the process that
\* raised it may be of an older build, and send no kind.
HandleCall ==
    /\ at # Client /\ exc # NoError /\ exc' = NoError
    /\ \/ frame' = ErrorFrame(at, exc)
       \/ at = origin.at /\ frame' = [ErrorFrame(at, exc) EXCEPT !.kind = Unsent]
    /\ origin' = IF at = origin.at THEN [origin EXCEPT !.kind = frame'.kind] ELSE origin
    /\ UNCHANGED <<registry, registered, at, lost>>

\* _dispatch fails the call of the next process.
Dispatch ==
    /\ frame # NoError /\ at' = at + 1 /\ exc' = RehydrateError(frame) /\ frame' = NoError
    /\ UNCHANGED <<registry, registered, origin, lost>>

\* close, at the caller's end.
ConnectionCloses ==
    /\ at # Client /\ ~lost /\ lost' = TRUE
    /\ at' = Client /\ exc' = Raised("ConnectionClosedError", 0) /\ frame' = NoError
    /\ UNCHANGED <<registry, registered, origin>>

Next ==
    \/ \E p \in Processes, c \in Registered, k \in {"model_unavailable", NewerKind} :
           RegisterErrorKind(p, c, k)
    \/ \E p \in {Worker, Coordinator} :
           \/ \E c \in DOMAIN Mro \ {"ConnectionClosedError"} : Raise(p, c)
           \/ Unanswered(p)
    \/ WorkerGoes \/ HandleCall \/ Dispatch \/ ConnectionCloses

Spec == Init /\ [][Next]_vars

----------------------------------------------------------------------------
\* What arrives, after however many hops and whatever the processes between
\* have registered, is the class that was raised, or a RemoteError that names
\* it with the kind its own process gave it, in words of this build; the
\* caller's ConnectionClosedError is of its own connection ("never rehydrated").
ErrorsKeepTheirName ==
    at = Client =>
        \/ lost /\ exc.class = "ConnectionClosedError"
        \/ /\ ~lost /\ exc.class = "RemoteError"
           /\ exc.type = origin.class /\ exc.kind \in ErrorKinds
           /\ exc.kind = origin.kind \/ (exc.kind = "internal" /\ origin.kind \notin ErrorKinds)
        \/ ~lost /\ exc.class = origin.class /\ exc.class \in KnownExceptions \ {"ConnectionClosedError"}

\* And in its words: it does not, for a KeyError is quoted once more by each hop.
MessageArrives == at = Client => exc.quotes = 0

\* A registration shadows the class's bases and its own declaration, wherever
\* the class is raised, and leaves what is more specific alone.
RegistrationWins ==
    \A p \in Processes : \A c \in DOMAIN Mro :
        LET nearest == {i \in DOMAIN Mro[c] : Mro[c][i] \in DOMAIN registry[p]}
        IN  /\ c \in DOMAIN registry[p] => Classify(p, c) = registry[p][c]
            /\ nearest # {} /\ (\A i \in 1 .. Min(nearest) : Mro[c][i] \notin DOMAIN Declared)
                  => Classify(p, c) = registry[p][Mro[c][Min(nearest)]]
==============================================================================
