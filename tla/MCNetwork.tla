------------------------------ MODULE MCNetwork ------------------------------
(***************************************************************************)
(* Small instances of the parts that several processes share or pass on,   *)
(* side by side: the remote runtime, the events a client is forwarded, the *)
(* exceptions it is sent, the event log and its subscribers, the memory    *)
(* file, the memory service, the session files, coordinator.json, the tool *)
(* server of a process, the approvals of tools, a thread whose             *)
(* conversation an external agent owns, the host of a served thread and    *)
(* the caches of a compilation.  Each behaviour runs one of them; which    *)
(* says which, and the others keep still.                                  *)
(* v1, v2, ... are the variables of the part that runs, in its own order.  *)
(***************************************************************************)
EXTENDS RemoteRuntime, TLC

CONSTANTS Subscribers, All,          \* EventLog
          Actors, Calls, Traces,     \* MemoryStore
          Names,                     \* SessionFiles
          Servers, Readers, None, Garbage,  \* RuntimeFile
          Hosted, Callers,           \* ToolServer
          Watched,                   \* EventFeed
          Ids, Decisions,            \* Approvals
          Backends, Messages,        \* BackedThread
          Compiler, Other            \* VerifiedCompile: processes

VARIABLES which, v1, v2, v3, v4, v5, v6, v7, v8, v9, v10, v11, v12, v13, v14

parts == <<v1, v2, v3, v4, v5, v6, v7, v8, v9, v10, v11, v12, v13, v14>>

Log == INSTANCE EventLog
    WITH Threads <- Hosted, EventBound <- 3, DepthBound <- 1, CopyBound <- 1,
         events <- v1, known <- v2, active <- v3, filter <- v4, handing <- v5,
         delivered <- v6, due <- v7, copies <- v8, cursor <- v9, page <- v10

Feed == INSTANCE EventFeed
    WITH Threads <- Hosted, EventBound <- 3,
         log <- v1, forwarding <- v2, tasks <- v3, frames <- v4, open <- v5,
         screen <- v6, asked <- v7, listening <- v8, shown <- v9, replayed <- v10

Errors == INSTANCE WireErrors
    WITH Registered <- {"ProviderError", "ValueError", "ThreadNotFoundError", "WorkerLostError"},
         RegisterBound <- 2,
         registry <- v1, registered <- v2, at <- v3, exc <- v4, frame <- v5, origin <- v6, lost <- v7

Memory == INSTANCE MemoryStore
    WITH Traces <- {}, ClosesOverlap <- FALSE, EntryBound <- 1, OpenBound <- 2,
         file <- v1, store <- v2, snapshot <- v3, call <- v4, made <- v5, opened <- v6,
         names <- v7, saved <- v8, emitted <- v9, trace <- v10, logs <- v11

\* Its view, which nothing else of it touches.
View == INSTANCE MemoryStore
    WITH ClosesOverlap <- FALSE, EntryBound <- 0, OpenBound <- 0,
         file <- v1, store <- v2, snapshot <- v3, call <- v4, made <- v5, opened <- v6,
         names <- v7, saved <- v8, emitted <- v9, trace <- v10, logs <- v11

Service == INSTANCE AgentCoreMemory
    WITH TopK <- 2, TurnBound <- 3, SessionBound <- 2,
         newestFirst <- v1, made <- v2, events <- v3, records <- v4, doomed <- v5,
         purged <- v6, session <- v7, call <- v8, todo <- v9, saved <- v10, told <- v11

Session == INSTANCE SessionFiles
    WITH SaveBound <- 3, CrashBound <- 1,
         logFile <- v1, manifest <- v2, saving <- v3, saves <- v4, crashes <- v5,
         complete <- v6, reading <- v7, loaded <- v8

Discovery == INSTANCE RuntimeFile
    WITH Overlap <- FALSE, ReadBound <- 2,
         file <- v1, pc <- v2, seen <- v3, found <- v4, looks <- v5

Tools == INSTANCE ToolServer
    WITH Threads <- Hosted, Requests <- Traces, TokenBound <- 3, StartBound <- 2,
         serving <- v1, up <- v2, socks <- v3, starts <- v4, task <- v5,
         registrations <- v6, byThread <- v7, minted <- v8, request <- v9

Approval == INSTANCE Approvals
    WITH Askers <- {"agent", "claude", "kiro"}, DecideBound <- 2,
         asker <- v1, auto <- v2, remote <- v3, linked <- v4, hosted <- v5, cycle <- v6,
         pending <- v7, fut <- v8, waiting <- v9, told <- v10, up <- v11, down <- v12,
         log <- v13

Backend == INSTANCE BackedThread
    WITH MaxAttempts <- 2, PostConditions <- TRUE, CycleBound <- 2,
         backend <- v1, pc <- v2, cycle <- v3, attempt <- v4, held <- v5, procs <- v6,
         tools <- v7, buffer <- v8, steering <- v9, turn <- v10, watcher <- v11,
         cancel <- v12, notified <- v13, given <- v14

Host == INSTANCE ServeHost
    WITH host <- v1, listed <- v2, connected <- v3, signalled <- v4, handlers <- v5,
         cycle <- v6, poll <- v7, marked <- v8, raised <- v9, outcome <- v10

Compile == INSTANCE VerifiedCompile
    WITH Processes <- {Compiler, Other}, Tasks <- 1..3,
         ProcessOf <- [t \in 1..3 |-> IF t = 3 THEN Other ELSE Compiler],
         MaxAttempts <- 1, MayCancel <- TRUE, MayCrash <- TRUE,
         at <- v1, local <- v2, file <- v3, disk <- v4, found <- v5, attempts <- v6,
         cancelled <- v7

NetworkInit ==
    /\ Init
    /\ \/ which = "remote"
            /\ v1 = 0 /\ v2 = 0 /\ v3 = 0 /\ v4 = 0 /\ v5 = 0 /\ v6 = 0 /\ v7 = 0 /\ v8 = 0
            /\ v9 = 0 /\ v10 = 0 /\ v11 = 0 /\ v12 = 0 /\ v13 = 0 /\ v14 = 0
       \/ which = "log" /\ Log!Init /\ v11 = 0 /\ v12 = 0 /\ v13 = 0 /\ v14 = 0
       \/ which = "feed" /\ Feed!Init /\ v11 = 0 /\ v12 = 0 /\ v13 = 0 /\ v14 = 0
       \/ which = "errors" /\ Errors!Init
            /\ v8 = 0 /\ v9 = 0 /\ v10 = 0 /\ v11 = 0 /\ v12 = 0 /\ v13 = 0 /\ v14 = 0
       \/ which = "memory" /\ Memory!Init /\ v12 = 0 /\ v13 = 0 /\ v14 = 0
       \/ which = "view" /\ View!Init /\ v12 = 0 /\ v13 = 0 /\ v14 = 0
       \/ which = "service" /\ Service!Init /\ v12 = 0 /\ v13 = 0 /\ v14 = 0
       \/ which = "session" /\ Session!Init
            /\ v9 = 0 /\ v10 = 0 /\ v11 = 0 /\ v12 = 0 /\ v13 = 0 /\ v14 = 0
       \/ which = "discovery" /\ Discovery!Init
            /\ v6 = 0 /\ v7 = 0 /\ v8 = 0 /\ v9 = 0 /\ v10 = 0 /\ v11 = 0 /\ v12 = 0 /\ v13 = 0
            /\ v14 = 0
       \/ which = "tools" /\ Tools!Init /\ v10 = 0 /\ v11 = 0 /\ v12 = 0 /\ v13 = 0 /\ v14 = 0
       \/ which = "approvals" /\ Approval!Init /\ v14 = 0
       \/ which = "backed" /\ Backend!Init
       \/ which = "host" /\ Host!Init /\ v11 = 0 /\ v12 = 0 /\ v13 = 0 /\ v14 = 0
       \/ which = "compile" /\ Compile!Init
            /\ v8 = 0 /\ v9 = 0 /\ v10 = 0 /\ v11 = 0 /\ v12 = 0 /\ v13 = 0 /\ v14 = 0

NetworkNext ==
    \/ which = "remote" /\ Next /\ UNCHANGED <<which, parts>>
    \/ which = "log" /\ Log!Next /\ UNCHANGED <<which, vars, v11, v12, v13, v14>>
    \/ which = "feed" /\ Feed!Next /\ UNCHANGED <<which, vars, v11, v12, v13, v14>>
    \/ which = "errors" /\ Errors!Next /\ UNCHANGED <<which, vars, v8, v9, v10, v11, v12, v13, v14>>
    \/ which = "memory" /\ Memory!Next /\ UNCHANGED <<which, vars, v12, v13, v14>>
    \/ which = "view" /\ View!Next /\ UNCHANGED <<which, vars, v12, v13, v14>>
    \/ which = "service" /\ Service!Next /\ UNCHANGED <<which, vars, v12, v13, v14>>
    \/ which = "session" /\ Session!Next /\ UNCHANGED <<which, vars, v9, v10, v11, v12, v13, v14>>
    \/ which = "discovery" /\ Discovery!Next
          /\ UNCHANGED <<which, vars, v6, v7, v8, v9, v10, v11, v12, v13, v14>>
    \/ which = "tools" /\ Tools!Next /\ UNCHANGED <<which, vars, v10, v11, v12, v13, v14>>
    \/ which = "approvals" /\ Approval!Next /\ UNCHANGED <<which, vars, v14>>
    \/ which = "backed" /\ Backend!Next /\ UNCHANGED <<which, vars>>
    \/ which = "host" /\ Host!Next /\ UNCHANGED <<which, vars, v11, v12, v13, v14>>
    \/ which = "compile" /\ Compile!Next /\ UNCHANGED <<which, vars, v8, v9, v10, v11, v12, v13, v14>>

NetworkSpec == NetworkInit /\ [][NetworkNext]_<<which, vars, parts>>

\* No definition tells two connections, two subscribers or two actors apart.
Symmetry == Permutations(Clients) \cup Permutations(Subscribers) \cup Permutations(Actors)

----------------------------------------------------------------------------
\* The type invariant of each part.
TypesOK == /\ TypeOK
           /\ which = "log" => Log!TypeOK
           /\ which = "feed" => Feed!TypeOK
           /\ which = "errors" => Errors!TypeOK
           /\ which = "memory" => Memory!TypeOK
           /\ which = "service" => Service!TypeOK
           /\ which = "session" => Session!TypeOK
           /\ which = "discovery" => Discovery!TypeOK
           /\ which = "tools" => Tools!TypeOK
           /\ which = "approvals" => Approval!TypeOK
           /\ which = "backed" => Backend!TypeOK
           /\ which = "host" => Host!TypeOK
           /\ which = "compile" => Compile!TypeOK

\* EventLog: each subscriber is told each of its events once, and whoever
\* pages through a log reads it from its beginning with no gap.  EventFeed:
\* nor is there one in what a remote subscriber is told.  WireErrors: a caller
\* is told the name of what was raised, and its kind.
EveryoneIsTold ==
    /\ which = "log" => Log!EveryoneIsTold /\ Log!PagesAreTheLog
    /\ which = "feed" => Feed!FeedHasNoGap
    /\ which = "errors" => Errors!ErrorsKeepTheirName /\ Errors!RegistrationWins

\* MemoryStore: an id names the entry it was handed out for, no actor's
\* record is lost to another's close, a recall is logged once.
\* AgentCoreMemory: a save replaces what it found, and the default is recalled
\* only when nothing is stored.
MemoryIsKept ==
    /\ which = "memory" => Memory!IdNamesItsEntry /\ Memory!OthersAreKept
    /\ which = "view" => View!RecallLoggedOnce
    /\ which = "service" => Service!SaveReplaces /\ Service!ReadIsHonest

\* SessionFiles: a session that exists loads, no log older than its manifest.
\* RuntimeFile: one coordinator is up, and it can be discovered.
FilesAreSound ==
    /\ which = "session" => Session!ExistsMeansLoadable /\ Session!LoadIsNotStale
    /\ which = "discovery" => Discovery!SoleCoordinator

\* ToolServer: a thread has one live token and a stopped server none, and the
\* port is free once stop returned or start failed.
OneLiveToken == which = "tools" => Tools!OneLiveToken /\ Tools!PortIsFree

\* Approvals: a tool runs or is refused by the first decision in the log, and
\* no decision that is in the log is lost on its way to who waits for it.
ApprovalsAreKept == which = "approvals" => Approval!LogDecides /\ Approval!NoDecisionIsLost

\* BackedThread: a message handed to notify reaches the backend's turn once,
\* and no agent process outlasts the tools it was given.
NotifiedOnce == which = "backed" => Backend!NotifiedOnce /\ Backend!EndpointOutlivesAgent

\* ServeHost: a host ends cleanly only when it was asked to.
SilentEndWasAsked == which = "host" => Host!SilentEndWasAsked

\* VerifiedCompile: whoever returned its function finds the artifact published
\* and checked, and no lock outlives the compilation that took it.
LoadedIsPublished ==
    which = "compile" => Compile!LoadedIsPublished /\ Compile!NoLockIsAbandoned
=============================================================================
