------------------------------ MODULE MCLiveness ------------------------------
(***************************************************************************)
(* What must come to an end, on small instances side by side: a call to a  *)
(* remote runtime, a blocking send_message, a verified compilation, the    *)
(* cycle of an AIThread, a cancelled cycle of a Codex thread, aserve, and  *)
(* the runtime of a worker in two settings: "faithful", an event sink that *)
(* never fails and cycles that finish when they are told to stop, "down",  *)
(* a sink that may raise and cycles that let the CancelledError out.       *)
(* Each behaviour runs one of them, which says which; the others keep      *)
(* still.  v1, v2, ... are the variables of the part that runs, in its own *)
(* order; the fairness of a part is the one its module states.             *)
(***************************************************************************)
EXTENDS RemoteRuntime

CONSTANTS Talkers, Prompts, TerminateAfterIdle, NoThread,  \* PeerMessaging
          Hosted, Runs, NoRequest,                         \* ThreadRuntime
          Compiler, Other,                                 \* VerifiedCompile: processes
          NoThreshold                                      \* AgentCycle

VARIABLES which, v1, v2, v3, v4, v5, v6, v7, v8, v9, v10, v11, v12, v13, v14,
          v15, v16, v17, v18, v19, v20

parts == <<v1, v2, v3, v4, v5, v6, v7, v8, v9, v10, v11, v12, v13, v14,
           v15, v16, v17, v18, v19, v20>>

Peers == INSTANCE PeerMessaging
    WITH Threads <- Talkers, Requests <- Prompts, CallsAtOnce <- 1,
         line <- v1, busy <- v2, fut <- v3, gone <- v4, edge <- v5, sender <- v6,
         peer <- v7, tool <- v8, stopped <- v9

Compile == INSTANCE VerifiedCompile
    WITH Processes <- {Compiler, Other}, Tasks <- 1..3,
         ProcessOf <- [t \in 1..3 |-> IF t = 3 THEN Other ELSE Compiler],
         MaxAttempts <- 1, MayCancel <- TRUE, MayCrash <- TRUE,
         at <- v1, local <- v2, file <- v3, disk <- v4, found <- v5, attempts <- v6,
         cancelled <- v7

Agent == INSTANCE AgentCycle
    WITH PreserveMinMessages <- 1, PreserveMinTokens <- 1, PreserveMaxTokens <- 4,
         HeavyTurns <- {2}, MaxAttempts <- 1, SummarizationEnabled <- TRUE, Threshold <- 3,
         MaxSummarizations <- 1, CodeExecution <- FALSE, PostConditions <- TRUE,
         CycleBound <- 1, EventBound <- 1,
         log <- v1, buffer <- v2, agent <- v3, pc <- v4, attempt <- v5, fits <- v6,
         snapshot <- v7, todo <- v8, cancel <- v9, enqueued <- v10, cycles <- v11, extras <- v12

Codex == INSTANCE BackedThread
    WITH Backends <- {"codex"}, Messages <- {1}, MaxAttempts <- 2, PostConditions <- TRUE,
         CycleBound <- 2,
         backend <- v1, pc <- v2, cycle <- v3, attempt <- v4, held <- v5, procs <- v6,
         tools <- v7, buffer <- v8, steering <- v9, turn <- v10, watcher <- v11,
         cancel <- v12, notified <- v13, given <- v14

Host == INSTANCE ServeHost
    WITH host <- v1, listed <- v2, connected <- v3, signalled <- v4, handlers <- v5,
         cycle <- v6, poll <- v7, marked <- v8, raised <- v9, outcome <- v10

Faithful == INSTANCE ThreadRuntime
    WITH Threads <- {Hosted}, Requests <- Runs, QueueBound <- 2, ReapBound <- 1,
         ReuseIds <- FALSE, HonoursCancel <- FALSE, SinkFails <- FALSE,
         pool <- v1, info <- v2, log <- v3, joined <- v4, minted <- v5, hosted <- v6,
         queue <- v7, disp <- v8, kill <- v9, current <- v10, cycle <- v11, signal <- v12,
         paused <- v13, reap <- v14, hard <- v15, hardTask <- v16, closing <- v17,
         closeWait <- v18, fut <- v19, asked <- v20

Down == INSTANCE ThreadRuntime
    WITH Threads <- {Hosted}, Requests <- Runs, QueueBound <- 2, ReapBound <- 2,
         ReuseIds <- FALSE, HonoursCancel <- TRUE, SinkFails <- TRUE,
         pool <- v1, info <- v2, log <- v3, joined <- v4, minted <- v5, hosted <- v6,
         queue <- v7, disp <- v8, kill <- v9, current <- v10, cycle <- v11, signal <- v12,
         paused <- v13, reap <- v14, hard <- v15, hardTask <- v16, closing <- v17,
         closeWait <- v18, fut <- v19, asked <- v20

LivenessInit ==
    /\ Init
    /\ \/ which = "remote"
            /\ v1 = 0 /\ v2 = 0 /\ v3 = 0 /\ v4 = 0 /\ v5 = 0 /\ v6 = 0 /\ v7 = 0
            /\ v8 = 0 /\ v9 = 0 /\ v10 = 0 /\ v11 = 0 /\ v12 = 0 /\ v13 = 0 /\ v14 = 0
            /\ v15 = 0 /\ v16 = 0 /\ v17 = 0 /\ v18 = 0 /\ v19 = 0 /\ v20 = 0
       \/ which = "peers" /\ Peers!Init
            /\ v10 = 0 /\ v11 = 0 /\ v12 = 0 /\ v13 = 0 /\ v14 = 0 /\ v15 = 0 /\ v16 = 0
            /\ v17 = 0 /\ v18 = 0 /\ v19 = 0 /\ v20 = 0
       \/ which = "compile" /\ Compile!Init
            /\ v8 = 0 /\ v9 = 0 /\ v10 = 0 /\ v11 = 0 /\ v12 = 0 /\ v13 = 0 /\ v14 = 0
            /\ v15 = 0 /\ v16 = 0 /\ v17 = 0 /\ v18 = 0 /\ v19 = 0 /\ v20 = 0
       \/ which = "agent" /\ Agent!Init
            /\ v13 = 0 /\ v14 = 0 /\ v15 = 0 /\ v16 = 0 /\ v17 = 0 /\ v18 = 0 /\ v19 = 0
            /\ v20 = 0
       \/ which = "codex" /\ Codex!Init
            /\ v15 = 0 /\ v16 = 0 /\ v17 = 0 /\ v18 = 0 /\ v19 = 0 /\ v20 = 0
       \/ which = "host" /\ Host!Init
            /\ v11 = 0 /\ v12 = 0 /\ v13 = 0 /\ v14 = 0 /\ v15 = 0 /\ v16 = 0 /\ v17 = 0
            /\ v18 = 0 /\ v19 = 0 /\ v20 = 0
       \/ which = "faithful" /\ Faithful!Init
       \/ which = "down" /\ Down!Init

\* No definition tells two requests apart: the one that is submitted first is
\* the same in every behaviour.
FirstRun == CHOOSE p \in Runs : TRUE
FirstSubmittedFirst == v19'[FirstRun] = "new" => \A p \in Runs : v19'[p] = "new"

LivenessNext ==
    \/ which = "remote" /\ Next /\ UNCHANGED <<which, parts>>
    \/ which = "peers" /\ Peers!Next /\ UNCHANGED <<which, vars, v10, v11, v12, v13, v14, v15, v16, v17, v18, v19, v20>>
    \/ which = "compile" /\ Compile!Next /\ UNCHANGED <<which, vars, v8, v9, v10, v11, v12, v13, v14, v15, v16, v17, v18, v19, v20>>
    \/ which = "agent" /\ Agent!Next /\ UNCHANGED <<which, vars, v13, v14, v15, v16, v17, v18, v19, v20>>
    \/ which = "codex" /\ Codex!Next /\ UNCHANGED <<which, vars, v15, v16, v17, v18, v19, v20>>
    \/ which = "host" /\ Host!Next /\ UNCHANGED <<which, vars, v11, v12, v13, v14, v15, v16, v17, v18, v19, v20>>
    \/ which = "faithful" /\ Faithful!Next /\ FirstSubmittedFirst /\ UNCHANGED <<which, vars>>
    \/ which = "down" /\ Down!Next /\ FirstSubmittedFirst /\ UNCHANGED <<which, vars>>

LivenessFairness ==
    /\ \A c \in Clients : /\ WF_vars(which = "remote" /\ ServerStep(c))
                          /\ WF_vars(which = "remote" /\ ClientStep(c))
    /\ \A t \in Threads : WF_vars(which = "remote" /\ ThreadStep(t))
    /\ \A r \in Requests : WF_vars(which = "remote" /\ Relayed(r))
    /\ \A t \in Talkers :
          /\ WF_(Peers!vars)(which = "peers" /\ Peers!Begin(t))
          /\ WF_(Peers!vars)(which = "peers" /\ \E o \in {"result", "error"} : Peers!Answer(t, o))
    /\ \A r \in Prompts : WF_(Peers!vars)(which = "peers" /\ Peers!WaitReturns(r))
    /\ \A t \in 1..3 : WF_(Compile!vars)(which = "compile" /\ Compile!Work(t))
    /\ WF_(Agent!vars)(which = "agent" /\ Agent!Invocation)
    /\ WF_(Codex!vars)(which = "codex" /\ Codex!Goes)
    /\ WF_(Host!vars)(which = "host" /\ Host!Goes)
    /\ WF_(Host!vars)(which = "host" /\ Host!MarkerReached)
    /\ WF_parts(\/ which = "faithful" /\ Faithful!Dispatcher(Hosted)
                \/ which = "down" /\ Down!Dispatcher(Hosted))
    /\ WF_parts(\/ which = "faithful" /\ Faithful!Execute(Hosted)
                \/ which = "down" /\ Down!Execute(Hosted))
    /\ WF_parts(\/ which = "faithful" /\ Faithful!Reap(Hosted)
                \/ which = "down" /\ Down!Reap(Hosted))
    /\ WF_parts(\/ which = "faithful" /\ Faithful!HardTermination(Hosted)
                \/ which = "down" /\ Down!HardTermination(Hosted))
    /\ WF_parts(\/ which = "faithful" /\ Faithful!CloseDrained
                \/ which = "down" /\ Down!CloseDrained)
    /\ WF_parts(\/ which = "faithful" /\ Faithful!CloseEnds
                \/ which = "down" /\ Down!CloseEnds)

LivenessSpec ==
    LivenessInit /\ [][LivenessNext]_<<which, vars, parts>> /\ LivenessFairness

----------------------------------------------------------------------------
\* Each of the following says of a wait P that []<>~P: since no more than one
\* part runs, one formula does for the waits of several.  Two prompts, and two
\* tasks of one process, are told apart by no definition: one stands for all.

\* RemoteRuntime.CallsReturn and PeerMessaging.WaitsEnd: whoever calls a remote
\* runtime or sends a message and blocks gets an answer or an error.
Suspended == \/ which = "remote" /\ \E r \in Requests : fut[r] = "pending"
             \/ which = "peers" /\ v8[CHOOSE r \in Prompts : TRUE] = "waiting"
CallersGoOn == []<>~Suspended

\* ThreadRuntime.Answered: while the sink is up every future that handle.run
\* returned settles.
Answered == \A r \in Runs : []<>~(which = "faithful" /\ Faithful!Pending(r))

\* ThreadRuntime.MarkedThreadGoes, TerminateNowReturns, CloseReturns: a thread
\* with the marker in its queue goes and, of cycles that let the CancelledError
\* out, also when dispatchers crash, terminate_now and close return.
EndsAreReached ==
    /\ []<>~(which = "faithful" /\ Hosted \in v6
                /\ \E i \in DOMAIN v7[Hosted] : v7[Hosted][i] = TerminateAfterIdle)
    /\ []<>~(which = "down" /\ v15[Hosted] # "none")
    /\ []<>~(which = "down" /\ v17 # "open")

\* VerifiedCompile.CompileEnds, AgentCycle.CycleReturns, ServeHost.HostEnds,
\* BackedThread.CancelEndsCycle: nobody waits for ever for a lock or a worker
\* thread, whoever is cancelled, times out or crashes; attempts, compactions
\* and overflows run out; aserve ends once it was signalled or lost its
\* connection or its thread; a cancelled cycle of a Codex thread ends although
\* its turn need not.
Unfinished(t) == \/ which = "compile" /\ Compile!Cache(t) # ""
                 \/ which = "agent" /\ Agent!Running
                 \/ which = "host" /\ (v4 \/ ~v3 \/ ~v2) /\ v1 # "ended"
                 \/ which = "codex" /\ v12 /\ Codex!InCycle
WorkEnds == []<>~Unfinished(1) /\ []<>~Unfinished(3)
=============================================================================
