------------------------------ MODULE NetworkProofs ------------------------------
(***************************************************************************)
(* The properties of MCNetwork.  ServiceProofs, AgentProofs and            *)
(* RemoteRuntimeProofs prove the invariant of each of its parts; here they *)
(* hold together, each while its part runs.  First, part by part, that     *)
(* what MCNetwork instantiates is what those modules speak of.             *)
(***************************************************************************)
EXTENDS MCNetwork, RemoteRuntimeProofs

Services == INSTANCE ServiceProofs
    WITH Overlap <- FALSE, ReadBound <- 2,
         file <- v1, pc <- v2, seen <- v3, found <- v4, looks <- v5,
         SaveBound <- 3, CrashBound <- 1,
         logFile <- v1, manifest <- v2, saving <- v3, saves <- v4, crashes <- v5,
         complete <- v6, reading <- v7, loaded <- v8,
         Threads <- Hosted, Requests <- Traces, TokenBound <- 3, StartBound <- 2,
         serving <- v1, up <- v2, socks <- v3, starts <- v4, task <- v5,
         registrations <- v6, byThread <- v7, minted <- v8, request <- v9,
         EventBound <- 3, DepthBound <- 1, CopyBound <- 1,
         events <- v1, known <- v2, active <- v3, filter <- v4, handing <- v5,
         delivered <- v6, due <- v7, copies <- v8, cursor <- v9, page <- v10,
         Traces <- {}, ClosesOverlap <- FALSE, EntryBound <- 1, OpenBound <- 2,
         memory <- v1, store <- v2, snapshot <- v3, call <- v4, made <- v5, opened <- v6,
         handed <- v7, saved <- v8, emitted <- v9, trace <- v10, told <- v11,
         Recalls <- Traces, RecallEntries <- 0, RecallOpens <- 0,
         Registered <- {"ProviderError", "ValueError", "ThreadNotFoundError", "WorkerLostError"},
         RegisterBound <- 2,
         registry <- v1, registered <- v2, at <- v3, exc <- v4, frame <- v5, origin <- v6, lost <- v7

Others == INSTANCE AgentProofs
    WITH host <- v1, listed <- v2, connected <- v3, signalled <- v4, handlers <- v5, initial <- v6,
         poll <- v7, marked <- v8, raised <- v9, outcome <- v10,
         Askers <- {"agent", "claude", "kiro"}, DecideBound <- 2,
         asker <- v1, auto <- v2, remote <- v3, linked <- v4, hosted <- v5, running <- v6, pending <- v7,
         fut <- v8, waiting <- v9, told <- v10, up <- v11, down <- v12, log <- v13,
         MaxAttempts <- 2, PostConditions <- TRUE, CycleBound <- 2,
         backend <- v1, pc <- v2, round <- v3, attempt <- v4, held <- v5, procs <- v6, tools <- v7,
         buffer <- v8, steering <- v9, turn <- v10, watcher <- v11, cancel <- v12, notified <- v13, given <- v14,
         Threads <- Hosted, EventBound <- 3,
         logged <- v1, forwarding <- v2, tasks <- v3, frames <- v4, open <- v5,
         screen <- v6, asked <- v7, listening <- v8, shown <- v9, replayed <- v10,
         TopK <- 2, TurnBound <- 3, SessionBound <- 2,
         newestFirst <- v1, written <- v2, stored <- v3, records <- v4, doomed <- v5, purged <- v6,
         session <- v7, operation <- v8, todo <- v9, replaced <- v10, answer <- v11,
         Processes <- {Compiler, Other}, Tasks <- 1..3,
         ProcessOf <- [t \in 1..3 |-> IF t = 3 THEN Other ELSE Compiler],
         Retries <- 1, MayCancel <- TRUE, MayCrash <- TRUE,
         at <- v1, local <- v2, file <- v3, disk <- v4, found <- v5, attempts <- v6, leaving <- v7

LEMMA DiscoverySame ==
    /\ Discovery!Init <=> Services!Discovery!Init
    /\ Discovery!Next <=> Services!Discovery!Next
    /\ Discovery!vars = Services!Discovery!vars
    /\ Discovery!TypeOK <=> Services!Discovery!TypeOK
    /\ Discovery!SoleCoordinator <=> Services!Discovery!SoleCoordinator
<1>1. Discovery!Init <=> Services!Discovery!Init
  BY DEF Discovery!Procs, Discovery!Init, Services!Discovery!Procs, Services!Discovery!Init
<1>2. Discovery!Next <=> Services!Discovery!Next
  BY DEF Discovery!vars, Discovery!Procs, Discovery!Resting, Discovery!Alive, Discovery!MayAct,
         Discovery!Goto, Discovery!Bind, Discovery!ReadFile, Discovery!Judge, Discovery!Clear,
         Discovery!Replace, Discovery!Shutdown, Discovery!Stopped, Discovery!Killed, Discovery!Look,
         Discovery!Found, Discovery!ClearStale, Discovery!AskToStop, Discovery!Next, Services!Discovery!vars,
         Services!Discovery!Procs, Services!Discovery!Resting, Services!Discovery!Alive,
         Services!Discovery!MayAct, Services!Discovery!Goto, Services!Discovery!Bind,
         Services!Discovery!ReadFile, Services!Discovery!Judge, Services!Discovery!Clear,
         Services!Discovery!Replace, Services!Discovery!Shutdown, Services!Discovery!Stopped,
         Services!Discovery!Killed, Services!Discovery!Look, Services!Discovery!Found,
         Services!Discovery!ClearStale, Services!Discovery!AskToStop, Services!Discovery!Next
<1>3. /\ Discovery!vars = Services!Discovery!vars
      /\ Discovery!TypeOK <=> Services!Discovery!TypeOK
      /\ Discovery!SoleCoordinator <=> Services!Discovery!SoleCoordinator
  BY DEF Discovery!vars, Services!Discovery!vars, Discovery!Procs, Discovery!Resting, Discovery!TypeOK,
         Services!Discovery!Procs, Services!Discovery!Resting, Services!Discovery!TypeOK,
         Discovery!SoleCoordinator, Services!Discovery!SoleCoordinator
<1> QED
  BY <1>1, <1>2, <1>3

LEMMA SessionSame ==
    /\ Session!Init <=> Services!Session!Init
    /\ Session!Next <=> Services!Session!Next
    /\ Session!vars = Services!Session!vars
    /\ Session!TypeOK <=> Services!Session!TypeOK
    /\ Session!ExistsMeansLoadable <=> Services!Session!ExistsMeansLoadable
    /\ Session!LoadIsNotStale <=> Services!Session!LoadIsNotStale
<1>1. Session!Init <=> Services!Session!Init
  BY DEF Session!NoSave, Session!NoManifest, Session!NotReading, Session!Init, Services!Session!NoSave,
         Services!Session!NoManifest, Services!Session!NotReading, Services!Session!Init
<1>2. Session!Next <=> Services!Session!Next
  BY DEF Session!vars, Session!saveVars, Session!loadVars, Session!NoSave, Session!NoManifest,
         Session!NotReading, Session!Save, Session!WriteLog, Session!WriteManifest, Session!Crash,
         Session!Load, Session!ReadLog, Session!Loaded, Session!Next, Services!Session!vars,
         Services!Session!saveVars, Services!Session!loadVars, Services!Session!NoSave,
         Services!Session!NoManifest, Services!Session!NotReading, Services!Session!Save,
         Services!Session!WriteLog, Services!Session!WriteManifest, Services!Session!Crash,
         Services!Session!Load, Services!Session!ReadLog, Services!Session!Loaded, Services!Session!Next
<1>3. /\ Session!vars = Services!Session!vars
      /\ Session!TypeOK <=> Services!Session!TypeOK
      /\ Session!ExistsMeansLoadable <=> Services!Session!ExistsMeansLoadable
      /\ Session!LoadIsNotStale <=> Services!Session!LoadIsNotStale
  BY DEF Session!vars, Services!Session!vars, Session!TypeOK, Services!Session!TypeOK,
         Session!ExistsMeansLoadable, Services!Session!ExistsMeansLoadable, Session!NoSave,
         Session!LoadIsNotStale, Services!Session!NoSave, Services!Session!LoadIsNotStale
<1> QED
  BY <1>1, <1>2, <1>3

LEMMA ToolsSame ==
    /\ Tools!Init <=> Services!Tools!Init
    /\ Tools!Next <=> Services!Tools!Next
    /\ Tools!vars = Services!Tools!vars
    /\ Tools!TypeOK <=> Services!Tools!TypeOK
    /\ Tools!OneLiveToken <=> Services!Tools!OneLiveToken
    /\ Tools!PortIsFree <=> Services!Tools!PortIsFree
<1>1. Tools!Init <=> Services!Tools!Init
  BY DEF Tools!Rest, Tools!Unsent, Tools!Init, Tools!Cardinality, Services!Tools!Rest, Services!Tools!Unsent,
         Services!Tools!Init, Services!Tools!Cardinality
<1>2. Tools!Next <=> Services!Tools!Next
  BY DEF Tools!vars, Tools!serverVars, Tools!tokenVars, Tools!Rest, Tools!Unsent, Tools!Bound, Tools!Start,
         Tools!ServerUp, Tools!Started, Tools!StartFails, Tools!Stop, Tools!Stopped, Tools!Without,
         Tools!Register, Tools!Deregister, Tools!Send, Tools!Route, Tools!Answer, Tools!Next,
         Tools!Cardinality, Services!Tools!vars, Services!Tools!serverVars, Services!Tools!tokenVars,
         Services!Tools!Rest, Services!Tools!Unsent, Services!Tools!Bound, Services!Tools!Start,
         Services!Tools!ServerUp, Services!Tools!Started, Services!Tools!StartFails, Services!Tools!Stop,
         Services!Tools!Stopped, Services!Tools!Without, Services!Tools!Register, Services!Tools!Deregister,
         Services!Tools!Send, Services!Tools!Route, Services!Tools!Answer, Services!Tools!Next,
         Services!Tools!Cardinality
<1>3. /\ Tools!vars = Services!Tools!vars
      /\ Tools!TypeOK <=> Services!Tools!TypeOK
      /\ Tools!OneLiveToken <=> Services!Tools!OneLiveToken
      /\ Tools!PortIsFree <=> Services!Tools!PortIsFree
  BY DEF Tools!vars, Services!Tools!vars, Tools!TypeOK, Tools!Cardinality, Services!Tools!TypeOK,
         Services!Tools!Cardinality, Tools!Bound, Tools!OneLiveToken, Services!Tools!Bound,
         Services!Tools!OneLiveToken, Tools!PortIsFree, Services!Tools!PortIsFree
<1> QED
  BY <1>1, <1>2, <1>3

LEMMA LogSame ==
    /\ Log!Init <=> Services!Events!Init
    /\ Log!Next <=> Services!Events!Next
    /\ Log!vars = Services!Events!vars
    /\ Log!TypeOK <=> Services!Events!TypeOK
    /\ Log!EveryoneIsTold <=> Services!Events!EveryoneIsTold
    /\ Log!PagesAreTheLog <=> Services!Events!PagesAreTheLog
<1>1. Log!Init <=> Services!Events!Init
  BY DEF Log!Reading, Log!Init, Log!ToSet, Log!RemoveAt, Log!Cardinality, Log!SelectInSeq, Log!Contains,
         Log!IsPrefix, Log!Min, Services!Events!Reading, Services!Events!Init, Services!Events!ToSet,
         Services!Events!RemoveAt, Services!Events!Cardinality, Services!Events!SelectInSeq,
         Services!Events!Contains, Services!Events!IsPrefix, Services!Events!Min
<1>2. Log!Next <=> Services!Events!Next
  <2>1. ASSUME NEW limit PROVE Log!GetEvents(limit) <=> Services!Events!GetEvents(limit)
    BY DEF Log!vars, Log!subVars, Log!Reading, Log!GetEvents, Log!ToSet, Log!RemoveAt, Log!Cardinality,
           Log!SelectInSeq, Log!Contains, Log!IsPrefix, Log!Min, Services!Events!vars,
           Services!Events!subVars, Services!Events!Reading, Services!Events!GetEvents, Services!Events!ToSet,
           Services!Events!RemoveAt, Services!Events!Cardinality, Services!Events!SelectInSeq,
           Services!Events!Contains, Services!Events!IsPrefix, Services!Events!Min
  <2> QED
    BY <2>1 DEF Log!vars, Log!subVars, Log!readVars, Log!Reading, Log!AllEvents, Log!NewId, Log!Appended,
           Log!Matches, Log!Handed, Log!Owed, Log!AppendEvent, Log!Produce, Log!Nested, Log!Callback,
           Log!Return, Log!On, Log!Unsubscribe, Log!Copied, Log!SpawnSeeded, Log!CopyEvents, Log!Next,
           Log!ToSet, Log!RemoveAt, Log!Cardinality, Log!SelectInSeq, Log!Contains, Log!IsPrefix, Log!Min,
           Services!Events!vars, Services!Events!subVars, Services!Events!readVars, Services!Events!Reading,
           Services!Events!AllEvents, Services!Events!NewId, Services!Events!Appended,
           Services!Events!Matches, Services!Events!Handed, Services!Events!Owed, Services!Events!AppendEvent,
           Services!Events!Produce, Services!Events!Nested, Services!Events!Callback, Services!Events!Return,
           Services!Events!On, Services!Events!Unsubscribe, Services!Events!Copied,
           Services!Events!SpawnSeeded, Services!Events!CopyEvents, Services!Events!Next,
           Services!Events!ToSet, Services!Events!RemoveAt, Services!Events!Cardinality,
           Services!Events!SelectInSeq, Services!Events!Contains, Services!Events!IsPrefix,
           Services!Events!Min
<1>3. /\ Log!vars = Services!Events!vars
      /\ Log!TypeOK <=> Services!Events!TypeOK
      /\ Log!EveryoneIsTold <=> Services!Events!EveryoneIsTold
      /\ Log!PagesAreTheLog <=> Services!Events!PagesAreTheLog
  BY DEF Log!vars, Services!Events!vars, Log!TypeOK, Log!ToSet, Log!RemoveAt, Log!Cardinality,
         Log!SelectInSeq, Log!Contains, Log!IsPrefix, Log!Min, Services!Events!TypeOK, Services!Events!ToSet,
         Services!Events!RemoveAt, Services!Events!Cardinality, Services!Events!SelectInSeq,
         Services!Events!Contains, Services!Events!IsPrefix, Services!Events!Min, Log!EveryoneIsTold,
         Services!Events!EveryoneIsTold, Log!Reading, Log!PagesAreTheLog, Services!Events!Reading,
         Services!Events!PagesAreTheLog
<1> QED
  BY <1>1, <1>2, <1>3

LEMMA MemorySame ==
    /\ Memory!Init <=> Services!Memory!Init
    /\ Memory!Next <=> Services!Memory!Next
    /\ Memory!vars = Services!Memory!vars
    /\ Memory!TypeOK <=> Services!Memory!TypeOK
    /\ Memory!IdNamesItsEntry <=> Services!Memory!IdNamesItsEntry
    /\ Memory!OthersAreKept <=> Services!Memory!OthersAreKept
<1>1. Memory!Init <=> Services!Memory!Init
  BY DEF Memory!Absent, Memory!Closed, Memory!Idle, Memory!Unread, Memory!Init, Memory!ToSet, Memory!RemoveAt,
         Memory!Cardinality, Memory!SelectInSeq, Memory!Contains, Memory!IsPrefix, Memory!Min,
         Services!Memory!Absent, Services!Memory!Closed, Services!Memory!Idle, Services!Memory!Unread,
         Services!Memory!Init, Services!Memory!ToSet, Services!Memory!RemoveAt, Services!Memory!Cardinality,
         Services!Memory!SelectInSeq, Services!Memory!Contains, Services!Memory!IsPrefix, Services!Memory!Min
<1>2. Memory!Next <=> Services!Memory!Next
  <2>1. ASSUME NEW c PROVE Memory!Locate(c) <=> Services!Memory!Locate(c)
    BY DEF Memory!storeVars, Memory!fileVars, Memory!viewVars, Memory!vars, Memory!Idle, Memory!Finish,
           Memory!Locate, Memory!ToSet, Memory!RemoveAt, Memory!Cardinality, Memory!SelectInSeq,
           Memory!Contains, Memory!IsPrefix, Memory!Min, Services!Memory!storeVars, Services!Memory!fileVars,
           Services!Memory!viewVars, Services!Memory!vars, Services!Memory!Idle, Services!Memory!Finish,
           Services!Memory!Locate, Services!Memory!ToSet, Services!Memory!RemoveAt,
           Services!Memory!Cardinality, Services!Memory!SelectInSeq, Services!Memory!Contains,
           Services!Memory!IsPrefix, Services!Memory!Min
  <2> QED
    BY <2>1 DEF Memory!storeVars, Memory!fileVars, Memory!viewVars, Memory!vars, Memory!Absent, Memory!Closed,
           Memory!Idle, Memory!Opened, Memory!Unread, Memory!FreshIds, Memory!EnsureLedger, Memory!Pairs,
           Memory!Open, Memory!InUse, Memory!Start, Memory!Step, Memory!Finish, Memory!Add, Memory!EntryOf,
           Memory!Update, Memory!Delete, Memory!Save, Memory!CloseReads, Memory!CloseReplaces, Memory!Exit,
           Memory!ExternalEdit, Memory!Emit, Memory!Emitted, Memory!Next, Memory!ToSet, Memory!RemoveAt,
           Memory!Cardinality, Memory!SelectInSeq, Memory!Contains, Memory!IsPrefix, Memory!Min,
           Services!Memory!storeVars, Services!Memory!fileVars, Services!Memory!viewVars,
           Services!Memory!vars, Services!Memory!Absent, Services!Memory!Closed, Services!Memory!Idle,
           Services!Memory!Opened, Services!Memory!Unread, Services!Memory!FreshIds,
           Services!Memory!EnsureLedger, Services!Memory!Pairs, Services!Memory!Open, Services!Memory!InUse,
           Services!Memory!Start, Services!Memory!Step, Services!Memory!Finish, Services!Memory!Add,
           Services!Memory!EntryOf, Services!Memory!Update, Services!Memory!Delete, Services!Memory!Save,
           Services!Memory!CloseReads, Services!Memory!CloseReplaces, Services!Memory!Exit,
           Services!Memory!ExternalEdit, Services!Memory!Emit, Services!Memory!Emitted, Services!Memory!Next,
           Services!Memory!ToSet, Services!Memory!RemoveAt, Services!Memory!Cardinality,
           Services!Memory!SelectInSeq, Services!Memory!Contains, Services!Memory!IsPrefix,
           Services!Memory!Min
<1>3. /\ Memory!vars = Services!Memory!vars
      /\ Memory!TypeOK <=> Services!Memory!TypeOK
      /\ Memory!IdNamesItsEntry <=> Services!Memory!IdNamesItsEntry
      /\ Memory!OthersAreKept <=> Services!Memory!OthersAreKept
  BY DEF Memory!storeVars, Memory!fileVars, Memory!viewVars, Memory!vars, Services!Memory!storeVars,
         Services!Memory!fileVars, Services!Memory!viewVars, Services!Memory!vars, Memory!TypeOK,
         Memory!ToSet, Memory!RemoveAt, Memory!Cardinality, Memory!SelectInSeq, Memory!Contains,
         Memory!IsPrefix, Memory!Min, Services!Memory!TypeOK, Services!Memory!ToSet, Services!Memory!RemoveAt,
         Services!Memory!Cardinality, Services!Memory!SelectInSeq, Services!Memory!Contains,
         Services!Memory!IsPrefix, Services!Memory!Min, Memory!InUse, Memory!IdNamesItsEntry,
         Services!Memory!InUse, Services!Memory!IdNamesItsEntry, Memory!OthersAreKept,
         Services!Memory!OthersAreKept
<1> QED
  BY <1>1, <1>2, <1>3

LEMMA ViewSame ==
    /\ View!Init <=> Services!View!Init
    /\ View!Next <=> Services!View!Next
    /\ View!vars = Services!View!vars
    /\ View!RecallLoggedOnce <=> Services!View!RecallLoggedOnce
<1>1. View!Init <=> Services!View!Init
  BY DEF View!Absent, View!Closed, View!Idle, View!Unread, View!Init, View!ToSet, View!RemoveAt,
         View!Cardinality, View!SelectInSeq, View!Contains, View!IsPrefix, View!Min, Services!View!Absent,
         Services!View!Closed, Services!View!Idle, Services!View!Unread, Services!View!Init, Services!View!ToSet,
         Services!View!RemoveAt, Services!View!Cardinality, Services!View!SelectInSeq, Services!View!Contains,
         Services!View!IsPrefix, Services!View!Min
<1>2. View!Next <=> Services!View!Next
  <2>1. ASSUME NEW c PROVE View!Locate(c) <=> Services!View!Locate(c)
    BY DEF View!storeVars, View!fileVars, View!viewVars, View!vars, View!Idle, View!Finish, View!Locate,
           View!ToSet, View!RemoveAt, View!Cardinality, View!SelectInSeq, View!Contains, View!IsPrefix,
           View!Min, Services!View!storeVars, Services!View!fileVars, Services!View!viewVars, Services!View!vars,
           Services!View!Idle, Services!View!Finish, Services!View!Locate, Services!View!ToSet,
           Services!View!RemoveAt, Services!View!Cardinality, Services!View!SelectInSeq, Services!View!Contains,
           Services!View!IsPrefix, Services!View!Min
  <2> QED
    BY <2>1 DEF View!storeVars, View!fileVars, View!viewVars, View!vars, View!Absent, View!Closed, View!Idle,
           View!Opened, View!Unread, View!FreshIds, View!EnsureLedger, View!Pairs, View!Open, View!InUse,
           View!Start, View!Step, View!Finish, View!Add, View!EntryOf, View!Update, View!Delete, View!Save,
           View!CloseReads, View!CloseReplaces, View!Exit, View!ExternalEdit, View!Emit, View!Emitted,
           View!Next, View!ToSet, View!RemoveAt, View!Cardinality, View!SelectInSeq, View!Contains,
           View!IsPrefix, View!Min, Services!View!storeVars, Services!View!fileVars, Services!View!viewVars,
           Services!View!vars, Services!View!Absent, Services!View!Closed, Services!View!Idle,
           Services!View!Opened, Services!View!Unread, Services!View!FreshIds, Services!View!EnsureLedger,
           Services!View!Pairs, Services!View!Open, Services!View!InUse, Services!View!Start, Services!View!Step,
           Services!View!Finish, Services!View!Add, Services!View!EntryOf, Services!View!Update,
           Services!View!Delete, Services!View!Save, Services!View!CloseReads, Services!View!CloseReplaces,
           Services!View!Exit, Services!View!ExternalEdit, Services!View!Emit, Services!View!Emitted,
           Services!View!Next, Services!View!ToSet, Services!View!RemoveAt, Services!View!Cardinality,
           Services!View!SelectInSeq, Services!View!Contains, Services!View!IsPrefix, Services!View!Min
<1>3. /\ View!vars = Services!View!vars
      /\ View!RecallLoggedOnce <=> Services!View!RecallLoggedOnce
  BY DEF View!storeVars, View!fileVars, View!viewVars, View!vars, Services!View!storeVars,
         Services!View!fileVars, Services!View!viewVars, Services!View!vars, View!RecallLoggedOnce,
         View!ToSet, View!RemoveAt, View!Cardinality, View!SelectInSeq, View!Contains, View!IsPrefix,
         View!Min, Services!View!RecallLoggedOnce, Services!View!ToSet, Services!View!RemoveAt,
         Services!View!Cardinality, Services!View!SelectInSeq, Services!View!Contains, Services!View!IsPrefix,
         Services!View!Min
<1> QED
  BY <1>1, <1>2, <1>3

LEMMA ErrorsSame ==
    /\ Errors!Init <=> Services!Errors!Init
    /\ Errors!Next <=> Services!Errors!Next
    /\ Errors!vars = Services!Errors!vars
    /\ Errors!TypeOK <=> Services!Errors!TypeOK
    /\ Errors!ErrorsKeepTheirName <=> Services!Errors!ErrorsKeepTheirName
    /\ Errors!RegistrationWins <=> Services!Errors!RegistrationWins
<1>1. Errors!Init <=> Services!Errors!Init
  BY DEF Errors!Worker, Errors!Coordinator, Errors!Client, Errors!Processes, Errors!Seeded, Errors!NoError,
         Errors!Init, Errors!Min, Services!Errors!Worker, Services!Errors!Coordinator, Services!Errors!Client,
         Services!Errors!Processes, Services!Errors!Seeded, Services!Errors!NoError, Services!Errors!Init,
         Services!Errors!Min
<1>2. Errors!Next <=> Services!Errors!Next
  BY DEF Errors!Worker, Errors!Coordinator, Errors!Client, Errors!Processes, Errors!vars, Errors!ErrorKinds,
         Errors!NewerKind, Errors!Unsent, Errors!Mro, Errors!Declared, Errors!KnownExceptions, Errors!NoError,
         Errors!Raised, Errors!RemoteError, Errors!KindAt, Errors!Classify, Errors!CoerceErrorKind,
         Errors!Quotes, Errors!ErrorFrame, Errors!RehydrateError, Errors!RegisterErrorKind, Errors!Raise,
         Errors!Unanswered, Errors!WorkerGoes, Errors!HandleCall, Errors!Dispatch, Errors!ConnectionCloses,
         Errors!Next, Errors!Min, Services!Errors!Worker, Services!Errors!Coordinator, Services!Errors!Client,
         Services!Errors!Processes, Services!Errors!vars, Services!Errors!ErrorKinds,
         Services!Errors!NewerKind, Services!Errors!Unsent, Services!Errors!Mro, Services!Errors!Declared,
         Services!Errors!KnownExceptions, Services!Errors!NoError, Services!Errors!Raised,
         Services!Errors!RemoteError, Services!Errors!KindAt, Services!Errors!Classify,
         Services!Errors!CoerceErrorKind, Services!Errors!Quotes, Services!Errors!ErrorFrame,
         Services!Errors!RehydrateError, Services!Errors!RegisterErrorKind, Services!Errors!Raise,
         Services!Errors!Unanswered, Services!Errors!WorkerGoes, Services!Errors!HandleCall,
         Services!Errors!Dispatch, Services!Errors!ConnectionCloses, Services!Errors!Next, Services!Errors!Min
<1>3. /\ Errors!vars = Services!Errors!vars
      /\ Errors!TypeOK <=> Services!Errors!TypeOK
      /\ Errors!ErrorsKeepTheirName <=> Services!Errors!ErrorsKeepTheirName
      /\ Errors!RegistrationWins <=> Services!Errors!RegistrationWins
  BY DEF Errors!vars, Services!Errors!vars, Errors!Worker, Errors!Coordinator, Errors!Client,
         Errors!Processes, Errors!ErrorKinds, Errors!NewerKind, Errors!TypeOK, Errors!Min,
         Services!Errors!Worker, Services!Errors!Coordinator, Services!Errors!Client,
         Services!Errors!Processes, Services!Errors!ErrorKinds, Services!Errors!NewerKind,
         Services!Errors!TypeOK, Services!Errors!Min, Errors!KnownExceptions, Errors!ErrorsKeepTheirName,
         Services!Errors!KnownExceptions, Services!Errors!ErrorsKeepTheirName, Errors!Mro, Errors!Declared,
         Errors!KindAt, Errors!Classify, Errors!RegistrationWins, Services!Errors!Mro,
         Services!Errors!Declared, Services!Errors!KindAt, Services!Errors!Classify,
         Services!Errors!RegistrationWins
<1> QED
  BY <1>1, <1>2, <1>3

LEMMA FeedSame ==
    /\ Feed!Init <=> Others!Feed!Init
    /\ Feed!Next <=> Others!Feed!Next
    /\ Feed!vars = Others!Feed!vars
    /\ Feed!TypeOK <=> Others!Feed!TypeOK
    /\ Feed!FeedHasNoGap <=> Others!Feed!FeedHasNoGap
<1>1. Feed!Init <=> Others!Feed!Init
  BY DEF Feed!Init, Feed!ToSet, Others!Feed!Init, Others!Feed!ToSet
<1>2. Feed!Next <=> Others!Feed!Next
  BY DEF Feed!vars, Feed!Event, Feed!EventFrame, Feed!ResultFrame, Feed!EventsOf, Feed!Unread,
         Feed!AppendEvent, Feed!SendEvent, Feed!GetEvents, Feed!Closes, Feed!Unforward, Feed!Mount,
         Feed!Matches, Feed!DispatchEvent, Feed!DispatchResult, Feed!Subscribe, Feed!Unmount, Feed!Next,
         Feed!ToSet, Others!Feed!vars, Others!Feed!Event, Others!Feed!EventFrame, Others!Feed!ResultFrame,
         Others!Feed!EventsOf, Others!Feed!Unread, Others!Feed!AppendEvent, Others!Feed!SendEvent,
         Others!Feed!GetEvents, Others!Feed!Closes, Others!Feed!Unforward, Others!Feed!Mount,
         Others!Feed!Matches, Others!Feed!DispatchEvent, Others!Feed!DispatchResult, Others!Feed!Subscribe,
         Others!Feed!Unmount, Others!Feed!Next, Others!Feed!ToSet
<1>3. /\ Feed!vars = Others!Feed!vars
      /\ Feed!TypeOK <=> Others!Feed!TypeOK
      /\ Feed!FeedHasNoGap <=> Others!Feed!FeedHasNoGap
  BY DEF Feed!vars, Others!Feed!vars, Feed!Event, Feed!TypeOK, Feed!ToSet, Others!Feed!Event,
         Others!Feed!TypeOK, Others!Feed!ToSet, Feed!FeedHasNoGap, Others!Feed!FeedHasNoGap
<1> QED
  BY <1>1, <1>2, <1>3

LEMMA ServiceSame ==
    /\ Service!Init <=> Others!Core!Init
    /\ Service!Next <=> Others!Core!Next
    /\ Service!vars = Others!Core!vars
    /\ Service!TypeOK <=> Others!Core!TypeOK
    /\ Service!SaveReplaces <=> Others!Core!SaveReplaces
    /\ Service!ReadIsHonest <=> Others!Core!ReadIsHonest
<1>1. Service!Init <=> Others!Core!Init
  BY DEF Service!Silent, Service!Nothing, Service!Idle, Service!Init, Service!Cardinality, Others!Core!Silent,
         Others!Core!Nothing, Others!Core!Idle, Others!Core!Init, Others!Core!Cardinality
<1>2. Service!Next <=> Others!Core!Next
  BY DEF Service!service, Service!vars, Service!Turn, Service!Silent, Service!Nothing, Service!Idle,
         Service!Mine, Service!Held, Service!Vanish, Service!Extract, Service!Ends, Service!Fails,
         Service!Begin, Service!Save, Service!Recall, Service!Delete, Service!Consolidate, Service!Newest,
         Service!Oldest, Service!Window, Service!ListEvents, Service!ReadFails, Service!Found,
         Service!ListRecords, Service!Foremost, Service!DeleteEvent, Service!PurgeRecords, Service!AddTurns,
         Service!FeedbackIsThrough, Service!Waited, Service!Reopen, Service!Next, Service!Cardinality,
         Others!Core!service, Others!Core!vars, Others!Core!Turn, Others!Core!Silent, Others!Core!Nothing,
         Others!Core!Idle, Others!Core!Mine, Others!Core!Held, Others!Core!Vanish, Others!Core!Extract,
         Others!Core!Ends, Others!Core!Fails, Others!Core!Begin, Others!Core!Save, Others!Core!Recall,
         Others!Core!Delete, Others!Core!Consolidate, Others!Core!Newest, Others!Core!Oldest,
         Others!Core!Window, Others!Core!ListEvents, Others!Core!ReadFails, Others!Core!Found,
         Others!Core!ListRecords, Others!Core!Foremost, Others!Core!DeleteEvent, Others!Core!PurgeRecords,
         Others!Core!AddTurns, Others!Core!FeedbackIsThrough, Others!Core!Waited, Others!Core!Reopen,
         Others!Core!Next, Others!Core!Cardinality
<1>3. /\ Service!vars = Others!Core!vars
      /\ Service!TypeOK <=> Others!Core!TypeOK
      /\ Service!SaveReplaces <=> Others!Core!SaveReplaces
      /\ Service!ReadIsHonest <=> Others!Core!ReadIsHonest
  BY DEF Service!service, Service!vars, Others!Core!service, Others!Core!vars, Service!TypeOK,
         Service!Cardinality, Others!Core!TypeOK, Others!Core!Cardinality, Service!Mine, Service!Held,
         Service!HeldRecords, Service!SaveReplaces, Others!Core!Mine, Others!Core!Held,
         Others!Core!HeldRecords, Others!Core!SaveReplaces, Service!ReadIsHonest, Others!Core!ReadIsHonest
<1> QED
  BY <1>1, <1>2, <1>3

LEMMA ApprovalSame ==
    /\ Approval!Init <=> Others!Approval!Init
    /\ Approval!Next <=> Others!Approval!Next
    /\ Approval!vars = Others!Approval!vars
    /\ Approval!TypeOK <=> Others!Approval!TypeOK
    /\ Approval!LogDecides <=> Others!Approval!LogDecides
    /\ Approval!NoDecisionIsLost <=> Others!Approval!NoDecisionIsLost
<1>1. Approval!Init <=> Others!Approval!Init
  BY DEF Approval!Init, Approval!ToSet, Approval!Last, Approval!Cardinality, Others!Approval!Init,
         Others!Approval!ToSet, Others!Approval!Last, Others!Approval!Cardinality
<1>2. Approval!Next <=> Others!Approval!Next
  BY DEF Approval!vars, Approval!kind, Approval!Request, Approval!Decided, Approval!DecisionsOn,
         Approval!Route, Approval!Allows, Approval!OnInterrupt, Approval!Fresh, Approval!Interrupts,
         Approval!AsksLeave, Approval!Gathered, Approval!Resumes, Approval!WorkerResolves,
         Approval!ResolveApproval, Approval!EventArrives, Approval!ResolveArrives, Approval!CycleBegins,
         Approval!CycleEnds, Approval!Cancelled, Approval!TornDown, Approval!Disconnects, Approval!Next,
         Approval!ToSet, Approval!Last, Approval!Cardinality, Others!Approval!vars, Others!Approval!kind,
         Others!Approval!Request, Others!Approval!Decided, Others!Approval!DecisionsOn, Others!Approval!Route,
         Others!Approval!Allows, Others!Approval!OnInterrupt, Others!Approval!Fresh,
         Others!Approval!Interrupts, Others!Approval!AsksLeave, Others!Approval!Gathered,
         Others!Approval!Resumes, Others!Approval!WorkerResolves, Others!Approval!ResolveApproval,
         Others!Approval!EventArrives, Others!Approval!ResolveArrives, Others!Approval!CycleBegins,
         Others!Approval!CycleEnds, Others!Approval!Cancelled, Others!Approval!TornDown,
         Others!Approval!Disconnects, Others!Approval!Next, Others!Approval!ToSet, Others!Approval!Last,
         Others!Approval!Cardinality
<1>3. /\ Approval!vars = Others!Approval!vars
      /\ Approval!TypeOK <=> Others!Approval!TypeOK
      /\ Approval!LogDecides <=> Others!Approval!LogDecides
      /\ Approval!NoDecisionIsLost <=> Others!Approval!NoDecisionIsLost
  BY DEF Approval!vars, Others!Approval!vars, Approval!TypeOK, Approval!ToSet, Approval!Last,
         Approval!Cardinality, Others!Approval!TypeOK, Others!Approval!ToSet, Others!Approval!Last,
         Others!Approval!Cardinality, Approval!DecisionsOn, Approval!Allows, Approval!LogDecides,
         Others!Approval!DecisionsOn, Others!Approval!Allows, Others!Approval!LogDecides,
         Approval!NoDecisionIsLost, Others!Approval!NoDecisionIsLost
<1> QED
  BY <1>1, <1>2, <1>3

LEMMA BackendSame ==
    /\ Backend!Init <=> Others!Backed!Init
    /\ Backend!Next <=> Others!Backed!Next
    /\ Backend!vars = Others!Backed!vars
    /\ Backend!TypeOK <=> Others!Backed!TypeOK
    /\ Backend!NotifiedOnce <=> Others!Backed!NotifiedOnce
    /\ Backend!EndpointOutlivesAgent <=> Others!Backed!EndpointOutlivesAgent
<1>1. Backend!Init <=> Others!Backed!Init
  BY DEF Backend!Init, Backend!Cardinality, Others!Backed!Init, Others!Backed!Cardinality
<1>2. Backend!Next <=> Others!Backed!Next
  BY DEF Backend!vars, Backend!connVars, Backend!mailVars, Backend!Message, Backend!Feedback,
         Backend!Buffered, Backend!InCycle, Backend!Attempts, Backend!Execute, Backend!Cancel,
         Backend!Connect, Backend!ConnectFails, Backend!Drained, Backend!Attempt, Backend!Send,
         Backend!TurnEnds, Backend!Interrupt, Backend!StreamEnds, Backend!Check, Backend!Abort,
         Backend!Notify, Backend!Steer, Backend!Teardown, Backend!Next, Backend!Cardinality,
         Others!Backed!vars, Others!Backed!connVars, Others!Backed!mailVars, Others!Backed!Message,
         Others!Backed!Feedback, Others!Backed!Buffered, Others!Backed!InCycle, Others!Backed!Attempts,
         Others!Backed!Execute, Others!Backed!Cancel, Others!Backed!Connect, Others!Backed!ConnectFails,
         Others!Backed!Drained, Others!Backed!Attempt, Others!Backed!Send, Others!Backed!TurnEnds,
         Others!Backed!Interrupt, Others!Backed!StreamEnds, Others!Backed!Check, Others!Backed!Abort,
         Others!Backed!Notify, Others!Backed!Steer, Others!Backed!Teardown, Others!Backed!Next,
         Others!Backed!Cardinality
<1>3. /\ Backend!vars = Others!Backed!vars
      /\ Backend!TypeOK <=> Others!Backed!TypeOK
      /\ Backend!NotifiedOnce <=> Others!Backed!NotifiedOnce
      /\ Backend!EndpointOutlivesAgent <=> Others!Backed!EndpointOutlivesAgent
  BY DEF Backend!vars, Others!Backed!vars, Backend!TypeOK, Backend!Attempts, Backend!Cardinality,
         Others!Backed!TypeOK, Others!Backed!Attempts, Others!Backed!Cardinality, Backend!Buffered,
         Backend!NotifiedOnce, Others!Backed!Buffered, Others!Backed!NotifiedOnce,
         Backend!EndpointOutlivesAgent, Others!Backed!EndpointOutlivesAgent
<1> QED
  BY <1>1, <1>2, <1>3

LEMMA HostSame ==
    /\ Host!Init <=> Others!Host!Init
    /\ Host!Next <=> Others!Host!Next
    /\ Host!vars = Others!Host!vars
    /\ Host!TypeOK <=> Others!Host!TypeOK
    /\ Host!SilentEndWasAsked <=> Others!Host!SilentEndWasAsked
<1>1. Host!Init <=> Others!Host!Init
  BY DEF Host!Init, Others!Host!Init
<1>2. Host!Next <=> Others!Host!Next
  BY DEF Host!vars, Host!CycleOver, Host!Signal, Host!PeerTerminates, Host!MarkerReached,
         Host!ConnectionDrops, Host!CycleEnds, Host!PollFails, Host!WaitReturns, Host!RemoveHandlers,
         Host!Terminate, Host!CloseWorker, Host!Leave, Host!Next, Others!Host!vars, Others!Host!CycleOver,
         Others!Host!Signal, Others!Host!PeerTerminates, Others!Host!MarkerReached,
         Others!Host!ConnectionDrops, Others!Host!CycleEnds, Others!Host!PollFails, Others!Host!WaitReturns,
         Others!Host!RemoveHandlers, Others!Host!Terminate, Others!Host!CloseWorker, Others!Host!Leave,
         Others!Host!Next
<1>3. /\ Host!vars = Others!Host!vars
      /\ Host!TypeOK <=> Others!Host!TypeOK
      /\ Host!SilentEndWasAsked <=> Others!Host!SilentEndWasAsked
  BY DEF Host!vars, Others!Host!vars, Host!Cycles, Host!TypeOK, Others!Host!Cycles, Others!Host!TypeOK,
         Host!CycleOver, Host!SilentEndWasAsked, Others!Host!CycleOver, Others!Host!SilentEndWasAsked
<1> QED
  BY <1>1, <1>2, <1>3

LEMMA CompileSame ==
    /\ Compile!Init <=> Others!Lean!Init
    /\ Compile!Next <=> Others!Lean!Next
    /\ Compile!vars = Others!Lean!vars
    /\ Compile!TypeOK <=> Others!Lean!TypeOK
    /\ Compile!LoadedIsPublished <=> Others!Lean!LoadedIsPublished
    /\ Compile!NoLockIsAbandoned <=> Others!Lean!NoLockIsAbandoned
<1>1. Compile!Init <=> Others!Lean!Init
  BY DEF Compile!Caches, Compile!Init, Others!Lean!Caches, Others!Lean!Init
<1>2. Compile!Next <=> Others!Lean!Next
  BY DEF Compile!Caches, Compile!vars, Compile!Cache, Compile!Step, Compile!InThread, Compile!Compile,
         Compile!AcquireLocal, Compile!AcquireFile, Compile!ReleaseAll, Compile!Leave, Compile!TimesOut,
         Compile!Release, Compile!GoOn, Compile!Look, Compile!ReadArtifact, Compile!Build, Compile!Retry,
         Compile!Ask, Compile!Check, Compile!Remove, Compile!Publish, Compile!Cancel, Compile!Crash,
         Compile!Work, Compile!Next, Others!Lean!Caches, Others!Lean!vars, Others!Lean!Cache,
         Others!Lean!Step, Others!Lean!InThread, Others!Lean!Compile, Others!Lean!AcquireLocal,
         Others!Lean!AcquireFile, Others!Lean!ReleaseAll, Others!Lean!Leave, Others!Lean!TimesOut,
         Others!Lean!Release, Others!Lean!GoOn, Others!Lean!Look, Others!Lean!ReadArtifact, Others!Lean!Build,
         Others!Lean!Retry, Others!Lean!Ask, Others!Lean!Check, Others!Lean!Remove, Others!Lean!Publish,
         Others!Lean!Cancel, Others!Lean!Crash, Others!Lean!Work, Others!Lean!Next
<1>3. /\ Compile!vars = Others!Lean!vars
      /\ Compile!TypeOK <=> Others!Lean!TypeOK
      /\ Compile!LoadedIsPublished <=> Others!Lean!LoadedIsPublished
      /\ Compile!NoLockIsAbandoned <=> Others!Lean!NoLockIsAbandoned
  BY DEF Compile!vars, Others!Lean!vars, Compile!Caches, Compile!Cache, Compile!TypeOK, Others!Lean!Caches,
         Others!Lean!Cache, Others!Lean!TypeOK, Compile!Step, Compile!LoadedIsPublished, Others!Lean!Step,
         Others!Lean!LoadedIsPublished, Compile!NoLockIsAbandoned, Others!Lean!NoLockIsAbandoned
<1> QED
  BY <1>1, <1>2, <1>3

----------------------------------------------------------------------------
(* What every part keeps, while it is the one that runs.                   *)

\* The hypotheses: no process is both a server and a reader or the marker of
\* an empty file, one tool call edits a memory file at a time, a thread is
\* watched, a decision is none of the states of a future, 0 is the feedback a
\* backend writes and no message of the user, and Nobody is no compilation.
NetworkSettings ==
    /\ Servers \cap Readers = {} /\ None \notin Servers
    /\ \A c, d \in Calls : c = d
    /\ Watched \in Hosted
    /\ Decisions \cap {"none", "pending", "cancelled"} = {}
    /\ 0 \notin Messages
    /\ Nobody \notin 1..3

LEMMA PartsAgreeToThem ==
    ASSUME NetworkSettings
    PROVE  /\ Services!OneAtATime /\ Services!OneEditAtATime /\ Hosted # {}
           /\ Others!FeedOfAThread /\ Others!WindowHasRoom
           /\ Others!DecisionsApart /\ Others!FeedbackIsNoMessage /\ Others!BackedBounds /\ Others!Setting
BY DEF NetworkSettings, Services!OneAtATime, Services!OneEditAtATime, Others!FeedOfAThread, Others!WindowHasRoom,
       Others!DecisionsApart, Others!FeedbackIsNoMessage, Others!BackedBounds, Others!Setting

NetworkInv ==
    /\ which = "log" => Services!EventsInv /\ Services!ToldInv
    /\ which = "feed" => Others!FeedInv
    /\ which = "errors" => Services!ErrorsInv
    /\ which = "memory" => Services!LedgerInv
    /\ which = "view" => Services!ToldByOne
    /\ which = "service" => Others!CoreInv
    /\ which = "session" => Services!SessionInv
    /\ which = "discovery" => Services!DiscoveryInv
    /\ which = "tools" => Services!ToolInv
    /\ which = "approvals" => Others!ApprovalInv
    /\ which = "backed" => Others!BackedInv
    /\ which = "host" => Others!HostInv
    /\ which = "compile" => Others!LockInv /\ Others!ArtifactInv

LEMMA NetworkStarts == ASSUME NetworkSettings, NetworkInit PROVE NetworkInv
<1>1. which = "log" => Services!EventsInv /\ Services!ToldInv
  BY LogSame, PartsAgreeToThem, Services!EventsStart, Services!ToldStarts DEF NetworkInit
<1>2. which = "feed" => Others!FeedInv
  BY FeedSame, PartsAgreeToThem, Others!FeedStarts DEF NetworkInit
<1>3. which = "errors" => Services!ErrorsInv
  BY ErrorsSame, Services!ErrorsStart DEF NetworkInit
<1>4. which = "memory" => Services!LedgerInv
  BY MemorySame, Services!LedgerStarts DEF NetworkInit
<1>5. which = "view" => Services!ToldByOne
  BY ViewSame, Services!RecallStarts DEF NetworkInit
<1>6. which = "service" => Others!CoreInv
  BY ServiceSame, PartsAgreeToThem, Others!CoreStarts DEF NetworkInit
<1>7. which = "session" => Services!SessionInv
  BY SessionSame, Services!SessionStarts DEF NetworkInit
<1>8. which = "discovery" => Services!DiscoveryInv
  BY DiscoverySame, PartsAgreeToThem, Services!DiscoveryStarts DEF NetworkInit
<1>9. which = "tools" => Services!ToolInv
  BY ToolsSame, Services!ToolsStart DEF NetworkInit
<1>10. which = "approvals" => Others!ApprovalInv
  BY ApprovalSame, PartsAgreeToThem, Others!ApprovalStarts DEF NetworkInit
<1>11. which = "backed" => Others!BackedInv
  BY BackendSame, Others!BackedStarts DEF NetworkInit
<1>12. which = "host" => Others!HostInv
  BY HostSame, Others!HostStarts DEF NetworkInit
<1>13. which = "compile" => Others!LockInv /\ Others!ArtifactInv
  BY CompileSame, PartsAgreeToThem, Others!LockInit DEF NetworkInit
<1> QED
  BY <1>1, <1>2, <1>3, <1>4, <1>5, <1>6, <1>7, <1>8, <1>9, <1>10, <1>11, <1>12, <1>13 DEF NetworkInv

\* A step is one of the part that runs, or none at all.
LEMMA OnePartMoves ==
    ASSUME [NetworkNext]_<<which, vars, parts>>
    PROVE  /\ which' = which
           /\ which = "log" => [Services!Events!Next]_(Services!Events!vars)
           /\ which = "feed" => [Others!Feed!Next]_(Others!Feed!vars)
           /\ which = "errors" => [Services!Errors!Next]_(Services!Errors!vars)
           /\ which = "memory" => [Services!Memory!Next]_(Services!Memory!vars)
           /\ which = "view" => [Services!View!Next]_(Services!View!vars)
           /\ which = "service" => [Others!Core!Next]_(Others!Core!vars)
           /\ which = "session" => [Services!Session!Next]_(Services!Session!vars)
           /\ which = "discovery" => [Services!Discovery!Next]_(Services!Discovery!vars)
           /\ which = "tools" => [Services!Tools!Next]_(Services!Tools!vars)
           /\ which = "approvals" => [Others!Approval!Next]_(Others!Approval!vars)
           /\ which = "backed" => [Others!Backed!Next]_(Others!Backed!vars)
           /\ which = "host" => [Others!Host!Next]_(Others!Host!vars)
           /\ which = "compile" => [Others!Lean!Next]_(Others!Lean!vars)
<1>1. CASE UNCHANGED <<which, vars, parts>>
  <2>1. UNCHANGED <<which, v1, v2, v3, v4, v5, v6, v7, v8, v9, v10, v11, v12, v13, v14>>
    BY <1>1 DEF parts
  <2> QED
    BY <2>1 DEF Services!Events!vars, Others!Feed!vars, Services!Errors!vars, Services!Memory!vars,
         Services!Memory!storeVars, Services!Memory!fileVars, Services!Memory!viewVars, Services!View!vars,
         Services!View!storeVars, Services!View!fileVars, Services!View!viewVars, Others!Core!vars, Others!Core!service,
         Services!Session!vars, Services!Discovery!vars, Services!Tools!vars, Services!Tools!serverVars,
         Services!Tools!tokenVars, Others!Approval!vars, Others!Approval!kind, Others!Backed!vars,
         Others!Backed!connVars, Others!Backed!mailVars, Others!Host!vars, Others!Lean!vars
<1>2. CASE NetworkNext
  <2>1. which' = which
    BY <1>2 DEF NetworkNext
  <2>2. which = "log" => Log!Next
    BY <1>2 DEF NetworkNext
  <2>3. which = "feed" => Feed!Next
    BY <1>2 DEF NetworkNext
  <2>4. which = "errors" => Errors!Next
    BY <1>2 DEF NetworkNext
  <2>5. which = "memory" => Memory!Next
    BY <1>2 DEF NetworkNext
  <2>6. which = "view" => View!Next
    BY <1>2 DEF NetworkNext
  <2>7. which = "service" => Service!Next
    BY <1>2 DEF NetworkNext
  <2>8. which = "session" => Session!Next
    BY <1>2 DEF NetworkNext
  <2>9. which = "discovery" => Discovery!Next
    BY <1>2 DEF NetworkNext
  <2>10. which = "tools" => Tools!Next
    BY <1>2 DEF NetworkNext
  <2>11. which = "approvals" => Approval!Next
    BY <1>2 DEF NetworkNext
  <2>12. which = "backed" => Backend!Next
    BY <1>2 DEF NetworkNext
  <2>13. which = "host" => Host!Next
    BY <1>2 DEF NetworkNext
  <2>14. which = "compile" => Compile!Next
    BY <1>2 DEF NetworkNext
  <2> QED
    BY <2>1, <2>2, <2>3, <2>4, <2>5, <2>6, <2>7, <2>8, <2>9, <2>10, <2>11, <2>12, <2>13, <2>14,
       LogSame, FeedSame, ErrorsSame, MemorySame, ViewSame, ServiceSame, SessionSame, DiscoverySame, ToolsSame,
       ApprovalSame, BackendSame, HostSame, CompileSame
<1> QED
  BY <1>1, <1>2

LEMMA NetworkGoesOn ==
    ASSUME NetworkSettings, NetworkInv, [NetworkNext]_<<which, vars, parts>>
    PROVE  NetworkInv'
<1> USE DEF NetworkInv
<1>1. which' = which
  BY OnePartMoves
<1>2. which = "log" => (Services!EventsInv /\ Services!ToldInv)'
  <2>1. which = "log" => Services!EventsInv'
    BY OnePartMoves, Services!EventsGoOn
  <2> QED
    BY <2>1, OnePartMoves, Services!ToldGoesOn
<1>3. which = "feed" => Others!FeedInv'
  BY OnePartMoves, PartsAgreeToThem, Others!FeedGoesOn
<1>4. which = "errors" => Services!ErrorsInv'
  BY OnePartMoves, Services!ErrorsGoOn
<1>5. which = "memory" => Services!LedgerInv'
  BY OnePartMoves, PartsAgreeToThem, Services!LedgerGoesOn
<1>6. which = "view" => Services!ToldByOne'
  BY OnePartMoves, Services!RecallGoesOn
<1>7. which = "service" => Others!CoreInv'
  BY OnePartMoves, PartsAgreeToThem, Others!CoreGoesOn
<1>8. which = "session" => Services!SessionInv'
  BY OnePartMoves, Services!SessionGoesOn
<1>9. which = "discovery" => Services!DiscoveryInv'
  BY OnePartMoves, PartsAgreeToThem, Services!DiscoveryGoesOn
<1>10. which = "tools" => Services!ToolInv'
  BY OnePartMoves, Services!ToolsGoOn
<1>11. which = "approvals" => Others!ApprovalInv'
  BY OnePartMoves, PartsAgreeToThem, Others!ApprovalGoesOn
<1>12. which = "backed" => Others!BackedInv'
  BY OnePartMoves, PartsAgreeToThem, Others!BackedGoesOn
<1>13. which = "host" => Others!HostInv'
  BY OnePartMoves, Others!HostGoesOn
<1>14. which = "compile" => (Others!LockInv /\ Others!ArtifactInv)'
  <2>1. which = "compile" => Others!LockInv'
    BY OnePartMoves, PartsAgreeToThem, Others!LockStep
  <2> QED
    BY <2>1, OnePartMoves, PartsAgreeToThem, Others!ArtifactStep
<1> QED
  BY <1>1, <1>2, <1>3, <1>4, <1>5, <1>6, <1>7, <1>8, <1>9, <1>10, <1>11, <1>12, <1>13, <1>14

LEMMA NetworkIsSound ==
    ASSUME NetworkSettings, NetworkInv
    PROVE  /\ EveryoneIsTold /\ MemoryIsKept /\ FilesAreSound /\ OneLiveToken
           /\ ApprovalsAreKept /\ NotifiedOnce /\ SilentEndWasAsked /\ LoadedIsPublished
<1>1. EveryoneIsTold
  <2>1. which = "log" => Log!EveryoneIsTold /\ Log!PagesAreTheLog
    BY LogSame, Services!NobodyWaits, Services!PagesFollowTheLog DEF NetworkInv
  <2>2. which = "feed" => Feed!FeedHasNoGap
    BY FeedSame DEF NetworkInv, Others!FeedInv
  <2>3. which = "errors" => Errors!ErrorsKeepTheirName /\ Errors!RegistrationWins
    BY ErrorsSame, Services!NamesAreKept, Services!RegistrationShadows DEF NetworkInv
  <2> QED
    BY <2>1, <2>2, <2>3 DEF EveryoneIsTold
<1>2. MemoryIsKept
  <2>1. which = "memory" => Memory!IdNamesItsEntry /\ Memory!OthersAreKept
    BY MemorySame, Services!LevelNames, Services!FileHoldsTheLast DEF NetworkInv, Services!LedgerInv
  <2>2. which = "view" => View!RecallLoggedOnce
    BY ViewSame, Services!OneHasIt DEF NetworkInv
  <2>3. which = "service" => Service!SaveReplaces /\ Service!ReadIsHonest
    BY ServiceSame, PartsAgreeToThem, Others!FoundIsReplaced, Others!StandingIsRead DEF NetworkInv
  <2> QED
    BY <2>1, <2>2, <2>3 DEF MemoryIsKept
<1>3. FilesAreSound
  BY SessionSame, DiscoverySame, Services!NoneIsOlder, Services!UpIsFound DEF NetworkInv, FilesAreSound
<1>4. OneLiveToken
  BY ToolsSame, Services!OneTokenEach DEF NetworkInv, OneLiveToken
<1>5. ApprovalsAreKept
  BY ApprovalSame, PartsAgreeToThem, Others!ApprovalsMean DEF NetworkInv, ApprovalsAreKept
<1>6. NotifiedOnce
  BY BackendSame, Others!BackedMeans DEF NetworkInv, NotifiedOnce
<1>7. SilentEndWasAsked
  BY HostSame, Others!HostMeans DEF NetworkInv, SilentEndWasAsked
<1>8. LoadedIsPublished
  BY CompileSame, Others!HoldersAreInside, Others!LoadedIsThere DEF NetworkInv, LoadedIsPublished
<1> QED
  BY <1>1, <1>2, <1>3, <1>4, <1>5, <1>6, <1>7, <1>8

LEMMA NetworkHolds == ASSUME NetworkSettings PROVE NetworkSpec => []NetworkInv
BY NetworkStarts, NetworkGoesOn, PTL DEF NetworkSpec

\* Each subscriber of an event log is told each of its events once, a reader
\* that pages through it finds no gap, nor does a remote subscriber, and a
\* caller is told the name and the kind of what was raised.
THEOREM EveryoneIsAlwaysTold == ASSUME NetworkSettings PROVE NetworkSpec => []EveryoneIsTold
BY NetworkHolds, NetworkIsSound, PTL

\* The ids of a memory file name their entries and no actor's record is lost, a
\* recall is logged once, and a memory service replaces what a save found.
THEOREM MemoryIsAlwaysKept == ASSUME NetworkSettings PROVE NetworkSpec => []MemoryIsKept
BY NetworkHolds, NetworkIsSound, PTL

\* A session that exists loads, and the one coordinator that is up is found.
THEOREM FilesAlwaysAreSound == ASSUME NetworkSettings PROVE NetworkSpec => []FilesAreSound
BY NetworkHolds, NetworkIsSound, PTL

\* A thread has one live token, a stopped tool server none and a free port.
THEOREM OneTokenAlwaysLives == ASSUME NetworkSettings PROVE NetworkSpec => []OneLiveToken
BY NetworkHolds, NetworkIsSound, PTL

\* A tool runs or is refused by the first decision in the log, and a decision
\* that is there is on its way to who waits for it.
THEOREM ApprovalsAlwaysAreKept == ASSUME NetworkSettings PROVE NetworkSpec => []ApprovalsAreKept
BY NetworkHolds, NetworkIsSound, PTL

\* A message handed to the thread of an external agent reaches one turn of it
\* once, and no process of the agent outlasts the tools it was given.
THEOREM MessagesAreNotifiedOnce == ASSUME NetworkSettings PROVE NetworkSpec => []NotifiedOnce
BY NetworkHolds, NetworkIsSound, PTL

\* The host of a served thread ends without an error only when it was told to
\* or the cycle it hosted was over.
THEOREM SilentEndsAreAskedFor == ASSUME NetworkSettings PROVE NetworkSpec => []SilentEndWasAsked
BY NetworkHolds, NetworkIsSound, PTL

\* Two processes share the caches of a compilation: who returned its function
\* finds the artifact published, and who left holds no lock.
THEOREM PublishedIsLoaded == ASSUME NetworkSettings PROVE NetworkSpec => []LoadedIsPublished
BY NetworkHolds, NetworkIsSound, PTL
----------------------------------------------------------------------------
(* The type invariants, with the counts that bound them.                   *)

TypesInv ==
    /\ Typed /\ MadeBefore
    /\ which = "log" => Services!HandingIsBounded
    /\ which = "errors" => Services!KindsAreKnown
    /\ which = "memory" => Services!EditsAreOfOldIds
    /\ which = "session" => Services!ManifestIsCounted
    /\ which = "tools" => Services!ToolsAreCounted
    /\ which = "approvals" => Others!AskerIsKnown
    /\ which = "backed" => Others!BackedPlaces

LEMMA TypesStart == ASSUME NetworkSettings, NetworkInit PROVE TypesInv
<1>1. Typed /\ MadeBefore
  BY TypedInit DEF NetworkInit
<1>2. which = "log" => Services!HandingIsBounded
  BY LogSame, PartsAgreeToThem, Services!HandingStarts DEF NetworkInit
<1>3. which = "errors" => Services!KindsAreKnown
  BY ErrorsSame, Services!KindsStart DEF NetworkInit
<1>4. which = "memory" => Services!EditsAreOfOldIds
  BY MemorySame, Services!EditsStart DEF NetworkInit
<1>5. which = "session" => Services!ManifestIsCounted
  BY SessionSame, Services!ManifestStarts DEF NetworkInit
<1>6. which = "tools" => Services!ToolsAreCounted
  BY ToolsSame, Services!TokenCountStarts DEF NetworkInit
<1>7. which = "approvals" => Others!AskerIsKnown
  BY ApprovalSame, Others!AskerStarts DEF NetworkInit
<1>8. which = "backed" => Others!BackedPlaces
  BY BackendSame, PartsAgreeToThem, Others!PlacesStart DEF NetworkInit
<1> QED
  BY <1>1, <1>2, <1>3, <1>4, <1>5, <1>6, <1>7, <1>8 DEF TypesInv

LEMMA TypesGoOn ==
    ASSUME NetworkSettings, NetworkInv, TypesInv, [NetworkNext]_<<which, vars, parts>>
    PROVE  TypesInv'
<1> USE DEF NetworkInv, TypesInv
<1>1. which' = which
  BY OnePartMoves
<1>2. [Next]_vars
  BY DEF NetworkNext
<1>3. (Typed /\ MadeBefore)'
  BY <1>2, TypedStep, MadeStep
<1>4. which = "log" => Services!HandingIsBounded'
  BY OnePartMoves, Services!HandingGoesOn
<1>5. which = "errors" => Services!KindsAreKnown'
  BY OnePartMoves, Services!KindsGoOn
<1>6. which = "memory" => Services!EditsAreOfOldIds'
  BY OnePartMoves, PartsAgreeToThem, Services!EditsGoOn
<1>7. which = "session" => Services!ManifestIsCounted'
  BY OnePartMoves, Services!ManifestGoesOn
<1>8. which = "tools" => Services!ToolsAreCounted'
  BY OnePartMoves, Services!TokenCountGoesOn
<1>9. which = "approvals" => Others!AskerIsKnown'
  BY OnePartMoves, Others!AskerStays
<1>10. which = "backed" => Others!BackedPlaces'
  BY OnePartMoves, PartsAgreeToThem, Others!PlacesGoOn
<1> QED
  BY <1>1, <1>3, <1>4, <1>5, <1>6, <1>7, <1>8, <1>9, <1>10

LEMMA NetworkIsTyped == ASSUME NetworkSettings, NetworkInv, TypesInv PROVE TypesOK
<1> USE DEF NetworkInv, TypesInv
<1>1. TypeOK
  BY TypedIsTypeOK
<1>2. which = "log" => Log!TypeOK
  BY LogSame, Services!EventsTyped
<1>3. which = "feed" => Feed!TypeOK
  BY FeedSame, PartsAgreeToThem, Others!FeedTyped
<1>4. which = "errors" => Errors!TypeOK
  BY ErrorsSame, Services!ErrorsTyped
<1>5. which = "memory" => Memory!TypeOK
  BY MemorySame, PartsAgreeToThem, Services!MemoryTyped
<1>6. which = "service" => Service!TypeOK
  BY ServiceSame, PartsAgreeToThem, Others!CoreTyped
<1>7. which = "session" => Session!TypeOK
  BY SessionSame, Services!SessionTyped
<1>8. which = "discovery" => Discovery!TypeOK
  BY DiscoverySame DEF Services!DiscoveryInv
<1>9. which = "tools" => Tools!TypeOK
  BY ToolsSame, Services!ToolsTyped
<1>10. which = "approvals" => Approval!TypeOK
  BY ApprovalSame, Others!ApprovalTyped
<1>11. which = "backed" => Backend!TypeOK
  BY BackendSame, Others!BackedTyped
<1>12. which = "host" => Host!TypeOK
  BY HostSame, Others!HostMeans
<1>13. which = "compile" => Compile!TypeOK
  BY CompileSame, Others!LocksAreTyped
<1> QED
  BY <1>1, <1>2, <1>3, <1>4, <1>5, <1>6, <1>7, <1>8, <1>9, <1>10, <1>11, <1>12, <1>13 DEF TypesOK

LEMMA TypesHold == ASSUME NetworkSettings PROVE NetworkSpec => []TypesInv
<1>1. NetworkInv /\ TypesInv /\ [NetworkNext]_<<which, vars, parts>> => TypesInv'
  BY TypesGoOn
<1> QED
  BY <1>1, TypesStart, NetworkHolds, PTL DEF NetworkSpec

\* Every table of every part keeps its type, and with it what bounds it: no
\* id, token or version is one that was not given out.
THEOREM NetworkTypeCorrect == ASSUME NetworkSettings PROVE NetworkSpec => []TypesOK
BY NetworkHolds, TypesHold, NetworkIsTyped, PTL
==============================================================================
