---------------------------- MODULE NodeSessions ----------------------------
(***************************************************************************)
(* classes ArrasSessions, Session and Computation (arras4_node/lib/session)*)
(* and the handlers that use them: the sessions a node runs, and the       *)
(* threads that act on them:                                               *)
(*                                                                         *)
(*   - HTTP worker threads, each handling a request of the Coordinator     *)
(*     (create, modify, delete or signal a session);                       *)
(*   - an operation thread per accepted request, updateProc or deleteProc; *)
(*   - an expiration thread per session on its entry node;                 *)
(*   - the message handler thread, which learns that a client connected;   *)
(*   - the main thread, which shuts every session down when the node ends. *)
(*                                                                         *)
(* A session id is used by one create request, so an id stands for the     *)
(* Session object it got.  A computation's process is what ProcessLifecycle*)
(* promises of it; that a process being terminated ends is checked in      *)
(* ProcessManager.  A step is what a thread does between two points where  *)
(* another one can get in; stopping several computations one after the     *)
(* other is one step, since each of them commutes with everything else.    *)
(***************************************************************************)
EXTENDS Integers, Sequences, FiniteSets

CONSTANTS
    Sessions,           \* session ids
    Comps,              \* ids of a session's computations on this node
    Configs,            \* what a create or modify request may ask to run
    Requests,           \* HTTP requests, each handled by a worker thread
    Main,               \* the main thread
    NoThread,           \* a std::thread that is not joinable
    NoComp,             \* no computation; also pid 0
    EntryNode,          \* this node is the sessions' entry node
    AutoSuspend         \* --auto-suspend

ASSUME ConfigsAssumption == Configs \subseteq SUBSET Comps
ASSUME OptionsAssumption == EntryNode \in BOOLEAN /\ AutoSuspend \in BOOLEAN
ASSUME NamesAssumption ==
    Main \notin Requests /\ NoThread \notin Requests \cup Sessions /\ NoComp \notin Comps

VARIABLES
    mClosed,            \* ArrasSessions::mClosed
    mSessions,          \* ids in ArrasSessions::mSessions
    object,             \* [Sessions -> what became of the Session object]
    mState,             \* [Sessions -> SessionState]
    mShuttingDown,      \* [Sessions -> BOOLEAN]
    mOperationThread,   \* [Sessions -> whose operation thread it stands for]
    mComputations,      \* [Sessions -> SUBSET Comps]
    mExpirationSet,     \* [Sessions -> BOOLEAN]
    expirer,            \* [Sessions -> where expirationProc is]
    process,            \* [Sessions -> [Comps -> ProcessState]]
    sent,               \* [Sessions -> [Comps -> control messages sent]]
    request,            \* [Requests -> what an HTTP worker is doing]
    operation,          \* [Workers -> what an operation thread is doing]
    main,               \* what the main thread is doing
    handler,            \* what the message handler thread is doing, and the
                        \* sessions whose clients it has welcomed (history)
    events,             \* [Sessions -> events for the Coordinator]
    suspended,          \* process groups that were sent SIGSTOP
    aborted             \* std::terminate was called

registry == <<mClosed, mSessions, object>>
state == <<mState, mShuttingDown>>
expiration == <<mExpirationSet, expirer>>
computations == <<mComputations, process, sent>>
outside == <<events, suspended, aborted>>
members == <<state, mOperationThread, expiration>>
sessions == <<registry, members, computations>>
threads == <<request, operation>>
services == <<main, handler>>
others == <<services, outside>>
vars == <<sessions, threads, services, outside>>

SessionState == {"Free", "Busy", "Defunct"}

ProcessState == {"NotSpawned", "Spawned", "Terminating", "Terminated"}

Workers == Requests \cup {Main}

Groups == (Sessions \X Comps) \cup {NoComp}

NoRequest == [op |-> "none", at |-> "idle", session |-> NoThread,
              config |-> {}, todo |-> {}, comp |-> NoComp]

NoOperation == [at |-> "none", session |-> NoThread, stop |-> {},
                start |-> {}, comp |-> NoComp]

RequestPlaces == {"idle", "register", "routing", "expiry", "lookup", "accept", "join",
                  "thread", "assign", "erase", "checkFree", "signalAll",
                  "signalling", "go", "update", "suspend", "done"}

OperationPlaces == {"none", "delta", "updateWait", "start", "insert", "free",
                    "stop", "deleteWait", "retire", "done"}

SessionOrNone == Sessions \cup {NoThread}

HttpRequest ==
    [op : {"none", "create", "modify", "delete", "signal"}, at : RequestPlaces,
     session : SessionOrNone, config : SUBSET Comps, todo : SUBSET Comps,
     comp : Comps \cup {NoComp}]

SessionOperation ==
    [at : OperationPlaces, session : SessionOrNone, stop : SUBSET Comps,
     start : SUBSET Comps, comp : Comps \cup {NoComp}]

TypeOK ==
    /\ mClosed \in BOOLEAN
    /\ mSessions \in SUBSET Sessions
    /\ object \in [Sessions -> {"none", "alive", "destroying", "removing", "gone"}]
    /\ mState \in [Sessions -> SessionState]
    /\ mShuttingDown \in [Sessions -> BOOLEAN]
    /\ mOperationThread \in [Sessions -> Requests \cup {NoThread}]
    /\ mComputations \in [Sessions -> SUBSET Comps]
    /\ mExpirationSet \in [Sessions -> BOOLEAN]
    /\ expirer \in [Sessions -> {"none", "waiting", "ended"}]
    /\ process \in [Sessions -> [Comps -> ProcessState]]
    /\ sent \in [Sessions -> [Comps -> Seq({"go", "update"})]]
    /\ request \in [Requests -> HttpRequest]
    /\ operation \in [Workers -> SessionOperation]
    /\ main \in [at : {"running", "closed", "next", "waitIdle", "join",
                       "deleteProc", "done"},
                 session : SessionOrNone, left : SUBSET Sessions]
    /\ handler \in [at : {"idle", "connected", "stop", "join"},
                    session : SessionOrNone, welcomed : SUBSET Sessions]
    /\ events \in [Sessions -> SUBSET {"sessionExpired", "sessionOperationFailed",
                                       "kicked"}]
    /\ suspended \in SUBSET Groups
    /\ aborted \in BOOLEAN

Init ==
    /\ mClosed = FALSE
    /\ mSessions = {}
    /\ object = [s \in Sessions |-> "none"]
    /\ mState = [s \in Sessions |-> "Free"]
    /\ mShuttingDown = [s \in Sessions |-> FALSE]
    /\ mOperationThread = [s \in Sessions |-> NoThread]
    /\ mComputations = [s \in Sessions |-> {}]
    /\ mExpirationSet = [s \in Sessions |-> FALSE]
    /\ expirer = [s \in Sessions |-> "none"]
    /\ process = [s \in Sessions |-> [c \in Comps |-> "NotSpawned"]]
    /\ sent = [s \in Sessions |-> [c \in Comps |-> <<>>]]
    /\ request = [r \in Requests |-> NoRequest]
    /\ operation = [w \in Workers |-> NoOperation]
    /\ main = [at |-> "running", session |-> NoThread, left |-> {}]
    /\ handler = [at |-> "idle", session |-> NoThread, welcomed |-> {}]
    /\ events = [s \in Sessions |-> {}]
    /\ suspended = {}
    /\ aborted = FALSE

-----------------------------------------------------------------------------
(* Mutexes, references and helpers.                                        *)

\* mSessionsMutex is held across steps by deleteSession and by shutdownAll.
SessionsLocked ==
    \/ main.at \in {"next", "waitIdle", "join", "deleteProc"}
    \/ \E r \in Requests : /\ request[r].op = "delete"
                           /\ request[r].at \in {"accept", "join", "thread", "assign"}

\* mComputationsMutex is held across steps by deleteProc and by signalAll.
ComputationsLocked(s) ==
    \/ \E w \in Workers : operation[w].session = s /\ operation[w].at = "deleteWait"
    \/ \E r \in Requests : /\ request[r].session = s
                           /\ request[r].at \in {"signalling", "go", "update", "suspend"}

\* Session::Ptr held by mSessions, a worker or the handler thread.
Referenced(s) ==
    \/ s \in mSessions
    \/ \E r \in Requests : /\ request[r].session = s
                           /\ request[r].at \notin {"register", "lookup", "done"}
    \/ handler.session = s /\ handler.at \in {"stop", "join"}

Active(w, s) ==
    operation[w].session = s /\ operation[w].at \notin {"none", "done"}

At(r, place) == request[r].at = place

GoTo(r, place) == request' = [request EXCEPT ![r].at = place]

\* std::thread::join: the thread the handle stands for has ended.
Joinable(s) == mOperationThread[s] # NoThread

Ended(s) == Joinable(s) => operation[mOperationThread[s]].at = "done"

\* Computation::shutdown of every computation in stopped.
Shutdown(s, stopped) ==
    process' = [process EXCEPT ![s] =
        [c \in Comps |-> IF c \in stopped /\ @[c] = "Spawned" THEN "Terminating"
                         ELSE IF c \in stopped /\ @[c] = "NotSpawned" THEN "Terminated"
                         ELSE @[c]]]

Event(s, e) == events' = [events EXCEPT ![s] = @ \cup {e}]

-----------------------------------------------------------------------------
(* Requests: create.                                                       *)

\* createSession finds the node open.
Create(r, s, config) ==
    /\ request[r] = NoRequest
    /\ ~mClosed
    /\ object[s] = "none"
    /\ \A q \in Requests : request[q].op = "create" => request[q].session # s
    /\ request' = [request EXCEPT ![r] =
          [NoRequest EXCEPT !.op = "create", !.at = "register", !.session = s,
                            !.config = config]]
    /\ UNCHANGED <<sessions, operation, others>>

\* The new Session is entered in mSessions, before anything can fail.
Register(r) ==
    LET s == request[r].session IN
    /\ At(r, "register")
    /\ ~SessionsLocked
    /\ object' = [object EXCEPT ![s] = "alive"]
    /\ mSessions' = mSessions \cup {s}
    /\ GoTo(r, "routing")
    /\ UNCHANGED <<mClosed, members, computations, operation, others>>

\* initializeSession: the router acknowledges the routing data, or the wait
\* for it times out.
InitializeSession(r) ==
    /\ At(r, "routing")
    /\ \/ GoTo(r, IF EntryNode THEN "expiry" ELSE "accept")
       \/ GoTo(r, "erase")
    /\ UNCHANGED <<sessions, operation, others>>

\* setExpirationTime: nobody else knows of this session's expiration yet.
SetExpirationTime(r) ==
    LET s == request[r].session IN
    /\ At(r, "expiry")
    /\ mExpirationSet' = [mExpirationSet EXCEPT ![s] = TRUE]
    /\ expirer' = [expirer EXCEPT ![s] = "waiting"]
    /\ GoTo(r, "accept")
    /\ UNCHANGED <<registry, state, mOperationThread, computations, operation,
                   others>>

\* createSession gives up: the session is erased whatever it is doing.
EraseSession(r) ==
    /\ At(r, "erase")
    /\ ~SessionsLocked
    /\ mSessions' = mSessions \ {request[r].session}
    /\ GoTo(r, "done")
    /\ UNCHANGED <<mClosed, object, members, computations, operation, others>>

-----------------------------------------------------------------------------
(* Requests: modify, delete and signal look the session up.                *)

\* A request for an unknown session fails and changes nothing.
Ask(r, s, op, config, place) ==
    /\ request[r] = NoRequest
    /\ s \in mSessions
    /\ request' = [request EXCEPT ![r] =
          [NoRequest EXCEPT !.op = op, !.at = place, !.session = s,
                            !.config = config]]
    /\ UNCHANGED <<sessions, operation, others>>

\* modifySession finds the node open, and then looks for the session.
Modify(r, s, config) == ~mClosed /\ Ask(r, s, "modify", config, "lookup")

GetSession(r) ==
    /\ At(r, "lookup")
    /\ ~SessionsLocked
    /\ GoTo(r, IF request[r].session \in mSessions THEN "accept" ELSE "done")
    /\ UNCHANGED <<sessions, operation, others>>

\* deleteSession keeps mSessionsMutex until it returns.
Delete(r, s) == ~SessionsLocked /\ Ask(r, s, "delete", {}, "accept")

Signal(r, s) == ~SessionsLocked /\ Ask(r, s, "signal", {}, "checkFree")

-----------------------------------------------------------------------------
(* Requests: asyncUpdateConfig and asyncDelete.                            *)

\* The session takes on the operation, or the request fails: a create then
\* erases the session.
AcceptIf(r, isFree) ==
    /\ At(r, "accept")
    /\ IF isFree
       THEN /\ mState' = [mState EXCEPT ![request[r].session] = "Busy"]
            /\ GoTo(r, "join")
       ELSE /\ GoTo(r, IF request[r].op = "create" THEN "erase" ELSE "done")
            /\ UNCHANGED mState
    /\ UNCHANGED <<registry, mShuttingDown, mOperationThread, expiration,
                   computations, operation, others>>

OperationState(r) == mState[request[r].session]

IsShuttingDown(r) == mShuttingDown[request[r].session]

\* Mutant of Accept: the state is not tested.
AcceptBusy(r) == AcceptIf(r, ~IsShuttingDown(r))

Accept(r) == AcceptIf(r, ~IsShuttingDown(r) /\ OperationState(r) = "Free")

\* The previous operation's thread is joined, if the handle has one.
JoinOperation(r) ==
    LET s == request[r].session IN
    /\ At(r, "join")
    /\ Ended(s)
    /\ mOperationThread' = [mOperationThread EXCEPT ![s] = NoThread]
    /\ GoTo(r, "thread")
    /\ UNCHANGED <<registry, state, expiration, computations, operation,
                   others>>

\* std::thread(...): the operation runs from here on.
StartOperation(r) ==
    /\ At(r, "thread")
    /\ operation' = [operation EXCEPT ![r] =
          [NoOperation EXCEPT
             !.at = IF request[r].op = "delete" THEN "stop" ELSE "delta",
             !.session = request[r].session]]
    /\ GoTo(r, "assign")
    /\ UNCHANGED <<sessions, others>>

\* mOperationThread = ...: assigning to a joinable handle ends the program.
AssignOperation(r) ==
    LET s == request[r].session IN
    /\ At(r, "assign")
    /\ aborted' = Joinable(s)
    /\ mOperationThread' = [mOperationThread EXCEPT ![s] = r]
    /\ GoTo(r, "done")
    /\ UNCHANGED <<registry, state, expiration, computations, operation,
                   services, events, suspended>>

-----------------------------------------------------------------------------
(* Requests: signal, with status "run".                                    *)

CheckIsFree(r) ==
    /\ At(r, "checkFree")
    /\ GoTo(r, IF mState[request[r].session] = "Free" THEN "signalAll" ELSE "done")
    /\ UNCHANGED <<sessions, operation, others>>

\* Mutant of SignalAll: without mComputationsMutex.
SignalAllUnlocked(r) ==
    /\ At(r, "signalAll")
    /\ request' = [request EXCEPT ![r].todo = mComputations[request[r].session],
                                  ![r].at = "signalling"]
    /\ UNCHANGED <<sessions, operation, others>>

SignalAll(r) ==
    ~ComputationsLocked(request[r].session) /\ SignalAllUnlocked(r)

\* Computation::signal reads mSentGo of a computation that is Spawned...
SignalComputation(r, c) ==
    LET s == request[r].session IN
    /\ At(r, "signalling")
    /\ c \in request[r].todo
    /\ request' = [request EXCEPT
          ![r].todo = @ \ {c},
          ![r].comp = c,
          ![r].at = IF process[s][c] # "Spawned" THEN "signalling"
                    ELSE IF sent[s][c] = <<>> THEN "go" ELSE "update"]
    /\ UNCHANGED <<sessions, operation, others>>

\* ... and sends "go" the first time and "update" from then on.
SendControl(r, command) ==
    LET s == request[r].session IN
    /\ At(r, command)
    /\ sent' = [sent EXCEPT ![s][request[r].comp] = Append(@, command)]
    /\ GoTo(r, IF command = "go" /\ AutoSuspend THEN "suspend" ELSE "signalling")
    /\ UNCHANGED <<registry, members, mComputations, process, operation,
                   others>>

\* kill(-mProcess->pid(), SIGSTOP).  pid() is 0 once the process is gone.
Suspend(r) ==
    LET s == request[r].session
        group == IF process[s][request[r].comp] = "Terminated" THEN NoComp
                 ELSE <<s, request[r].comp>>
    IN
    /\ At(r, "suspend")
    /\ suspended' = suspended \cup {group}
    /\ GoTo(r, "signalling")
    /\ UNCHANGED <<sessions, operation, services, events, aborted>>

SignalReturns(r) ==
    /\ At(r, "signalling")
    /\ request[r].todo = {}
    /\ request' = [request EXCEPT ![r].at = "done", ![r].comp = NoComp]
    /\ UNCHANGED <<sessions, operation, others>>

-----------------------------------------------------------------------------
(* The operation thread: updateProc and applyNewConfig.                    *)

OperationAt(w, place) == operation[w].at = place

Proceed(w, place) == operation' = [operation EXCEPT ![w].at = place]

\* getConfigDelta, then shutdown of the computations no longer wanted.
\* Computations are never taken out of mComputations.
ApplyNewConfig(w) ==
    LET s == operation[w].session
        defunct == mComputations[s] \ request[w].config
    IN
    /\ OperationAt(w, "delta")
    /\ ~ComputationsLocked(s)
    /\ Shutdown(s, defunct)
    /\ operation' = [operation EXCEPT
          ![w].at = "updateWait",
          ![w].stop = defunct,
          ![w].start = request[w].config \ mComputations[s]]
    /\ UNCHANGED <<registry, members, mComputations, sent, request, others>>

AllStopped(w) ==
    \A c \in operation[w].stop : process[operation[w].session][c] = "Terminated"

DefunctStopped(w) ==
    /\ OperationAt(w, "updateWait")
    /\ AllStopped(w)
    /\ Proceed(w, "start")
    /\ UNCHANGED <<sessions, request, others>>

\* Mutant of UpdateFails: the exception ends the thread.
UpdateThrows(w) ==
    /\ OperationAt(w, "start") /\ operation[w].start # {}
    /\ Event(operation[w].session, "sessionOperationFailed")
    /\ Proceed(w, "done")
    /\ UNCHANGED <<sessions, request, services, suspended, aborted>>

\* The wait times out, or a computation cannot be started.  What has been
\* started before stays.
UpdateFails(w) ==
    LET s == operation[w].session IN
    /\ \/ OperationAt(w, "updateWait") /\ ~AllStopped(w)
       \/ OperationAt(w, "start") /\ operation[w].start # {}
    /\ Event(s, "sessionOperationFailed")
    /\ Proceed(w, "free")
    /\ UNCHANGED <<sessions, request, services, suspended, aborted>>

\* startNewComputation spawns the process, and then enters the computation.
StartNewComputation(w, c) ==
    LET s == operation[w].session IN
    /\ OperationAt(w, "start")
    /\ c \in operation[w].start
    /\ process' = [process EXCEPT ![s][c] = "Spawned"]
    /\ operation' = [operation EXCEPT ![w].at = "insert", ![w].comp = c,
                                      ![w].start = @ \ {c}]
    /\ UNCHANGED <<registry, members, mComputations, sent, request, others>>

Insert(w, c) ==
    LET s == operation[w].session IN
    /\ OperationAt(w, "insert")
    /\ ~ComputationsLocked(s)
    /\ mComputations' = [mComputations EXCEPT ![s] = @ \cup {c}]
    /\ operation' = [operation EXCEPT ![w].at = "start", ![w].comp = NoComp]
    /\ UNCHANGED <<registry, members, process, sent, request, others>>

\* Mutant of InsertComputation: what is entered was already moved away.
InsertNothing(w) == Insert(w, NoComp)

InsertComputation(w) == Insert(w, operation[w].comp)

UpdateEnds(w) ==
    LET s == operation[w].session IN
    /\ \/ OperationAt(w, "free")
       \/ OperationAt(w, "start") /\ operation[w].start = {}
    /\ mState' = [mState EXCEPT ![s] = IF @ = "Busy" THEN "Free" ELSE @]
    /\ Proceed(w, "done")
    /\ UNCHANGED <<registry, mShuttingDown, mOperationThread, expiration,
                   computations, request, others>>

-----------------------------------------------------------------------------
(* deleteProc, in an operation thread or in the main thread.               *)

StopAll(w, stopped) ==
    LET s == operation[w].session IN
    /\ OperationAt(w, "stop")
    /\ ~ComputationsLocked(s)
    /\ Shutdown(s, stopped)
    /\ operation' = [operation EXCEPT ![w].at = "deleteWait",
                                      ![w].stop = mComputations[s]]
    /\ UNCHANGED <<registry, members, mComputations, sent, request, others>>

\* Mutant of StopComputations: waits without having told anybody to stop.
StopNobody(w) == StopAll(w, {})

StopComputations(w) == StopAll(w, mComputations[operation[w].session])

\* Every computation has stopped or the time is up; the client is kicked.
ComputationsStopped(w) ==
    /\ OperationAt(w, "deleteWait")
    /\ Event(operation[w].session, "kicked")
    /\ Proceed(w, "retire")
    /\ UNCHANGED <<sessions, request, services, suspended, aborted>>

EndDeleteProc(w, nextState) ==
    /\ OperationAt(w, "retire")
    /\ mState' = [mState EXCEPT ![operation[w].session] = nextState]
    /\ Proceed(w, "done")
    /\ UNCHANGED <<registry, mShuttingDown, mOperationThread, expiration,
                   computations, request, others>>

Retire(w) == EndDeleteProc(w, "Defunct")

-----------------------------------------------------------------------------
(* The main thread: shutdownAll and syncShutdown.                          *)

\* PUT status "close".
Close ==
    /\ ~mClosed
    /\ mClosed' = TRUE
    /\ UNCHANGED <<mSessions, object, members, computations, threads, others>>

\* The node was told to stop: ArrasNode::run calls shutdownAll.
StopRunning ==
    /\ main.at = "running"
    /\ mClosed' = TRUE
    /\ main' = [main EXCEPT !.at = "closed"]
    /\ UNCHANGED <<mSessions, object, members, computations, threads, handler,
                   outside>>

ShutdownAll ==
    /\ main.at = "closed"
    /\ ~SessionsLocked
    /\ main' = [main EXCEPT !.at = "next", !.left = mSessions]
    /\ UNCHANGED <<sessions, threads, handler, outside>>

SyncShutdown(s) ==
    /\ main.at = "next"
    /\ s \in main.left
    /\ mShuttingDown' = [mShuttingDown EXCEPT ![s] = TRUE]
    /\ main' = [at |-> "waitIdle", session |-> s, left |-> main.left \ {s}]
    /\ UNCHANGED <<registry, mState, mOperationThread, expiration, computations,
                   threads, handler, outside>>

\* Mutant of WaitOperationComplete: a time-out is taken for completion.
WaitTimesOut ==
    /\ main.at = "waitIdle"
    /\ main' = [main EXCEPT !.at = "join"]
    /\ UNCHANGED <<sessions, threads, handler, outside>>

\* The running operation ends, or the wait for it times out.
WaitOperationComplete ==
    /\ main.at = "waitIdle"
    /\ main' = [main EXCEPT !.at = IF mState[main.session] = "Busy" THEN "next"
                                   ELSE "join"]
    /\ UNCHANGED <<sessions, threads, handler, outside>>

\* The handle is joined and deleteProc called.
ShutdownJoins ==
    LET s == main.session IN
    /\ main.at = "join"
    /\ Ended(s)
    /\ mOperationThread' = [mOperationThread EXCEPT ![s] = NoThread]
    /\ operation' = [operation EXCEPT ![Main] =
          [NoOperation EXCEPT !.at = "stop", !.session = s]]
    /\ main' = [main EXCEPT !.at = "deleteProc"]
    /\ UNCHANGED <<registry, state, expiration, computations, request, handler,
                   outside>>

ShutdownReturns ==
    /\ main.at = "deleteProc"
    /\ OperationAt(Main, "done")
    /\ main' = [main EXCEPT !.at = "next"]
    /\ UNCHANGED <<sessions, threads, handler, outside>>

AllShutDown ==
    /\ main.at = "next"
    /\ main.left = {}
    /\ main' = [main EXCEPT !.at = "done"]
    /\ UNCHANGED <<sessions, threads, handler, outside>>

-----------------------------------------------------------------------------
(* The message handler thread, and expirationProc.                         *)

\* The router says that a client has connected.  Clients learn of a session
\* from the Coordinator, once its create request has succeeded.
ClientConnects(s) ==
    /\ handler.at = "idle"
    /\ \E r \in Requests :
          request[r].op = "create" /\ At(r, "done") /\ operation[r].session = s
    /\ handler' = [handler EXCEPT !.at = "connected", !.session = s]
    /\ UNCHANGED <<sessions, threads, main, outside>>

\* Mutant of HandleConnection: forgets to stop the expiration.
ForgetExpiration ==
    /\ handler.at = "connected"
    /\ ~SessionsLocked
    /\ handler' = [at |-> "idle", session |-> NoThread,
                   welcomed |-> handler.welcomed \cup {handler.session}]
    /\ UNCHANGED <<sessions, threads, main, outside>>

\* A session that is unknown or Defunct has its client kicked.
HandleConnection ==
    LET s == handler.session
        active == s \in mSessions /\ mState[s] # "Defunct"
    IN
    /\ handler.at = "connected"
    /\ ~SessionsLocked
    /\ handler' = [handler EXCEPT !.at = IF active THEN "stop" ELSE "idle",
                                  !.session = IF active THEN @ ELSE NoThread]
    /\ IF active THEN UNCHANGED events ELSE Event(s, "kicked")
    /\ UNCHANGED <<sessions, threads, main, suspended, aborted>>

StopExpiration ==
    LET s == handler.session IN
    /\ handler.at = "stop"
    /\ mExpirationSet' = [mExpirationSet EXCEPT ![s] = FALSE]
    /\ handler' = [handler EXCEPT !.at = "join"]
    /\ UNCHANGED <<registry, state, mOperationThread, expirer, computations,
                   threads, main, outside>>

JoinExpiration ==
    /\ handler.at = "join"
    /\ expirer[handler.session] # "waiting"
    /\ handler' = [at |-> "idle", session |-> NoThread,
                   welcomed |-> handler.welcomed \cup {handler.session}]
    /\ UNCHANGED <<sessions, threads, main, outside>>

\* The time is up and mExpirationSet still holds: the Coordinator is told.
Expire(s) ==
    /\ expirer[s] = "waiting"
    /\ mExpirationSet[s]
    /\ expirer' = [expirer EXCEPT ![s] = "ended"]
    /\ Event(s, "sessionExpired")
    /\ UNCHANGED <<registry, state, mOperationThread, mExpirationSet,
                   computations, threads, services, suspended, aborted>>

ExpirationStopped(s) ==
    /\ expirer[s] = "waiting"
    /\ ~mExpirationSet[s]
    /\ expirer' = [expirer EXCEPT ![s] = "ended"]
    /\ UNCHANGED <<registry, state, mOperationThread, mExpirationSet,
                   computations, threads, others>>

-----------------------------------------------------------------------------
(* ~Session, run by the thread that lets go of the last Session::Ptr.      *)

DestroySession(s) ==
    /\ object[s] = "alive"
    /\ ~Referenced(s)
    /\ object' = [object EXCEPT ![s] = "destroying"]
    /\ mShuttingDown' = [mShuttingDown EXCEPT ![s] = TRUE]
    /\ mExpirationSet' = [mExpirationSet EXCEPT ![s] = FALSE]
    /\ UNCHANGED <<mClosed, mSessions, mState, mOperationThread, expirer,
                   computations, threads, others>>

\* Mutant of DestroyComputations: the operation thread is not joined.
DestroyUnjoined(s) ==
    /\ object[s] = "destroying"
    /\ expirer[s] # "waiting"
    /\ object' = [object EXCEPT ![s] = "removing"]
    /\ Shutdown(s, mComputations[s])
    /\ UNCHANGED <<mClosed, mSessions, members, mComputations, sent, threads,
                   others>>

\* Both threads are joined; the computations go, each calling removeProcess.
DestroyComputations(s) == Ended(s) /\ DestroyUnjoined(s)

\* Mutant of SessionDestroyed: removeProcess does not wait.
DestroyedAtOnce(s) ==
    /\ object[s] = "removing"
    /\ object' = [object EXCEPT ![s] = "gone"]
    /\ UNCHANGED <<mClosed, mSessions, members, computations, threads, others>>

SessionDestroyed(s) ==
    /\ \A c \in mComputations[s] : process[s][c] = "Terminated"
    /\ DestroyedAtOnce(s)

\* A computation's process ends, by itself or because it is terminated.
ProcessEnds(s, c) ==
    /\ process[s][c] \in {"Spawned", "Terminating"}
    /\ process' = [process EXCEPT ![s][c] = "Terminated"]
    /\ UNCHANGED <<registry, members, mComputations, sent, threads, others>>

-----------------------------------------------------------------------------

\* Requests of the Coordinator, and the decision to end the node.
Call ==
    \/ \E r \in Requests, s \in Sessions :
          \/ \E config \in Configs : Create(r, s, config) \/ Modify(r, s, config)
          \/ Delete(r, s) \/ Signal(r, s)
    \/ Close \/ StopRunning

RequestStep(r) ==
    \/ Register(r) \/ InitializeSession(r) \/ SetExpirationTime(r)
    \/ EraseSession(r) \/ GetSession(r) \/ Accept(r) \/ JoinOperation(r) \/ StartOperation(r)
    \/ AssignOperation(r) \/ CheckIsFree(r) \/ SignalAll(r)
    \/ \E c \in Comps : SignalComputation(r, c)
    \/ SendControl(r, "go") \/ SendControl(r, "update")
    \/ Suspend(r) \/ SignalReturns(r)

UpdateStep(r) ==
    \/ ApplyNewConfig(r) \/ DefunctStopped(r) \/ UpdateFails(r)
    \/ \E c \in Comps : StartNewComputation(r, c)
    \/ InsertComputation(r) \/ UpdateEnds(r)

DeleteStep(w) == StopComputations(w) \/ ComputationsStopped(w) \/ Retire(w)

MainStep ==
    \/ ShutdownAll \/ (\E s \in Sessions : SyncShutdown(s))
    \/ WaitOperationComplete \/ ShutdownJoins \/ ShutdownReturns \/ AllShutDown

HandlerStep == HandleConnection \/ StopExpiration \/ JoinExpiration

ExpirerStep(s) == Expire(s) \/ ExpirationStopped(s)

DestroyStep(s) ==
    DestroySession(s) \/ DestroyComputations(s) \/ SessionDestroyed(s)

Step ==
    \/ Call
    \/ \E r \in Requests : RequestStep(r) \/ UpdateStep(r)
    \/ \E w \in Workers : DeleteStep(w)
    \/ MainStep
    \/ \E s \in Sessions :
          \/ ClientConnects(s) \/ ExpirerStep(s) \/ DestroyStep(s)
          \/ \E c \in Comps : ProcessEnds(s, c)
    \/ HandlerStep

\* Every request was answered, every thread has ended.
AllQuiet ==
    /\ main.at = "done" /\ handler.at = "idle"
    /\ \A r \in Requests : request[r].at \in {"idle", "done"}
    /\ \A w \in Workers : operation[w].at \in {"none", "done"}
    /\ \A s \in Sessions : expirer[s] # "waiting"

Next ==
    \/ ~aborted /\ Step
    \/ (aborted \/ AllQuiet) /\ UNCHANGED vars

Spec == Init /\ [][Next]_vars

\* Threads are scheduled, waits time out, and a process that is being
\* terminated ends (TerminationCompletes in ProcessManager).  Nothing is
\* assumed of requests, clients and processes nobody stops.
ThreadFairness ==
    /\ \A r \in Requests : /\ WF_vars(~aborted /\ RequestStep(r))
                           /\ WF_vars(~aborted /\ UpdateStep(r))
    /\ \A w \in Workers : WF_vars(~aborted /\ DeleteStep(w))
    /\ WF_vars(~aborted /\ MainStep)
    /\ WF_vars(~aborted /\ HandlerStep)
    /\ \A s \in Sessions :
          /\ WF_vars(~aborted /\ ExpirerStep(s))
          /\ WF_vars(~aborted /\ DestroyStep(s))
          /\ \A c \in Comps :
                WF_vars(~aborted /\ process[s][c] = "Terminating" /\ ProcessEnds(s, c))

FairSpec == Spec /\ ThreadFairness

-----------------------------------------------------------------------------
(* Properties.                                                             *)

\* "Only one operation can be running at any time, to prevent interference"
\* (Session.cc 187): one thread at most runs updateProc or deleteProc on a
\* session, the shutdown of the node included, which does not go through
\* the Busy state and relies on mShuttingDown.
OneOperation ==
    \A s \in Sessions :
        \A v, w \in Workers : Active(v, s) /\ Active(w, s) => v = w

\* Every computation of a Defunct session was told to stop, those included
\* that an update was starting as the delete arrived: nothing would stop
\* them later (deleteProc, applyNewConfig).
DefunctIsStopped ==
    \A s \in Sessions : mState[s] = "Defunct" =>
        \A c \in Comps : process[s][c] # "Spawned"

\* A process that runs can be found by the next operation: its computation
\* is in mComputations of an object that still exists, or is about to be
\* entered there by the operation that spawned it.
NoOrphan ==
    \A s \in Sessions, c \in Comps : process[s][c] \in {"Spawned", "Terminating"} =>
        /\ object[s] \notin {"none", "gone"}
        /\ \/ c \in mComputations[s]
           \/ \E w \in Workers : /\ operation[w].session = s
                                 /\ operation[w].at = "insert"
                                 /\ operation[w].comp = c

\* No operation and no expiration outlives the Session object it works on:
\* ~Session joins both threads, and nobody can have started one meanwhile
\* (Session.cc 41-54).
ThreadsOutlived ==
    \A s \in Sessions : object[s] \in {"removing", "gone"} =>
        /\ \A w \in Workers : ~Active(w, s)
        /\ expirer[s] # "waiting"

\* Neither a process nor a thread is left behind when a session goes.
NothingOutlivesSession == NoOrphan /\ ThreadsOutlived

\* A computation hears "go" first and once, whatever signals race with each
\* other: mSentGo is guarded by mComputationsMutex (signalAll).
GoThenUpdates ==
    \A s \in Sessions, c \in Comps :
        \A i \in DOMAIN sent[s][c] : sent[s][c][i] = "go" <=> i = 1

\* A session whose client was welcomed does not expire any more
\* (ArrasSessions.cc 168-171).
WelcomedNeverExpires ==
    [][\A s \in handler.welcomed :
         "sessionExpired" \in events'[s] => "sessionExpired" \in events[s]]_vars

\* "mOperationThread; // protected by Busy state" (Session.h 118): no thread
\* is assigned over one that has not been joined.
OperationThreadIsProtected == ~aborted

\* "node cannot fully shutdown until all sessions are shutdown" (Session.cc
\* 261): when shutdownAll has returned, every session is Defunct, or its
\* shutdown took too long and nothing more can be asked of it.
ShutdownIsComplete ==
    main.at = "done" =>
        \A s \in mSessions : mState[s] = "Defunct" \/ mShuttingDown[s]

\* Every operation ends and leaves the session Free or Defunct.
OperationsEnd ==
    \A s \in Sessions : mState[s] = "Busy" ~> mState[s] # "Busy" \/ aborted

\* "node responds promptly to the HTTP request" (Session.cc 192): every
\* request is answered, whatever mutexes the others hold.
RequestsAreAnswered ==
    \A r \in Requests :
        request[r].at # "idle" ~> request[r].at = "done" \/ aborted

\* A delete that was accepted makes the session Defunct.
DeleteTakesEffect ==
    \A r \in Requests, s \in Sessions :
        request[r].op = "delete" /\ request[r].session = s /\ At(r, "join")
            ~> mState[s] = "Defunct" \/ aborted

\* The node's shutdown returns.
ShutdownEnds == main.at = "closed" ~> main.at = "done" \/ aborted

\* Whatever threads, mutexes and timeouts an operation or a request waits for.
EverythingEnds == OperationsEnd /\ RequestsAreAnswered /\ DeleteTakesEffect /\ ShutdownEnds

\* What the Coordinator is promised.
statusOf(s) ==
    CASE object[s] = "none" -> "absent"
      [] object[s] = "gone" -> "gone"
      [] OTHER -> mState[s]

Promise == INSTANCE SessionLifecycle WITH
    status <- [s \in Sessions |-> statusOf(s)],
    running <- [s \in Sessions |-> {c \in Comps : process[s][c] = "Spawned"}]

\* The node keeps it.
ImplementsLifecycle == Promise!Spec
=============================================================================
