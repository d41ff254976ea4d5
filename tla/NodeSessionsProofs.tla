-------------------------- MODULE NodeSessionsProofs --------------------------
(***************************************************************************)
(* Proofs about NodeSessions, for any number of sessions, computations and *)
(* requests: one operation at a time, nothing left running or behind, and  *)
(* the promise of SessionLifecycle.                                        *)
(***************************************************************************)
EXTENDS NodeSessions, SequenceTheorems, TLAPS

-----------------------------------------------------------------------------
(* The inductive invariant.                                                *)

\* A request is at a place of its kind.
RequestsAreSane == \A r \in Requests :
    /\ request[r].at = "idle" <=> request[r].op = "none"
    /\ request[r].at = "idle" <=> request[r].session = NoThread
    /\ request[r].op = "create" =>
          request[r].at \in {"register", "routing", "expiry", "accept", "join", "thread",
                             "assign", "erase", "done"}
    /\ request[r].op = "modify" =>
          request[r].at \in {"lookup", "accept", "join", "thread", "assign", "done"}
    /\ request[r].op = "delete" =>
          request[r].at \in {"accept", "join", "thread", "assign", "done"}
    /\ request[r].op = "signal" =>
          request[r].at \in {"checkFree", "signalAll", "signalling", "go", "update",
                             "suspend", "done"}
    /\ request[r].at \in {"go", "update", "suspend"} => request[r].comp \in Comps

\* An operation thread works for the request that started it; the main
\* thread runs deleteProc itself.
OperationsAreSane ==
    /\ \A w \in Workers :
          /\ operation[w].at = "none" <=> operation[w].session = NoThread
          /\ operation[w].at = "insert" => operation[w].comp \in Comps
    /\ \A r \in Requests :
          /\ operation[r].at # "none" => /\ request[r].at \in {"assign", "done"}
                                         /\ request[r].session = operation[r].session
          /\ request[r].at = "assign" => operation[r].at # "none"
    /\ operation[Main].at \notin {"none", "done"} =>
          main.at = "deleteProc" /\ main.session = operation[Main].session

\* What shutdownAll works on stays registered and takes no operation.
MainIsSane ==
    /\ main.at \in {"next", "waitIdle", "join", "deleteProc"} => main.left \subseteq mSessions
    /\ main.at \in {"waitIdle", "join", "deleteProc"} =>
          main.session \in mSessions /\ mShuttingDown[main.session]

\* A session is created by one request, which makes the Session object.
CreatedOnce ==
    /\ \A q, r \in Requests :
          request[q].op = "create" /\ request[r].op = "create"
              /\ request[q].session = request[r].session => q = r
    /\ \A r \in Requests, s \in Sessions : request[r].session = s =>
          (object[s] = "none" <=> request[r].at = "register")

\* A Session that somebody has a pointer to is not destroyed.
ReferencedIsAlive == \A s \in Sessions : Referenced(s) => object[s] = "alive"

\* The Session object is not taken down under an operation.
ActiveIsAlive ==
    \A s \in Sessions, w \in Workers : Active(w, s) => object[s] \in {"alive", "destroying"}

\* A thread that may run an operation on s, now or as its next step.
Claims(w, s) ==
    \/ Active(w, s)
    \/ w \in Requests /\ request[w].session = s /\ request[w].at \in {"join", "thread"}
    \/ w = Main /\ main.session = s /\ main.at = "join"

OneClaim ==
    \A s \in Sessions : \A v, w \in Workers : Claims(v, s) /\ Claims(w, s) => v = w

\* The Busy state tells the claim of a request from that of the main thread,
\* and is always somebody's.
ClaimIsBusy ==
    \A s \in Sessions, w \in Workers : Claims(w, s) => (mState[s] = "Busy" <=> w # Main)

BusyIsClaimed ==
    \A s \in Sessions : mState[s] = "Busy" => \E r \in Requests : Claims(r, s)

FreshIsFree == \A s \in Sessions : object[s] = "none" => mState[s] = "Free"

\* While nothing has gone wrong with the handle, it stands for the operation
\* that runs.
HandleIsKept == ~aborted =>
    \A s \in Sessions, r \in Requests :
        Active(r, s) /\ request[r].at = "done" => mOperationThread[s] = r

\* A delete that has told everybody to stop has left nobody out.
DeletedIsStopped == \A s \in Sessions, w \in Workers :
    operation[w].session = s /\ operation[w].at \in {"deleteWait", "retire"} =>
        \A c \in Comps : process[s][c] # "Spawned"

\* signalAll holds mComputationsMutex, and what it read of mSentGo stays true.
Signals(r, s) ==
    /\ request[r].session = s
    /\ request[r].at \in {"signalling", "go", "update", "suspend"}

OneSignals == \A s \in Sessions : \A q, r \in Requests : Signals(q, s) /\ Signals(r, s) => q = r

SentGoIsRight == \A s \in Sessions, r \in Requests : request[r].session = s =>
    /\ request[r].at = "go" => sent[s][request[r].comp] = <<>>
    /\ request[r].at = "update" => sent[s][request[r].comp] # <<>>

\* A client comes after the create request was answered, and its session's
\* expiration stays stopped.
Answered(s) == \E r \in Requests :
    request[r].op = "create" /\ request[r].at = "done" /\ request[r].session = s

ClientsAreExpected ==
    /\ handler.at = "idle" <=> handler.session = NoThread
    /\ handler.session # NoThread => Answered(handler.session)
    /\ \A s \in handler.welcomed : Answered(s)

WelcomedIsStopped == \A s \in handler.welcomed : expirer[s] # "waiting"

ExpirerIsJoined ==
    \A s \in Sessions : object[s] \in {"removing", "gone"} => expirer[s] # "waiting"

IInv ==
    /\ TypeOK
    /\ RequestsAreSane /\ OperationsAreSane /\ MainIsSane
    /\ CreatedOnce /\ ReferencedIsAlive /\ ActiveIsAlive
    /\ OneClaim /\ ClaimIsBusy /\ BusyIsClaimed /\ FreshIsFree /\ HandleIsKept
    /\ DeletedIsStopped /\ DefunctIsStopped /\ NoOrphan
    /\ OneSignals /\ SentGoIsRight /\ GoThenUpdates
    /\ ClientsAreExpected /\ WelcomedIsStopped /\ ExpirerIsJoined

-----------------------------------------------------------------------------
(* Frames: a part of the invariant is about these variables.               *)

LEMMA Frame ==
    /\ RequestsAreSane /\ UNCHANGED request => RequestsAreSane'
    /\ OperationsAreSane /\ UNCHANGED <<request, operation, main>> => OperationsAreSane'
    /\ MainIsSane /\ UNCHANGED <<main, mSessions, mShuttingDown>> => MainIsSane'
    /\ CreatedOnce /\ UNCHANGED <<request, object>> => CreatedOnce'
    /\ ReferencedIsAlive /\ UNCHANGED <<mSessions, request, handler, object>> => ReferencedIsAlive'
    /\ ActiveIsAlive /\ UNCHANGED <<operation, object>> => ActiveIsAlive'
    /\ FreshIsFree /\ UNCHANGED <<object, mState>> => FreshIsFree'
<1>1. RequestsAreSane /\ UNCHANGED request => RequestsAreSane'
  BY DEF RequestsAreSane
<1>2. OperationsAreSane /\ UNCHANGED <<request, operation, main>> => OperationsAreSane'
  BY DEF OperationsAreSane
<1>3. MainIsSane /\ UNCHANGED <<main, mSessions, mShuttingDown>> => MainIsSane'
  BY DEF MainIsSane
<1>4. CreatedOnce /\ UNCHANGED <<request, object>> => CreatedOnce'
  BY DEF CreatedOnce
<1>5. ReferencedIsAlive /\ UNCHANGED <<mSessions, request, handler, object>> => ReferencedIsAlive'
  BY DEF ReferencedIsAlive, Referenced
<1>6. ActiveIsAlive /\ UNCHANGED <<operation, object>> => ActiveIsAlive'
  BY DEF ActiveIsAlive, Active
<1>7. FreshIsFree /\ UNCHANGED <<object, mState>> => FreshIsFree'
  BY DEF FreshIsFree
<1> QED BY <1>1, <1>2, <1>3, <1>4, <1>5, <1>6, <1>7

LEMMA ClaimFrame ==
    OneClaim /\ ClaimIsBusy /\ BusyIsClaimed /\ UNCHANGED <<request, operation, main, mState>>
        => OneClaim' /\ ClaimIsBusy' /\ BusyIsClaimed'
BY DEF OneClaim, ClaimIsBusy, BusyIsClaimed, Claims, Active

LEMMA ProcessFrame ==
    /\ DeletedIsStopped /\ UNCHANGED <<operation, process>> => DeletedIsStopped'
    /\ DefunctIsStopped /\ UNCHANGED <<mState, process>> => DefunctIsStopped'
    /\ NoOrphan /\ UNCHANGED <<process, object, mComputations, operation>> => NoOrphan'
    /\ HandleIsKept /\ UNCHANGED <<aborted, operation, request, mOperationThread>> => HandleIsKept'
<1>1. DeletedIsStopped /\ UNCHANGED <<operation, process>> => DeletedIsStopped'
  BY DEF DeletedIsStopped
<1>2. DefunctIsStopped /\ UNCHANGED <<mState, process>> => DefunctIsStopped'
  BY DEF DefunctIsStopped
<1>3. NoOrphan /\ UNCHANGED <<process, object, mComputations, operation>> => NoOrphan'
  BY DEF NoOrphan
<1>4. HandleIsKept /\ UNCHANGED <<aborted, operation, request, mOperationThread>> => HandleIsKept'
  BY DEF HandleIsKept, Active
<1> QED BY <1>1, <1>2, <1>3, <1>4

LEMMA SignalFrame ==
    /\ OneSignals /\ UNCHANGED request => OneSignals'
    /\ SentGoIsRight /\ UNCHANGED <<request, sent>> => SentGoIsRight'
    /\ GoThenUpdates /\ UNCHANGED sent => GoThenUpdates'
    /\ ClientsAreExpected /\ UNCHANGED <<handler, request>> => ClientsAreExpected'
    /\ WelcomedIsStopped /\ UNCHANGED <<handler, expirer>> => WelcomedIsStopped'
    /\ ExpirerIsJoined /\ UNCHANGED <<object, expirer>> => ExpirerIsJoined'
<1>1. OneSignals /\ UNCHANGED request => OneSignals'
  BY DEF OneSignals, Signals
<1>2. SentGoIsRight /\ UNCHANGED <<request, sent>> => SentGoIsRight'
  BY DEF SentGoIsRight
<1>3. GoThenUpdates /\ UNCHANGED sent => GoThenUpdates'
  BY DEF GoThenUpdates
<1>4. ClientsAreExpected /\ UNCHANGED <<handler, request>> => ClientsAreExpected'
  BY DEF ClientsAreExpected, Answered
<1>5. WelcomedIsStopped /\ UNCHANGED <<handler, expirer>> => WelcomedIsStopped'
  BY DEF WelcomedIsStopped
<1>6. ExpirerIsJoined /\ UNCHANGED <<object, expirer>> => ExpirerIsJoined'
  BY DEF ExpirerIsJoined
<1> QED BY <1>1, <1>2, <1>3, <1>4, <1>5, <1>6

-----------------------------------------------------------------------------
(* Steps of a request and of an operation.                                 *)

\* Request r becomes "next"; its session and kind stay.
Becomes(r, next) ==
    /\ request' \in [Requests -> HttpRequest]
    /\ request'[r] = next
    /\ \A q \in Requests \ {r} : request'[q] = request[q]

Moves(r, place) ==
    /\ Becomes(r, request'[r])
    /\ request'[r].at = place
    /\ request'[r].op = request[r].op
    /\ request'[r].session = request[r].session

LEMMA GoToMoves ==
    ASSUME TypeOK, NEW r \in Requests, NEW place \in RequestPlaces, GoTo(r, place)
    PROVE  Moves(r, place) /\ request'[r].comp = request[r].comp
<1>1. request \in [Requests -> HttpRequest]
  BY DEF TypeOK
<1>2. request'[r] = [request[r] EXCEPT !.at = place]
  BY <1>1 DEF GoTo
<1>3. request'[r] \in HttpRequest /\ request'[r].at = place /\ request'[r].op = request[r].op
      /\ request'[r].session = request[r].session /\ request'[r].comp = request[r].comp
  BY <1>1, <1>2 DEF HttpRequest
<1> QED BY <1>1, <1>2, <1>3 DEF GoTo, Moves, Becomes

\* The same of an operation.
Works(w, place) ==
    /\ operation' \in [Workers -> SessionOperation]
    /\ operation'[w].at = place
    /\ operation'[w].session = operation[w].session
    /\ \A v \in Workers \ {w} : operation'[v] = operation[v]

LEMMA ProceedWorks ==
    ASSUME TypeOK, NEW w \in Workers, NEW place \in OperationPlaces, Proceed(w, place)
    PROVE  Works(w, place) /\ operation'[w].comp = operation[w].comp
<1>1. operation \in [Workers -> SessionOperation]
  BY DEF TypeOK
<1>2. operation'[w] = [operation[w] EXCEPT !.at = place]
  BY <1>1 DEF Proceed
<1>3. operation'[w] \in SessionOperation /\ operation'[w].at = place
      /\ operation'[w].session = operation[w].session /\ operation'[w].comp = operation[w].comp
  BY <1>1, <1>2 DEF SessionOperation
<1> QED BY <1>1, <1>2, <1>3 DEF Proceed, Works

LEMMA ClaimsKept ==
    ASSUME OneClaim, ClaimIsBusy, BusyIsClaimed, UNCHANGED mState,
           \A s \in Sessions, w \in Workers : Claims(w, s)' <=> Claims(w, s)
    PROVE  OneClaim' /\ ClaimIsBusy' /\ BusyIsClaimed'
<1> Requests \subseteq Workers
  BY DEF Workers
<1>1. OneClaim'
  BY DEF OneClaim
<1>2. ClaimIsBusy'
  BY DEF ClaimIsBusy
<1>3. BusyIsClaimed'
  BY DEF BusyIsClaimed
<1> QED BY <1>1, <1>2, <1>3

\* A request goes on with what neither an operation nor a client sees.
LEMMA QuietMove ==
    ASSUME IInv, NEW r \in Requests, NEW place \in RequestPlaces, Moves(r, place),
           request[r].at \notin {"idle", "register", "join", "thread", "assign", "done"},
           place \notin {"idle", "register", "join", "thread", "assign"},
           UNCHANGED <<operation, main, object, mState, mOperationThread, aborted, handler>>
    PROVE  /\ OperationsAreSane' /\ CreatedOnce' /\ HandleIsKept' /\ ClientsAreExpected'
           /\ OneClaim' /\ ClaimIsBusy' /\ BusyIsClaimed'
<1> USE DEF IInv, Moves, Becomes
<1>1. OperationsAreSane'
  BY DEF OperationsAreSane
<1>2. CreatedOnce'
  BY DEF CreatedOnce
<1>3. \A s \in Sessions : Active(r, s) => FALSE
  BY DEF OperationsAreSane, Active
<1>4. HandleIsKept'
  BY <1>3 DEF HandleIsKept, Active
<1>5. \A s : Answered(s) => Answered(s)'
  BY DEF Answered
<1>6. ClientsAreExpected'
  BY <1>5 DEF ClientsAreExpected
<1>7. \A s \in Sessions, w \in Workers : Claims(w, s)' <=> Claims(w, s)
  BY DEF Claims, Active
<1> QED BY <1>1, <1>2, <1>4, <1>6, <1>7, ClaimsKept

\* No pointer is taken that was not held.
LEMMA ReferencesKept ==
    ASSUME IInv, NEW r \in Requests, NEW place, Moves(r, place),
           request[r].at \notin {"idle", "register", "lookup", "done"} \/ place = "done",
           mSessions' \subseteq mSessions, UNCHANGED <<object, handler>>
    PROVE  ReferencedIsAlive'
BY DEF IInv, Moves, Becomes, ReferencedIsAlive, Referenced

\* Nor is mComputationsMutex.
LEMMA SignalsKept ==
    ASSUME IInv, NEW r \in Requests, NEW place, Moves(r, place),
           place \notin {"signalling", "go", "update", "suspend"}, UNCHANGED sent
    PROVE  OneSignals' /\ SentGoIsRight'
<1>1. OneSignals'
  BY DEF IInv, Moves, Becomes, OneSignals, Signals
<1>2. SentGoIsRight'
  BY DEF IInv, Moves, Becomes, SentGoIsRight
<1> QED BY <1>1, <1>2

\* An operation goes on.
LEMMA QuietWork ==
    ASSUME IInv, NEW w \in Workers, NEW place \in OperationPlaces \ {"none", "done"},
           Works(w, place), place = "insert" => operation'[w].comp \in Comps,
           operation[w].at \notin {"none", "done"},
           UNCHANGED <<request, main, object, mState, mOperationThread, aborted>>
    PROVE  /\ OperationsAreSane' /\ ActiveIsAlive' /\ HandleIsKept'
           /\ OneClaim' /\ ClaimIsBusy' /\ BusyIsClaimed'
<1> USE DEF IInv, Works
<1>1. OperationsAreSane'
  BY DEF OperationsAreSane, Workers
<1>2. \A s \in Sessions, v \in Workers : Active(v, s)' <=> Active(v, s)
  BY DEF Active
<1>3. ActiveIsAlive'
  BY <1>2 DEF ActiveIsAlive
<1>4. HandleIsKept'
  BY <1>2 DEF HandleIsKept, Workers
<1>5. \A s \in Sessions, v \in Workers : Claims(v, s)' <=> Claims(v, s)
  BY <1>2 DEF Claims
<1> QED BY <1>1, <1>3, <1>4, <1>5, ClaimsKept

-----------------------------------------------------------------------------
(* Requests: create.                                                       *)

\* An HTTP worker begins with a request.
Begins(r, op, place, s) ==
    /\ request[r] = NoRequest
    /\ op \in {"create", "modify", "delete", "signal"} /\ place \in RequestPlaces
    /\ s \in Sessions
    /\ \E config \in SUBSET Comps : request' = [request EXCEPT ![r] =
          [NoRequest EXCEPT !.op = op, !.at = place, !.session = s, !.config = config]]

LEMMA AskIs ==
    ASSUME TypeOK, NEW r \in Requests, NEW op, NEW place, NEW s, Begins(r, op, place, s)
    PROVE  /\ Becomes(r, request'[r])
           /\ request'[r].op = op /\ request'[r].at = place /\ request'[r].session = s
           /\ request[r].op = "none" /\ request[r].at = "idle" /\ request[r].session = NoThread
<1>1. request \in [Requests -> HttpRequest]
  BY DEF TypeOK
<1>2. PICK config \in SUBSET Comps : request' = [request EXCEPT ![r] =
          [NoRequest EXCEPT !.op = op, !.at = place, !.session = s, !.config = config]]
  BY DEF Begins
<1>3. request'[r] = [NoRequest EXCEPT !.op = op, !.at = place, !.session = s, !.config = config]
  BY <1>1, <1>2
<1>4. request'[r] \in HttpRequest /\ request'[r].op = op /\ request'[r].at = place
      /\ request'[r].session = s
  BY <1>1, <1>3 DEF Begins, HttpRequest, NoRequest, SessionOrNone
<1> QED BY <1>1, <1>2, <1>4 DEF Begins, Becomes, NoRequest

\* What a new request leaves alone.
LEMMA AskKeeps ==
    ASSUME IInv, NEW r \in Requests, Becomes(r, request'[r]), request[r].at = "idle",
           request'[r].at \in {"register", "lookup", "accept", "checkFree"},
           UNCHANGED <<operation, main, handler, mState, mOperationThread, aborted, sent>>
    PROVE  /\ OperationsAreSane' /\ HandleIsKept' /\ ClientsAreExpected'
           /\ OneClaim' /\ ClaimIsBusy' /\ BusyIsClaimed' /\ OneSignals' /\ SentGoIsRight'
<1> USE DEF IInv, Becomes
<1>1. OperationsAreSane'
  BY DEF OperationsAreSane
<1>2. HandleIsKept'
  BY DEF HandleIsKept, Active
<1>3. ClientsAreExpected'
  <2>1. \A s : Answered(s) => Answered(s)'
    BY DEF Answered
  <2> QED BY <2>1 DEF ClientsAreExpected
<1>4. \A s \in Sessions, w \in Workers : Claims(w, s)' <=> Claims(w, s)
  BY DEF Claims, Active
<1>5. OneSignals'
  BY DEF OneSignals, Signals
<1>6. SentGoIsRight'
  BY DEF SentGoIsRight
<1> QED BY <1>1, <1>2, <1>3, <1>4, <1>5, <1>6, ClaimsKept

LEMMA CreateStep ==
    ASSUME IInv, NEW r \in Requests, NEW s \in Sessions, NEW config \in Configs,
           Create(r, s, config)
    PROVE  IInv'
<1> USE DEF IInv, sessions, registry, members, state, expiration, computations, others,
            services, outside
<1>1. /\ Becomes(r, request'[r])
      /\ request'[r].op = "create" /\ request'[r].at = "register" /\ request'[r].session = s
      /\ request[r].op = "none" /\ request[r].at = "idle" /\ request[r].session = NoThread
  <2>1. Begins(r, "create", "register", s)
    BY ConfigsAssumption DEF Create, Begins, RequestPlaces
  <2> QED BY <2>1, AskIs
<1>2. TypeOK'
  BY <1>1 DEF TypeOK, Create, Becomes
<1>3. RequestsAreSane'
  BY <1>1, NamesAssumption DEF RequestsAreSane, Becomes
<1>4. CreatedOnce'
  BY <1>1 DEF CreatedOnce, Create, Becomes
<1>5. ReferencedIsAlive'
  BY <1>1 DEF ReferencedIsAlive, Referenced, Create, Becomes
<1> QED BY <1>1, <1>2, <1>3, <1>4, <1>5, AskKeeps, Frame, ProcessFrame, SignalFrame DEF Create

LEMMA RegisterStep ==
    ASSUME IInv, NEW r \in Requests, Register(r)
    PROVE  IInv'
<1> DEFINE s == request[r].session
<1> USE DEF IInv, members, state, expiration, computations, others, services, outside
<1>1. Moves(r, "routing") /\ request'[r].comp = request[r].comp
  BY GoToMoves DEF Register, RequestPlaces
<1>2. s \in Sessions /\ request[r].at = "register" /\ request[r].op = "create"
  BY DEF TypeOK, HttpRequest, SessionOrNone, RequestsAreSane, Register, At
<1>3. /\ object \in [Sessions -> {"none", "alive", "destroying", "removing", "gone"}]
      /\ object' = [object EXCEPT ![s] = "alive"] /\ mSessions' = mSessions \cup {s}
      /\ object[s] = "none"
  BY <1>2 DEF TypeOK, Register, CreatedOnce
<1>4. TypeOK'
  BY <1>1, <1>2, <1>3 DEF TypeOK, Register, Moves, Becomes
<1> HIDE DEF s
<1>5. RequestsAreSane'
  BY <1>1, <1>2 DEF RequestsAreSane, Moves, Becomes
<1>6. OperationsAreSane'
  BY <1>1, <1>2 DEF OperationsAreSane, Moves, Becomes, Register
<1>7. MainIsSane'
  BY DEF MainIsSane, Register, SessionsLocked
<1>8. CreatedOnce'
  <2>1. \A q \in Requests : request[q].at = "register" => request[q].op = "create"
    BY DEF TypeOK, HttpRequest, RequestsAreSane
  <2>2. \A q \in Requests \ {r} : request[q].session = s => request[q].at # "register"
    BY <1>2, <2>1 DEF CreatedOnce, s
  <2>3. \A q, p \in Requests :
          request'[q].op = "create" /\ request'[p].op = "create"
              /\ request'[q].session = request'[p].session => q = p
    BY <1>1 DEF CreatedOnce, Moves, Becomes
  <2>4. \A q \in Requests, t \in Sessions : request'[q].session = t =>
          (object'[t] = "none" <=> request'[q].at = "register")
    BY <1>1, <1>2, <1>3, <2>2 DEF CreatedOnce, Moves, Becomes, s
  <2> QED BY <2>3, <2>4 DEF CreatedOnce
<1>9. ReferencedIsAlive'
  BY <1>1, <1>2, <1>3 DEF ReferencedIsAlive, Referenced, Moves, Becomes, Register, s
<1>10. ActiveIsAlive'
  BY <1>3 DEF ActiveIsAlive, Active, Register
<1>11. FreshIsFree' /\ ExpirerIsJoined'
  BY <1>3 DEF FreshIsFree, ExpirerIsJoined, Register
<1>12. NoOrphan'
  BY <1>3 DEF NoOrphan, Register
<1>13. HandleIsKept'
  BY <1>1 DEF HandleIsKept, Moves, Becomes, Active, Register
<1>14. OneClaim' /\ ClaimIsBusy' /\ BusyIsClaimed'
  <2>1. \A t \in Sessions, w \in Workers : Claims(w, t)' <=> Claims(w, t)
    BY <1>1, <1>2 DEF Claims, Active, Moves, Becomes, Register
  <2> QED BY <2>1, ClaimsKept DEF Register
<1>15. OneSignals' /\ SentGoIsRight'
  BY <1>1, SignalsKept DEF Register
<1>16. ClientsAreExpected'
  <2>1. \A t : Answered(t) => Answered(t)'
    BY <1>1, <1>2 DEF Answered, Moves, Becomes
  <2> QED BY <2>1 DEF ClientsAreExpected, Register
<1> QED BY <1>4, <1>5, <1>6, <1>7, <1>8, <1>9, <1>10, <1>11, <1>12, <1>13, <1>14, <1>15,
           <1>16, ProcessFrame, SignalFrame DEF Register

LEMMA InitializeSessionStep ==
    ASSUME IInv, NEW r \in Requests, InitializeSession(r)
    PROVE  IInv'
<1> USE DEF IInv, sessions, registry, members, state, expiration, computations, others,
            services, outside
<1>1. PICK place \in {"expiry", "accept", "erase"} :
          Moves(r, place) /\ request'[r].comp = request[r].comp
  BY GoToMoves DEF InitializeSession, RequestPlaces
<1>2. request[r].at = "routing"
  BY DEF InitializeSession, At
<1>3. TypeOK'
  BY <1>1 DEF TypeOK, InitializeSession, Moves, Becomes
<1>4. RequestsAreSane'
  BY <1>1, <1>2 DEF RequestsAreSane, Moves, Becomes
<1>5. ReferencedIsAlive' /\ OneSignals' /\ SentGoIsRight'
  BY <1>1, <1>2, ReferencesKept, SignalsKept DEF InitializeSession
<1>6. /\ OperationsAreSane' /\ CreatedOnce' /\ HandleIsKept' /\ ClientsAreExpected'
      /\ OneClaim' /\ ClaimIsBusy' /\ BusyIsClaimed'
  BY <1>1, <1>2, QuietMove DEF InitializeSession, RequestPlaces
<1> QED BY <1>3, <1>4, <1>5, <1>6, Frame, ProcessFrame, SignalFrame DEF InitializeSession

LEMMA SetExpirationTimeStep ==
    ASSUME IInv, NEW r \in Requests, SetExpirationTime(r)
    PROVE  IInv'
<1> DEFINE s == request[r].session
<1> USE DEF IInv, registry, state, computations, others, services, outside
<1>1. Moves(r, "accept") /\ request'[r].comp = request[r].comp
  BY GoToMoves DEF SetExpirationTime, RequestPlaces
<1>2. s \in Sessions /\ request[r].at = "expiry" /\ request[r].op = "create"
  BY DEF TypeOK, HttpRequest, SessionOrNone, RequestsAreSane, SetExpirationTime, At
<1>3. object[s] = "alive"
  BY <1>2 DEF ReferencedIsAlive, Referenced
<1>4. expirer \in [Sessions -> {"none", "waiting", "ended"}]
      /\ expirer' = [expirer EXCEPT ![s] = "waiting"]
  BY DEF TypeOK, SetExpirationTime
<1>5. TypeOK'
  BY <1>1, <1>2, <1>4 DEF TypeOK, SetExpirationTime, Moves, Becomes
<1>6. RequestsAreSane'
  BY <1>1, <1>2 DEF RequestsAreSane, Moves, Becomes
<1>7. ReferencedIsAlive' /\ OneSignals' /\ SentGoIsRight'
  BY <1>1, <1>2, ReferencesKept, SignalsKept DEF SetExpirationTime
<1>8. /\ OperationsAreSane' /\ CreatedOnce' /\ HandleIsKept' /\ ClientsAreExpected'
      /\ OneClaim' /\ ClaimIsBusy' /\ BusyIsClaimed'
  BY <1>1, <1>2, QuietMove DEF SetExpirationTime, RequestPlaces
<1>9. ExpirerIsJoined'
  BY <1>3, <1>4 DEF ExpirerIsJoined, SetExpirationTime
<1>10. WelcomedIsStopped'
  <2>1. s \notin handler.welcomed
    BY <1>2 DEF ClientsAreExpected, Answered, CreatedOnce
  <2>2. handler.welcomed \subseteq Sessions
    BY DEF TypeOK
  <2> QED BY <1>4, <2>1, <2>2 DEF WelcomedIsStopped, SetExpirationTime
<1> QED BY <1>5, <1>6, <1>7, <1>8, <1>9, <1>10, Frame, ProcessFrame, SignalFrame
        DEF SetExpirationTime

LEMMA EraseSessionStep ==
    ASSUME IInv, NEW r \in Requests, EraseSession(r)
    PROVE  IInv'
<1> USE DEF IInv, members, state, expiration, computations, others, services, outside
<1>1. Moves(r, "done") /\ request'[r].comp = request[r].comp
  BY GoToMoves DEF EraseSession, RequestPlaces
<1>2. request[r].at = "erase"
  BY DEF EraseSession, At
<1>3. TypeOK'
  BY <1>1 DEF TypeOK, EraseSession, Moves, Becomes
<1>4. RequestsAreSane'
  BY <1>1, <1>2 DEF RequestsAreSane, Moves, Becomes
<1>5. MainIsSane'
  BY DEF MainIsSane, EraseSession, SessionsLocked
<1>6. ReferencedIsAlive' /\ OneSignals' /\ SentGoIsRight'
  BY <1>1, <1>2, ReferencesKept, SignalsKept DEF EraseSession
<1>7. /\ OperationsAreSane' /\ CreatedOnce' /\ HandleIsKept' /\ ClientsAreExpected'
      /\ OneClaim' /\ ClaimIsBusy' /\ BusyIsClaimed'
  BY <1>1, <1>2, QuietMove DEF EraseSession, RequestPlaces
<1> QED BY <1>3, <1>4, <1>5, <1>6, <1>7, Frame, ProcessFrame, SignalFrame DEF EraseSession

-----------------------------------------------------------------------------
(* Requests: modify, delete and signal, up to their acceptance.            *)

LEMMA AskStep ==
    ASSUME IInv, NEW r \in Requests, NEW s \in Sessions, NEW config \in SUBSET Comps,
           NEW op, NEW place, Ask(r, s, op, config, place),
           <<op, place>> \in {<<"modify", "lookup">>, <<"delete", "accept">>,
                              <<"signal", "checkFree">>}
    PROVE  IInv'
<1> USE DEF IInv, sessions, registry, members, state, expiration, computations, others,
            services, outside
<1>1. op \in {"modify", "delete", "signal"} /\ place \in {"lookup", "accept", "checkFree"}
  OBVIOUS
<1>2. /\ Becomes(r, request'[r])
      /\ request'[r].op = op /\ request'[r].at = place /\ request'[r].session = s
      /\ request[r].op = "none" /\ request[r].at = "idle" /\ request[r].session = NoThread
  <2>1. Begins(r, op, place, s)
    BY <1>1 DEF Ask, Begins, RequestPlaces
  <2> QED BY <2>1, AskIs
<1>3. TypeOK'
  BY <1>2 DEF TypeOK, Ask, Becomes
<1>4. RequestsAreSane'
  BY <1>2, NamesAssumption DEF RequestsAreSane, Becomes
<1>5. object[s] = "alive"
  BY DEF ReferencedIsAlive, Referenced, Ask
<1>6. CreatedOnce'
  BY <1>1, <1>2, <1>5 DEF CreatedOnce, Ask, Becomes
<1>7. ReferencedIsAlive'
  BY <1>2, <1>5 DEF ReferencedIsAlive, Referenced, Ask, Becomes
<1> QED BY <1>1, <1>2, <1>3, <1>4, <1>6, <1>7, AskKeeps, Frame, ProcessFrame, SignalFrame DEF Ask

LEMMA GetSessionStep ==
    ASSUME IInv, NEW r \in Requests, GetSession(r)
    PROVE  IInv'
<1> USE DEF IInv, sessions, registry, members, state, expiration, computations, others,
            services, outside
<1> DEFINE place == IF request[r].session \in mSessions THEN "accept" ELSE "done"
<1>1. Moves(r, place) /\ request'[r].comp = request[r].comp /\ request[r].at = "lookup"
  BY GoToMoves DEF GetSession, RequestPlaces, At
<1>2. TypeOK'
  BY <1>1 DEF TypeOK, GetSession, Moves, Becomes
<1>3. RequestsAreSane'
  BY <1>1 DEF RequestsAreSane, Moves, Becomes
<1>4. ReferencedIsAlive'
  BY <1>1 DEF ReferencedIsAlive, Referenced, Moves, Becomes, GetSession
<1> HIDE DEF place
<1>5. place \in {"accept", "done"}
  BY DEF place
<1>6. OneSignals' /\ SentGoIsRight'
  BY <1>1, <1>5, SignalsKept DEF GetSession
<1>7. /\ OperationsAreSane' /\ CreatedOnce' /\ HandleIsKept' /\ ClientsAreExpected'
      /\ OneClaim' /\ ClaimIsBusy' /\ BusyIsClaimed'
  BY <1>1, <1>5, QuietMove DEF GetSession, RequestPlaces
<1> QED BY <1>2, <1>3, <1>4, <1>6, <1>7, Frame, ProcessFrame, SignalFrame DEF GetSession

LEMMA RefuseStep ==
    ASSUME IInv, NEW r \in Requests, At(r, "accept"),
           GoTo(r, IF request[r].op = "create" THEN "erase" ELSE "done"),
           UNCHANGED <<sessions, operation, others>>
    PROVE  IInv'
<1> USE DEF IInv, sessions, registry, members, state, expiration, computations, others,
            services, outside
<1> DEFINE place == IF request[r].op = "create" THEN "erase" ELSE "done"
<1>1. Moves(r, place) /\ request'[r].comp = request[r].comp /\ request[r].at = "accept"
  BY GoToMoves DEF RequestPlaces, At
<1>2. TypeOK'
  BY <1>1 DEF TypeOK, Moves, Becomes
<1>3. RequestsAreSane'
  BY <1>1 DEF RequestsAreSane, Moves, Becomes
<1> HIDE DEF place
<1>4. place \in {"erase", "done"}
  BY DEF place
<1>5. ReferencedIsAlive' /\ OneSignals' /\ SentGoIsRight'
  BY <1>1, <1>4, ReferencesKept, SignalsKept
<1>6. /\ OperationsAreSane' /\ CreatedOnce' /\ HandleIsKept' /\ ClientsAreExpected'
      /\ OneClaim' /\ ClaimIsBusy' /\ BusyIsClaimed'
  BY <1>1, <1>4, QuietMove DEF RequestPlaces
<1> QED BY <1>2, <1>3, <1>5, <1>6, Frame, ProcessFrame, SignalFrame

\* Who claims a session that was Free, or that the main thread does not shut
\* down, is the first.
LEMMA AcceptStep ==
    ASSUME IInv, NEW r \in Requests, Accept(r)
    PROVE  IInv'
<1> DEFINE s == request[r].session
<1> USE DEF IInv, registry, expiration, computations, others, services, outside
<1>1. CASE ~(~IsShuttingDown(r) /\ OperationState(r) = "Free")
  BY <1>1, RefuseStep DEF Accept, AcceptIf, sessions, members, state
<1>2. CASE ~IsShuttingDown(r) /\ OperationState(r) = "Free"
  <2>1. Moves(r, "join") /\ request'[r].comp = request[r].comp /\ request[r].at = "accept"
    BY <1>2, GoToMoves DEF Accept, AcceptIf, RequestPlaces, At
  <2>2. s \in Sessions /\ request[r].op \in {"create", "modify", "delete"}
    BY <2>1 DEF TypeOK, HttpRequest, SessionOrNone, RequestsAreSane
  <2>3. /\ mState \in [Sessions -> SessionState] /\ mState' = [mState EXCEPT ![s] = "Busy"]
        /\ mState[s] = "Free" /\ ~mShuttingDown[s]
    BY <1>2 DEF TypeOK, Accept, AcceptIf, IsShuttingDown, OperationState
  <2>4. object[s] = "alive"
    BY <2>1, <2>2 DEF ReferencedIsAlive, Referenced
  <2>5. \A w \in Workers : ~Claims(w, s)
    <3>1. \A w \in Workers : Claims(w, s) => w = Main
      BY <2>2, <2>3 DEF ClaimIsBusy
    <3>2. ~Claims(Main, s)
      BY <2>2, <2>3, NamesAssumption DEF Claims, Active, OperationsAreSane, MainIsSane
    <3> QED BY <3>1, <3>2
  <2>6. \A w \in Workers, t \in Sessions : Claims(w, t)' <=> Claims(w, t) \/ (w = r /\ t = s)
    BY <1>2, <2>1 DEF Claims, Active, Moves, Becomes, Accept, AcceptIf
  <2>7. TypeOK'
    BY <1>2, <2>1, <2>2, <2>3 DEF TypeOK, Accept, AcceptIf, Moves, Becomes, SessionState
  <2> HIDE DEF s
  <2>8. RequestsAreSane'
    BY <2>1, <2>2 DEF RequestsAreSane, Moves, Becomes
  <2>9. OperationsAreSane'
    BY <1>2, <2>1 DEF OperationsAreSane, Moves, Becomes, Accept, AcceptIf
  <2>10. CreatedOnce'
    BY <1>2, <2>1 DEF CreatedOnce, Moves, Becomes, Accept, AcceptIf
  <2>11. ReferencedIsAlive' /\ OneSignals' /\ SentGoIsRight'
    BY <1>2, <2>1, ReferencesKept, SignalsKept DEF Accept, AcceptIf
  <2>12. HandleIsKept'
    BY <1>2, <2>1 DEF HandleIsKept, Active, Moves, Becomes, Accept, AcceptIf
  <2>13. ClientsAreExpected'
    <3>1. \A t : Answered(t) => Answered(t)'
      BY <2>1 DEF Answered, Moves, Becomes
    <3> QED BY <1>2, <3>1 DEF ClientsAreExpected, Accept, AcceptIf
  <2>14. OneClaim'
    BY <2>5, <2>6 DEF OneClaim
  <2>15. ClaimIsBusy' /\ BusyIsClaimed'
    <3>1. r # Main /\ r \in Workers /\ Requests \subseteq Workers
      BY NamesAssumption DEF Workers
    <3>2. ClaimIsBusy'
      BY <2>3, <2>5, <2>6, <3>1 DEF ClaimIsBusy
    <3>3. BusyIsClaimed'
      BY <2>3, <2>6, <3>1 DEF BusyIsClaimed
    <3> QED BY <3>2, <3>3
  <2>16. FreshIsFree' /\ DefunctIsStopped'
    BY <1>2, <2>3, <2>4 DEF FreshIsFree, DefunctIsStopped, Accept, AcceptIf
  <2> QED BY <1>2, <2>7, <2>8, <2>9, <2>10, <2>11, <2>12, <2>13, <2>14, <2>15, <2>16,
             Frame, ProcessFrame, SignalFrame DEF Accept, AcceptIf
<1> QED BY <1>1, <1>2

-----------------------------------------------------------------------------
(* Requests: the operation thread is joined, started and assigned.         *)

LEMMA JoinOperationStep ==
    ASSUME IInv, NEW r \in Requests, JoinOperation(r)
    PROVE  IInv'
<1> DEFINE s == request[r].session
<1> USE DEF IInv, registry, state, expiration, computations, others, services, outside
<1>1. Moves(r, "thread") /\ request'[r].comp = request[r].comp /\ request[r].at = "join"
  BY GoToMoves DEF JoinOperation, RequestPlaces, At
<1>2. s \in Sessions /\ request[r].op \in {"create", "modify", "delete"}
  BY <1>1 DEF TypeOK, HttpRequest, SessionOrNone, RequestsAreSane
<1>3. mOperationThread \in [Sessions -> Requests \cup {NoThread}]
      /\ mOperationThread' = [mOperationThread EXCEPT ![s] = NoThread]
  BY DEF TypeOK, JoinOperation
<1>4. \A w \in Workers : Active(w, s) => FALSE
  <2>1. Claims(r, s)
    BY <1>1, <1>2 DEF Claims
  <2>2. ~Active(r, s)
    BY <1>1 DEF Active, OperationsAreSane
  <2> QED BY <1>2, <2>1, <2>2 DEF OneClaim, Claims, Workers
<1>5. \A t \in Sessions, w \in Workers : Claims(w, t)' <=> Claims(w, t)
  BY <1>1 DEF Claims, Active, Moves, Becomes, JoinOperation
<1>6. TypeOK'
  BY <1>1, <1>2, <1>3 DEF TypeOK, JoinOperation, Moves, Becomes
<1> HIDE DEF s
<1>7. RequestsAreSane'
  BY <1>1, <1>2 DEF RequestsAreSane, Moves, Becomes
<1>8. OperationsAreSane'
  BY <1>1 DEF OperationsAreSane, Moves, Becomes, JoinOperation
<1>9. CreatedOnce'
  BY <1>1 DEF CreatedOnce, Moves, Becomes, JoinOperation
<1>10. ReferencedIsAlive' /\ OneSignals' /\ SentGoIsRight'
  BY <1>1, ReferencesKept, SignalsKept DEF JoinOperation
<1>11. HandleIsKept'
  BY <1>1, <1>2, <1>3, <1>4 DEF HandleIsKept, Active, Moves, Becomes, JoinOperation, Workers
<1>12. ClientsAreExpected'
  <2>1. \A t : Answered(t) => Answered(t)'
    BY <1>1 DEF Answered, Moves, Becomes
  <2> QED BY <2>1 DEF ClientsAreExpected, JoinOperation
<1>13. OneClaim' /\ ClaimIsBusy' /\ BusyIsClaimed'
  BY <1>5, ClaimsKept DEF JoinOperation
<1> QED BY <1>6, <1>7, <1>8, <1>9, <1>10, <1>11, <1>12, <1>13, Frame, ProcessFrame, SignalFrame
        DEF JoinOperation

LEMMA StartOperationStep ==
    ASSUME IInv, NEW r \in Requests, StartOperation(r)
    PROVE  IInv'
<1> DEFINE s == request[r].session
           place == IF request[r].op = "delete" THEN "stop" ELSE "delta"
<1> USE DEF IInv, sessions, registry, members, state, expiration, computations, others,
            services, outside
<1>1. Moves(r, "assign") /\ request'[r].comp = request[r].comp /\ request[r].at = "thread"
  BY GoToMoves DEF StartOperation, RequestPlaces, At
<1>2. /\ s \in Sessions /\ request[r].op \in {"create", "modify", "delete"}
      /\ s # NoThread /\ r \in Workers /\ r # Main
  BY <1>1, NamesAssumption DEF TypeOK, HttpRequest, SessionOrNone, RequestsAreSane, Workers
<1>3. /\ operation' \in [Workers -> SessionOperation]
      /\ operation'[r].at = place /\ operation'[r].session = s
      /\ \A v \in Workers \ {r} : operation'[v] = operation[v]
  <2>1. operation'[r] = [NoOperation EXCEPT !.at = place, !.session = s]
    BY <1>2 DEF TypeOK, StartOperation
  <2>2. operation'[r] \in SessionOperation /\ operation'[r].at = place /\ operation'[r].session = s
    BY <1>2, <2>1 DEF NoOperation, SessionOperation, OperationPlaces, SessionOrNone
  <2> QED BY <1>2, <2>2 DEF TypeOK, StartOperation
<1>4. object[s] = "alive"
  BY <1>1, <1>2 DEF ReferencedIsAlive, Referenced
<1>5. Claims(r, s) /\ operation[r].at = "none"
  BY <1>1, <1>2 DEF Claims, OperationsAreSane
<1>6. place \in {"stop", "delta"}
  OBVIOUS
<1> HIDE DEF place
<1>7. \A t \in Sessions, w \in Workers : Active(w, t)' <=> Active(w, t) \/ (w = r /\ t = s)
  BY <1>2, <1>3, <1>5, <1>6 DEF Active, OperationsAreSane
<1>8. \A t \in Sessions, w \in Workers : Claims(w, t)' <=> Claims(w, t)
  BY <1>1, <1>2, <1>5, <1>7 DEF Claims, Moves, Becomes, StartOperation
<1>9. TypeOK'
  BY <1>1, <1>3 DEF TypeOK, StartOperation, Moves, Becomes
<1> HIDE DEF s
<1>10. RequestsAreSane'
  BY <1>1, <1>2 DEF RequestsAreSane, Moves, Becomes
<1>11. OperationsAreSane'
  BY <1>1, <1>2, <1>3, <1>6 DEF OperationsAreSane, Moves, Becomes, StartOperation, Workers, s
<1>12. CreatedOnce'
  BY <1>1 DEF CreatedOnce, Moves, Becomes, StartOperation
<1>13. ReferencedIsAlive' /\ OneSignals' /\ SentGoIsRight'
  BY <1>1, ReferencesKept, SignalsKept DEF StartOperation
<1>14. HandleIsKept'
  BY <1>1, <1>2, <1>7 DEF HandleIsKept, Moves, Becomes, StartOperation, Workers
<1>15. ActiveIsAlive'
  BY <1>4, <1>7 DEF ActiveIsAlive, StartOperation
<1>16. ClientsAreExpected'
  <2>1. \A t : Answered(t) => Answered(t)'
    BY <1>1 DEF Answered, Moves, Becomes
  <2> QED BY <2>1 DEF ClientsAreExpected, StartOperation
<1>17. OneClaim' /\ ClaimIsBusy' /\ BusyIsClaimed'
  BY <1>8, ClaimsKept DEF StartOperation
<1>18. DeletedIsStopped'
  BY <1>3, <1>6 DEF DeletedIsStopped, StartOperation
<1>19. NoOrphan'
  BY <1>2, <1>3, <1>5 DEF NoOrphan, StartOperation
<1> QED BY <1>9, <1>10, <1>11, <1>12, <1>13, <1>14, <1>15, <1>16, <1>17, <1>18, <1>19,
           Frame, ProcessFrame, SignalFrame DEF StartOperation

LEMMA AssignOperationStep ==
    ASSUME IInv, ~aborted, NEW r \in Requests, AssignOperation(r)
    PROVE  IInv'
<1> DEFINE s == request[r].session
<1> USE DEF IInv, registry, state, expiration, computations, services
<1>1. Moves(r, "done") /\ request'[r].comp = request[r].comp /\ request[r].at = "assign"
  BY GoToMoves DEF AssignOperation, RequestPlaces, At
<1>2. s \in Sessions /\ request[r].op \in {"create", "modify", "delete"} /\ r # NoThread
  BY <1>1, NamesAssumption DEF TypeOK, HttpRequest, SessionOrNone, RequestsAreSane
<1>3. mOperationThread \in [Sessions -> Requests \cup {NoThread}]
      /\ mOperationThread' = [mOperationThread EXCEPT ![s] = r]
      /\ aborted' = (mOperationThread[s] # NoThread)
  BY DEF TypeOK, AssignOperation, Joinable
<1>4. \A t \in Sessions, w \in Workers : Claims(w, t)' <=> Claims(w, t)
  BY <1>1 DEF Claims, Active, Moves, Becomes, AssignOperation
<1>5. TypeOK'
  BY <1>1, <1>2, <1>3 DEF TypeOK, AssignOperation, Moves, Becomes
<1> HIDE DEF s
<1>6. RequestsAreSane'
  BY <1>1, <1>2 DEF RequestsAreSane, Moves, Becomes
<1>7. OperationsAreSane'
  BY <1>1 DEF OperationsAreSane, Moves, Becomes, AssignOperation
<1>8. CreatedOnce'
  BY <1>1 DEF CreatedOnce, Moves, Becomes, AssignOperation
<1>9. ReferencedIsAlive' /\ OneSignals' /\ SentGoIsRight'
  BY <1>1, ReferencesKept, SignalsKept DEF AssignOperation
<1>10. HandleIsKept'
  <2> SUFFICES ASSUME ~aborted', NEW t \in Sessions, NEW q \in Requests,
                      Active(q, t)', request'[q].at = "done"
               PROVE  mOperationThread'[t] = q
    BY DEF HandleIsKept
  <2>1. mOperationThread[s] = NoThread /\ q # NoThread
    BY <1>3, NamesAssumption
  <2>2. Active(q, t)
    BY DEF Active, AssignOperation
  <2>3. CASE q = r
    <3>1. t = s
      BY <1>1, <2>2, <2>3 DEF Active, OperationsAreSane, s
    <3> QED BY <1>2, <1>3, <2>3, <3>1
  <2>4. CASE q # r
    <3>1. mOperationThread[t] = q
      BY <1>1, <2>2, <2>4 DEF HandleIsKept, Moves, Becomes
    <3> QED BY <1>3, <2>1, <3>1
  <2> QED BY <2>3, <2>4
<1>11. ClientsAreExpected'
  <2>1. \A t : Answered(t) => Answered(t)'
    BY <1>1 DEF Answered, Moves, Becomes
  <2> QED BY <2>1 DEF ClientsAreExpected, AssignOperation
<1>12. OneClaim' /\ ClaimIsBusy' /\ BusyIsClaimed'
  BY <1>4, ClaimsKept DEF AssignOperation
<1> QED BY <1>5, <1>6, <1>7, <1>8, <1>9, <1>10, <1>11, <1>12, Frame, ProcessFrame, SignalFrame
        DEF AssignOperation

-----------------------------------------------------------------------------
(* Requests: signal.                                                       *)

LEMMA CheckIsFreeStep ==
    ASSUME IInv, NEW r \in Requests, CheckIsFree(r)
    PROVE  IInv'
<1> USE DEF IInv, sessions, registry, members, state, expiration, computations, others,
            services, outside
<1> DEFINE place == IF mState[request[r].session] = "Free" THEN "signalAll" ELSE "done"
<1>1. Moves(r, place) /\ request'[r].comp = request[r].comp /\ request[r].at = "checkFree"
  BY GoToMoves DEF CheckIsFree, RequestPlaces, At
<1>2. place \in {"signalAll", "done"}
  OBVIOUS
<1> HIDE DEF place
<1>3. request[r].op = "signal"
  BY <1>1 DEF TypeOK, HttpRequest, RequestsAreSane
<1>4. TypeOK'
  BY <1>1 DEF TypeOK, CheckIsFree, Moves, Becomes
<1>5. RequestsAreSane'
  BY <1>1, <1>2, <1>3 DEF RequestsAreSane, Moves, Becomes
<1>6. ReferencedIsAlive' /\ OneSignals' /\ SentGoIsRight'
  BY <1>1, <1>2, ReferencesKept, SignalsKept DEF CheckIsFree
<1>7. /\ OperationsAreSane' /\ CreatedOnce' /\ HandleIsKept' /\ ClientsAreExpected'
      /\ OneClaim' /\ ClaimIsBusy' /\ BusyIsClaimed'
  BY <1>1, <1>2, QuietMove DEF CheckIsFree, RequestPlaces
<1> QED BY <1>4, <1>5, <1>6, <1>7, Frame, ProcessFrame, SignalFrame DEF CheckIsFree

\* What the parts of the invariant see of a step of signalAll.
LEMMA SignalStep ==
    ASSUME IInv, NEW r \in Requests, Moves(r, request'[r].at),
           request[r].at \in {"signalAll", "signalling", "go", "update", "suspend"},
           request'[r].at \in {"signalling", "go", "update", "suspend", "done"},
           request'[r].at \in {"go", "update", "suspend"} => request'[r].comp \in Comps,
           UNCHANGED <<registry, state, mOperationThread, expiration, mComputations, process,
                       operation, main, handler, aborted>>
    PROVE  /\ RequestsAreSane' /\ OperationsAreSane' /\ MainIsSane'
           /\ CreatedOnce' /\ ReferencedIsAlive' /\ ActiveIsAlive'
           /\ OneClaim' /\ ClaimIsBusy' /\ BusyIsClaimed' /\ FreshIsFree' /\ HandleIsKept'
           /\ DeletedIsStopped' /\ DefunctIsStopped' /\ NoOrphan'
           /\ ClientsAreExpected' /\ WelcomedIsStopped' /\ ExpirerIsJoined'
<1> USE DEF IInv, registry, state, expiration
<1>1. request[r].op = "signal"
  BY DEF TypeOK, HttpRequest, RequestsAreSane
<1>2. RequestsAreSane'
  BY <1>1 DEF RequestsAreSane, Moves, Becomes
<1>3. ReferencedIsAlive'
  BY ReferencesKept
<1>4. request'[r].at \in RequestPlaces
  BY DEF RequestPlaces
<1>5. /\ OperationsAreSane' /\ CreatedOnce' /\ HandleIsKept' /\ ClientsAreExpected'
      /\ OneClaim' /\ ClaimIsBusy' /\ BusyIsClaimed'
  BY <1>4, QuietMove
<1> QED BY <1>2, <1>3, <1>5, Frame, ProcessFrame, SignalFrame

LEMMA SignalAllStep ==
    ASSUME IInv, NEW r \in Requests, SignalAll(r)
    PROVE  IInv'
<1> USE DEF IInv, sessions, registry, members, state, expiration,
            computations, others, services, outside
<1>1. request[r].at = "signalAll" /\ request[r].session \in Sessions
  BY DEF SignalAll, SignalAllUnlocked, At, TypeOK, HttpRequest, SessionOrNone, RequestsAreSane
<1>2. Moves(r, "signalling")
  <2>1. request \in [Requests -> HttpRequest] /\ mComputations[request[r].session] \subseteq Comps
    BY <1>1 DEF TypeOK
  <2>2. PICK q \in HttpRequest : q = request[r]
    BY <2>1
  <2>3. request'[r] = [q EXCEPT !.todo = mComputations[request[r].session], !.at = "signalling"]
    BY <2>1, <2>2 DEF SignalAll, SignalAllUnlocked
  <2>4. /\ request'[r] \in HttpRequest /\ request'[r].at = "signalling"
        /\ request'[r].op = q.op /\ request'[r].session = q.session
    BY ONLY <2>1, <2>3 DEF HttpRequest, RequestPlaces
  <2> QED BY <2>1, <2>2, <2>4 DEF Moves, Becomes, SignalAll, SignalAllUnlocked
<1>3. TypeOK'
  BY <1>2 DEF TypeOK, Moves, Becomes, SignalAll, SignalAllUnlocked
<1>4. OneSignals'
  BY <1>2 DEF OneSignals, Signals, ComputationsLocked, Moves, Becomes, SignalAll, SignalAllUnlocked
<1>5. SentGoIsRight'
  BY <1>2 DEF SentGoIsRight, Moves, Becomes, SignalAll, SignalAllUnlocked
<1> QED BY <1>1, <1>2, <1>3, <1>4, <1>5, SignalStep, SignalFrame DEF Moves, SignalAll, SignalAllUnlocked

LEMMA SignalComputationStep ==
    ASSUME IInv, NEW r \in Requests, NEW c \in Comps, SignalComputation(r, c)
    PROVE  IInv'
<1> DEFINE s == request[r].session
           place == IF process[s][c] # "Spawned" THEN "signalling"
                    ELSE IF sent[s][c] = <<>> THEN "go" ELSE "update"
<1> USE DEF IInv, sessions, registry, members, state, expiration,
            computations, others, services, outside
<1>1. request[r].at = "signalling" /\ s \in Sessions
  BY DEF SignalComputation, At, TypeOK, HttpRequest, SessionOrNone, RequestsAreSane
<1>2. Moves(r, place) /\ request'[r].comp = c
  <2>1. request \in [Requests -> HttpRequest] /\ place \in RequestPlaces
    BY DEF TypeOK, RequestPlaces
  <2>2. PICK q \in HttpRequest : q = request[r]
    BY <2>1
  <2>3. request'[r] = [q EXCEPT !.todo = @ \ {c}, !.comp = c, !.at = place]
    BY <2>1, <2>2 DEF SignalComputation
  <2> HIDE DEF place
  <2>4. /\ request'[r] \in HttpRequest /\ request'[r].at = place /\ request'[r].comp = c
        /\ request'[r].op = q.op /\ request'[r].session = q.session
    BY ONLY <2>1, <2>3, c \in Comps DEF HttpRequest
  <2> QED BY <2>1, <2>2, <2>4 DEF Moves, Becomes, place, SignalComputation
<1>3. TypeOK'
  BY <1>2 DEF TypeOK, Moves, Becomes, SignalComputation
<1>4. OneSignals'
  BY <1>1, <1>2 DEF OneSignals, Signals, Moves, Becomes, SignalComputation
<1>5. SentGoIsRight'
  BY <1>1, <1>2 DEF SentGoIsRight, Moves, Becomes, SignalComputation
<1> QED BY <1>1, <1>2, <1>3, <1>4, <1>5, SignalStep, SignalFrame DEF Moves, SignalComputation

\* mSentGo is only set under mComputationsMutex: "go" is the first message.
LEMMA SendOrder ==
    ASSUME NEW q \in Seq({"go", "update"}), NEW command \in {"go", "update"},
           \A i \in DOMAIN q : q[i] = "go" <=> i = 1, q = <<>> <=> command = "go"
    PROVE  /\ Append(q, command) \in Seq({"go", "update"}) /\ Append(q, command) # <<>>
           /\ \A i \in DOMAIN Append(q, command) : Append(q, command)[i] = "go" <=> i = 1
<1>1. /\ Len(q) \in Nat /\ DOMAIN q = 1 .. Len(q) /\ (Len(q) = 0 <=> command = "go")
  BY EmptySeq, LenProperties
<1>2. /\ Append(q, command) \in Seq({"go", "update"}) /\ Append(q, command) # <<>>
      /\ Len(Append(q, command)) = Len(q) + 1
      /\ \A i \in 1 .. Len(q) : Append(q, command)[i] = q[i]
      /\ Append(q, command)[Len(q) + 1] = command
  BY AppendProperties
<1>3. DOMAIN Append(q, command) = 1 .. Len(q) + 1
  BY <1>2, LenProperties
<1>4. ASSUME NEW i \in 1 .. Len(q) + 1 PROVE Append(q, command)[i] = "go" <=> i = 1
  <2>1. CASE i \in 1 .. Len(q)
    BY <1>1, <1>2, <2>1
  <2>2. CASE i = Len(q) + 1
    BY <1>1, <1>2, <2>2
  <2> QED BY <1>1, <2>1, <2>2
<1> QED BY <1>2, <1>3, <1>4

LEMMA SendControlStep ==
    ASSUME IInv, NEW r \in Requests, NEW command \in {"go", "update"}, SendControl(r, command)
    PROVE  IInv'
<1> DEFINE s == request[r].session
           c == request[r].comp
           place == IF command = "go" /\ AutoSuspend THEN "suspend" ELSE "signalling"
<1> USE DEF IInv, registry, members, state, expiration, others, services, outside
<1>1. request[r].at = command /\ s \in Sessions /\ c \in Comps
  BY DEF SendControl, At, TypeOK, HttpRequest, SessionOrNone, RequestsAreSane
<1>2. place \in {"suspend", "signalling"}
  OBVIOUS
<1> HIDE DEF place
<1>3. Moves(r, place) /\ request'[r].comp = c
  BY <1>2, GoToMoves DEF RequestPlaces, SendControl, place
<1>4. sent[s][c] \in Seq({"go", "update"}) /\ (sent[s][c] = <<>> <=> command = "go")
  BY <1>1 DEF TypeOK, SentGoIsRight
<1>5. /\ Append(sent[s][c], command) \in Seq({"go", "update"})
      /\ Append(sent[s][c], command) # <<>>
      /\ \A i \in DOMAIN Append(sent[s][c], command) :
            Append(sent[s][c], command)[i] = "go" <=> i = 1
  <2>1. \A i \in DOMAIN sent[s][c] : sent[s][c][i] = "go" <=> i = 1
    BY <1>1 DEF GoThenUpdates
  <2> QED BY <1>4, <2>1, SendOrder
<1>6. /\ sent \in [Sessions -> [Comps -> Seq({"go", "update"})]]
      /\ sent' \in [Sessions -> [Comps -> Seq({"go", "update"})]]
      /\ sent'[s][c] = Append(sent[s][c], command)
      /\ \A t \in Sessions, d \in Comps : <<t, d>> # <<s, c>> => sent'[t][d] = sent[t][d]
  BY <1>1, <1>5 DEF TypeOK, SendControl
<1> HIDE DEF s, c
<1>7. TypeOK'
  BY <1>3, <1>6 DEF TypeOK, Moves, Becomes, SendControl
<1>8. OneSignals'
  BY <1>1, <1>2, <1>3 DEF OneSignals, Signals, Moves, Becomes
<1>9. SentGoIsRight'
  <2>1. ASSUME NEW q \in Requests, request'[q].at \in {"go", "update"}
        PROVE  /\ request'[q] = request[q]
               /\ \A t \in Sessions : request[q].session = t =>
                     sent'[t][request[q].comp] = sent[t][request[q].comp]
    <3>1. q # r /\ request'[q] = request[q] /\ request[q].comp \in Comps
      BY <1>2, <1>3, <2>1 DEF Moves, Becomes, RequestsAreSane
    <3>2. request[q].session # s
      BY <1>1, <2>1, <3>1 DEF OneSignals, Signals, s
    <3> QED BY <1>6, <3>1, <3>2
  <2> QED BY <2>1 DEF SentGoIsRight
<1>10. GoThenUpdates'
  <2> SUFFICES ASSUME NEW t \in Sessions, NEW d \in Comps
               PROVE  \A i \in DOMAIN sent'[t][d] : sent'[t][d][i] = "go" <=> i = 1
    BY DEF GoThenUpdates
  <2>1. CASE <<t, d>> = <<s, c>>
    BY <1>5, <1>6, <2>1
  <2>2. CASE <<t, d>> # <<s, c>>
    BY <1>6, <2>2 DEF GoThenUpdates
  <2> QED BY <2>1, <2>2
<1> QED BY <1>1, <1>2, <1>3, <1>7, <1>8, <1>9, <1>10, SignalStep DEF Moves, SendControl, c

LEMMA SuspendStep ==
    ASSUME IInv, NEW r \in Requests, Suspend(r)
    PROVE  IInv'
<1> USE DEF IInv, sessions, registry, members, state, expiration, computations, services
<1>1. /\ request[r].at = "suspend" /\ request[r].session \in Sessions
      /\ request[r].comp \in Comps
  BY DEF Suspend, At, TypeOK, HttpRequest, SessionOrNone, RequestsAreSane
<1>2. Moves(r, "signalling")
  BY GoToMoves DEF RequestPlaces, Suspend
<1>3. TypeOK'
  BY <1>1, <1>2 DEF TypeOK, Moves, Becomes, Groups, Suspend
<1>4. OneSignals'
  BY <1>1, <1>2 DEF OneSignals, Signals, Moves, Becomes
<1>5. SentGoIsRight'
  BY <1>2 DEF SentGoIsRight, Moves, Becomes, Suspend
<1> QED BY <1>1, <1>2, <1>3, <1>4, <1>5, SignalStep, SignalFrame DEF Moves, Suspend

LEMMA SignalReturnsStep ==
    ASSUME IInv, NEW r \in Requests, SignalReturns(r)
    PROVE  IInv'
<1> USE DEF IInv, sessions, registry, members, state, expiration,
            computations, others, services, outside
<1>1. request[r].at = "signalling"
  BY DEF SignalReturns, At
<1>2. Moves(r, "done")
  <2>1. request \in [Requests -> HttpRequest]
    BY DEF TypeOK
  <2>2. PICK q \in HttpRequest : q = request[r]
    BY <2>1
  <2>3. request'[r] = [q EXCEPT !.at = "done", !.comp = NoComp]
    BY <2>1, <2>2 DEF SignalReturns
  <2>4. /\ request'[r] \in HttpRequest /\ request'[r].at = "done"
        /\ request'[r].op = q.op /\ request'[r].session = q.session
    BY ONLY <2>3 DEF HttpRequest, RequestPlaces
  <2> QED BY <2>1, <2>2, <2>4 DEF Moves, Becomes, SignalReturns
<1>3. TypeOK'
  BY <1>2 DEF TypeOK, Moves, Becomes, SignalReturns
<1>4. OneSignals' /\ SentGoIsRight'
  BY <1>2, SignalsKept DEF SignalReturns
<1> QED BY <1>1, <1>2, <1>3, <1>4, SignalStep, SignalFrame DEF Moves, SignalReturns


-----------------------------------------------------------------------------
(* The operation thread.                                                   *)

\* What a step may do to processes without starting one.
NothingStarts == \A s \in Sessions, c \in Comps :
    /\ process'[s][c] = "Spawned" => process[s][c] = "Spawned"
    /\ process'[s][c] \in {"Spawned", "Terminating"} =>
          process[s][c] \in {"Spawned", "Terminating"}

LEMMA ShutdownStops ==
    ASSUME TypeOK, NEW s \in Sessions, NEW stopped, Shutdown(s, stopped)
    PROVE  /\ process' \in [Sessions -> [Comps -> ProcessState]]
           /\ NothingStarts
           /\ \A c \in Comps : c \in stopped => process'[s][c] # "Spawned"
<1>1. process \in [Sessions -> [Comps -> ProcessState]]
  BY DEF TypeOK
<1>2. process'[s] = [c \in Comps |->
          IF c \in stopped /\ process[s][c] = "Spawned" THEN "Terminating"
          ELSE IF c \in stopped /\ process[s][c] = "NotSpawned" THEN "Terminated"
          ELSE process[s][c]]
  <2>1. DOMAIN process[s] = Comps
    BY <1>1
  <2> QED BY <1>1, <2>1 DEF Shutdown
<1>3. process'[s] \in [Comps -> ProcessState]
  BY <1>1, <1>2 DEF ProcessState
<1>4. \A t \in Sessions \ {s} : process'[t] = process[t]
  BY <1>1 DEF Shutdown
<1>5. process' \in [Sessions -> [Comps -> ProcessState]]
  BY <1>1, <1>3 DEF Shutdown
<1>6. NothingStarts
  BY <1>2, <1>4 DEF NothingStarts
<1> QED BY <1>2, <1>5, <1>6

\* An operation goes on, and starts nothing.
LEMMA WorkStep ==
    ASSUME IInv, NEW w \in Workers, NEW place \in OperationPlaces \ {"none", "insert", "done"},
           Works(w, place), operation[w].at \notin {"none", "insert", "done"},
           place \in {"deleteWait", "retire"} =>
               \A c \in Comps : process'[operation[w].session][c] # "Spawned",
           NothingStarts, TypeOK',
           UNCHANGED <<registry, members, mComputations, sent, request, services, aborted>>
    PROVE  IInv'
<1> USE DEF IInv, registry, members, state, expiration, services
<1>1. /\ OperationsAreSane' /\ ActiveIsAlive' /\ HandleIsKept'
      /\ OneClaim' /\ ClaimIsBusy' /\ BusyIsClaimed'
  BY QuietWork
<1>2. DeletedIsStopped'
  BY DEF DeletedIsStopped, Works, NothingStarts
<1>3. DefunctIsStopped'
  BY DEF DefunctIsStopped, NothingStarts
<1>4. NoOrphan'
  BY DEF NoOrphan, NothingStarts, Works
<1> QED BY <1>1, <1>2, <1>3, <1>4, Frame, SignalFrame

LEMMA ApplyNewConfigStep ==
    ASSUME IInv, NEW w \in Requests, ApplyNewConfig(w)
    PROVE  IInv'
<1> DEFINE s == operation[w].session
           defunct == mComputations[s] \ request[w].config
           start == request[w].config \ mComputations[s]
<1> USE DEF IInv, registry, members, state, expiration, others, services, outside
<1>1. w \in Workers /\ operation[w].at = "delta"
  BY DEF ApplyNewConfig, OperationAt, Workers
<1>2. s \in Sessions /\ defunct \in SUBSET Comps /\ start \in SUBSET Comps
  BY <1>1 DEF TypeOK, OperationsAreSane, SessionOperation, SessionOrNone, HttpRequest
<1>3. Works(w, "updateWait")
  <2>1. operation \in [Workers -> SessionOperation]
    BY DEF TypeOK
  <2>2. PICK q \in SessionOperation : q = operation[w]
    BY <1>1, <2>1
  <2>3. operation'[w] = [q EXCEPT !.at = "updateWait", !.stop = defunct, !.start = start]
    BY <1>1, <2>1, <2>2 DEF ApplyNewConfig
  <2> HIDE DEF defunct, start
  <2>4. /\ operation'[w] \in SessionOperation /\ operation'[w].at = "updateWait"
        /\ operation'[w].session = q.session
    BY ONLY <1>2, <2>3 DEF SessionOperation, OperationPlaces
  <2> QED BY <1>1, <2>1, <2>2, <2>4 DEF Works, ApplyNewConfig
<1>4. process' \in [Sessions -> [Comps -> ProcessState]] /\ NothingStarts
  BY <1>2, ShutdownStops DEF ApplyNewConfig
<1>5. TypeOK'
  BY <1>3, <1>4 DEF TypeOK, ApplyNewConfig, Works
<1> QED BY <1>1, <1>3, <1>4, <1>5, WorkStep DEF ApplyNewConfig, OperationPlaces

LEMMA DefunctStoppedStep ==
    ASSUME IInv, NEW w \in Requests, DefunctStopped(w)
    PROVE  IInv'
<1> USE DEF IInv, sessions, registry, members, state, expiration, computations, others,
            services, outside
<1>1. w \in Workers /\ operation[w].at = "updateWait"
  BY DEF DefunctStopped, OperationAt, Workers
<1>2. Works(w, "start")
  BY <1>1, ProceedWorks DEF DefunctStopped, OperationPlaces
<1>3. TypeOK'
  BY <1>2 DEF TypeOK, DefunctStopped, Works
<1>4. NothingStarts
  BY DEF NothingStarts, DefunctStopped
<1> QED BY <1>1, <1>2, <1>3, <1>4, WorkStep DEF DefunctStopped, OperationPlaces

LEMMA EventTyped ==
    ASSUME TypeOK, NEW s,
           NEW e \in {"sessionExpired", "sessionOperationFailed", "kicked"}, Event(s, e)
    PROVE  events' \in [Sessions -> SUBSET {"sessionExpired", "sessionOperationFailed",
                                            "kicked"}]
BY DEF TypeOK, Event

LEMMA UpdateFailsStep ==
    ASSUME IInv, NEW w \in Requests, UpdateFails(w)
    PROVE  IInv'
<1> USE DEF IInv, sessions, registry, members, state, expiration, computations, services
<1>1. w \in Workers /\ operation[w].at \in {"updateWait", "start"}
  BY DEF UpdateFails, OperationAt, Workers
<1>2. Works(w, "free")
  BY <1>1, ProceedWorks DEF UpdateFails, OperationPlaces
<1>3. TypeOK'
  BY <1>2, EventTyped DEF TypeOK, UpdateFails, Works
<1>4. NothingStarts
  BY DEF NothingStarts, UpdateFails
<1> QED BY <1>1, <1>2, <1>3, <1>4, WorkStep DEF UpdateFails, OperationPlaces

\* The session is Busy, its object is not gone, and nobody is deleting it.
LEMMA StartNewComputationStep ==
    ASSUME IInv, NEW w \in Requests, NEW c \in Comps, StartNewComputation(w, c)
    PROVE  IInv'
<1> DEFINE s == operation[w].session
<1> USE DEF IInv, registry, members, state, expiration, others, services, outside
<1>1. w \in Workers /\ w # Main /\ operation[w].at = "start"
  BY NamesAssumption DEF StartNewComputation, OperationAt, Workers
<1>2. s \in Sessions /\ Active(w, s)
  BY <1>1 DEF TypeOK, OperationsAreSane, SessionOperation, SessionOrNone, Active
<1>3. Works(w, "insert") /\ operation'[w].comp = c
  <2>1. operation \in [Workers -> SessionOperation]
    BY DEF TypeOK
  <2>2. PICK q \in SessionOperation : q = operation[w]
    BY <1>1, <2>1
  <2>3. operation'[w] = [q EXCEPT !.at = "insert", !.comp = c, !.start = @ \ {c}]
    BY <1>1, <2>1, <2>2 DEF StartNewComputation
  <2>4. /\ operation'[w] \in SessionOperation /\ operation'[w].at = "insert"
        /\ operation'[w].session = q.session /\ operation'[w].comp = c
    BY ONLY c \in Comps, <2>3 DEF SessionOperation, OperationPlaces
  <2> QED BY <1>1, <2>1, <2>2, <2>4 DEF Works, StartNewComputation
<1>4. /\ process \in [Sessions -> [Comps -> ProcessState]]
      /\ process' \in [Sessions -> [Comps -> ProcessState]]
      /\ \A t \in Sessions, d \in Comps :
            process'[t][d] = IF t = s /\ d = c THEN "Spawned" ELSE process[t][d]
  BY <1>2 DEF TypeOK, StartNewComputation, ProcessState
<1>5. TypeOK'
  BY <1>3, <1>4 DEF TypeOK, StartNewComputation, Works
<1>6. /\ OperationsAreSane' /\ ActiveIsAlive' /\ HandleIsKept'
      /\ OneClaim' /\ ClaimIsBusy' /\ BusyIsClaimed'
  BY <1>1, <1>3, QuietWork DEF StartNewComputation, OperationPlaces
<1>7. mState[s] = "Busy" /\ object[s] \in {"alive", "destroying"}
  BY <1>1, <1>2 DEF ClaimIsBusy, Claims, ActiveIsAlive
<1>8. \A v \in Workers : Active(v, s) => v = w
  BY <1>1, <1>2 DEF OneClaim, Claims
<1> HIDE DEF s
<1>9. DeletedIsStopped'
  BY <1>3, <1>4, <1>8 DEF DeletedIsStopped, Works, Active
<1>10. DefunctIsStopped'
  BY <1>4, <1>7 DEF DefunctIsStopped, StartNewComputation
<1>11. NoOrphan'
  BY <1>1, <1>3, <1>4, <1>7 DEF NoOrphan, Works, StartNewComputation, s
<1> QED BY <1>5, <1>6, <1>9, <1>10, <1>11, Frame, SignalFrame DEF StartNewComputation

LEMMA InsertComputationStep ==
    ASSUME IInv, NEW w \in Requests, InsertComputation(w)
    PROVE  IInv'
<1> DEFINE s == operation[w].session
           c == operation[w].comp
<1> USE DEF IInv, registry, members, state, expiration, others, services, outside
<1>1. w \in Workers /\ operation[w].at = "insert"
  BY DEF InsertComputation, Insert, OperationAt, Workers
<1>2. s \in Sessions /\ c \in Comps
  BY <1>1 DEF TypeOK, OperationsAreSane, SessionOperation, SessionOrNone
<1>3. Works(w, "start")
  <2>1. operation \in [Workers -> SessionOperation]
    BY DEF TypeOK
  <2>2. PICK q \in SessionOperation : q = operation[w]
    BY <1>1, <2>1
  <2>3. operation'[w] = [q EXCEPT !.at = "start", !.comp = NoComp]
    BY <1>1, <2>1, <2>2 DEF InsertComputation, Insert
  <2>4. /\ operation'[w] \in SessionOperation /\ operation'[w].at = "start"
        /\ operation'[w].session = q.session
    BY ONLY <2>3 DEF SessionOperation, OperationPlaces
  <2> QED BY <1>1, <2>1, <2>2, <2>4 DEF Works, InsertComputation, Insert
<1>4. /\ mComputations \in [Sessions -> SUBSET Comps]
      /\ mComputations' = [mComputations EXCEPT ![s] = @ \cup {c}]
  BY DEF TypeOK, InsertComputation, Insert
<1>5. TypeOK'
  BY <1>2, <1>3, <1>4 DEF TypeOK, InsertComputation, Insert, Works
<1>6. /\ OperationsAreSane' /\ ActiveIsAlive' /\ HandleIsKept'
      /\ OneClaim' /\ ClaimIsBusy' /\ BusyIsClaimed'
  BY <1>1, <1>3, QuietWork DEF InsertComputation, Insert, OperationPlaces
<1>7. DeletedIsStopped'
  BY <1>3 DEF DeletedIsStopped, Works, InsertComputation, Insert
<1>8. NoOrphan'
  <2>1. \A t \in Sessions : mComputations[t] \subseteq mComputations'[t]
    BY <1>4
  <2>2. c \in mComputations'[s]
    BY <1>2, <1>4
  <2> HIDE DEF s, c
  <2> QED BY <1>1, <1>3, <2>1, <2>2 DEF NoOrphan, Works, InsertComputation, Insert, s, c
<1> QED BY <1>5, <1>6, <1>7, <1>8, Frame, ProcessFrame, SignalFrame
        DEF InsertComputation, Insert

\* An operation ends, and leaves the session as "next".
LEMMA EndWork ==
    ASSUME IInv, NEW w \in Workers, NEW s \in Sessions, NEW next \in {"Free", "Defunct"},
           Active(w, s), operation[w].at # "insert", Works(w, "done"),
           mState' = [mState EXCEPT ![s] = next], w = Main => next = "Defunct",
           next = "Defunct" => \A c \in Comps : process[s][c] # "Spawned",
           UNCHANGED <<registry, mShuttingDown, mOperationThread, expiration, computations,
                       request, others>>
    PROVE  IInv'
<1> USE DEF IInv, registry, expiration, computations, others, services, outside
<1>1. operation[w].session = s /\ operation[w].at \notin {"none", "done", "insert"}
  BY DEF Active
<1>2. Claims(w, s)
  BY DEF Claims
<1>3. mState \in [Sessions -> SessionState] /\ mState'[s] = next
      /\ \A t \in Sessions \ {s} : mState'[t] = mState[t]
  BY DEF TypeOK
<1>4. TypeOK'
  <2>1. mState' \in [Sessions -> SessionState]
    BY <1>3 DEF SessionState
  <2> QED BY <2>1 DEF TypeOK, Works
<1>5. OperationsAreSane'
  BY <1>1 DEF OperationsAreSane, Works, Workers
<1>6. \A t \in Sessions, v \in Workers : Active(v, t)' => v # w /\ Active(v, t)
  BY DEF Active, Works
<1>7. ActiveIsAlive' /\ HandleIsKept'
  BY <1>6 DEF ActiveIsAlive, HandleIsKept, Workers
<1>8. \A t \in Sessions, v \in Workers : Claims(v, t)' => v # w /\ Claims(v, t)
  <2>1. w \in Requests => request[w].at \in {"assign", "done"}
    BY <1>1 DEF OperationsAreSane
  <2>2. w = Main => main.at = "deleteProc"
    BY <1>1 DEF OperationsAreSane
  <2> QED BY <1>6, <2>1, <2>2 DEF Claims
<1>9. OneClaim'
  BY <1>8 DEF OneClaim
<1>10. \A v \in Workers : ~Claims(v, s)'
  BY <1>2, <1>8 DEF OneClaim
<1>11. ClaimIsBusy'
  BY <1>3, <1>8, <1>10 DEF ClaimIsBusy
<1>12. BusyIsClaimed'
  <2> SUFFICES ASSUME NEW t \in Sessions, mState'[t] = "Busy"
               PROVE  \E r \in Requests : Claims(r, t)'
    BY DEF BusyIsClaimed
  <2>1. t # s /\ mState[t] = "Busy"
    BY <1>3
  <2>2. PICK r \in Requests : Claims(r, t)
    BY <2>1 DEF BusyIsClaimed
  <2>3. Active(r, t) => Active(r, t)'
    BY <1>1, <2>1 DEF Active, Works, Workers
  <2> QED BY <2>2, <2>3 DEF Claims
<1>13. FreshIsFree'
  <2>1. object[s] \in {"alive", "destroying"}
    BY DEF ActiveIsAlive
  <2> QED BY <1>3, <2>1 DEF FreshIsFree
<1>14. DeletedIsStopped'
  BY DEF DeletedIsStopped, Works
<1>15. DefunctIsStopped'
  BY <1>3 DEF DefunctIsStopped
<1>16. NoOrphan'
  BY DEF NoOrphan, Works
<1> QED BY <1>4, <1>5, <1>7, <1>9, <1>11, <1>12, <1>13, <1>14, <1>15, <1>16, Frame, SignalFrame

LEMMA UpdateEndsStep ==
    ASSUME IInv, NEW w \in Requests, UpdateEnds(w)
    PROVE  IInv'
<1> DEFINE s == operation[w].session
<1>1. w \in Workers /\ w # Main /\ operation[w].at \in {"free", "start"}
  BY NamesAssumption DEF UpdateEnds, OperationAt, Workers
<1>2. s \in Sessions /\ Active(w, s)
  BY <1>1 DEF IInv, TypeOK, OperationsAreSane, SessionOperation, SessionOrNone, Active
<1>3. mState[s] = "Busy"
  BY <1>1, <1>2 DEF IInv, ClaimIsBusy, Claims
<1>4. mState' = [mState EXCEPT ![s] = "Free"]
  BY <1>2, <1>3 DEF UpdateEnds, IInv, TypeOK
<1>5. Works(w, "done")
  BY <1>1, ProceedWorks DEF UpdateEnds, OperationPlaces, IInv
<1> QED BY <1>1, <1>2, <1>4, <1>5, EndWork DEF UpdateEnds

-----------------------------------------------------------------------------
(* deleteProc.                                                             *)

\* Whatever runs for the session is in mComputations: nobody is starting it.
LEMMA StopComputationsStep ==
    ASSUME IInv, NEW w \in Workers, StopComputations(w)
    PROVE  IInv'
<1> DEFINE s == operation[w].session
           stopped == mComputations[s]
<1> USE DEF IInv, registry, members, state, expiration, others, services, outside
<1>1. operation[w].at = "stop"
  BY DEF StopComputations, StopAll, OperationAt
<1>2. s \in Sessions /\ Active(w, s) /\ stopped \in SUBSET Comps
  BY <1>1 DEF TypeOK, OperationsAreSane, SessionOperation, SessionOrNone, Active
<1>3. Works(w, "deleteWait")
  <2>1. operation \in [Workers -> SessionOperation]
    BY DEF TypeOK
  <2>2. PICK q \in SessionOperation : q = operation[w]
    BY <1>1, <2>1
  <2>3. operation'[w] = [q EXCEPT !.at = "deleteWait", !.stop = stopped]
    BY <1>1, <2>1, <2>2 DEF StopComputations, StopAll
  <2> HIDE DEF stopped
  <2>4. /\ operation'[w] \in SessionOperation /\ operation'[w].at = "deleteWait"
        /\ operation'[w].session = q.session
    BY ONLY <1>2, <2>3 DEF SessionOperation, OperationPlaces
  <2> QED BY <1>1, <2>1, <2>2, <2>4 DEF Works, StopComputations, StopAll
<1>4. /\ process' \in [Sessions -> [Comps -> ProcessState]] /\ NothingStarts
      /\ \A c \in Comps : c \in stopped => process'[s][c] # "Spawned"
  BY <1>2, ShutdownStops DEF StopComputations, StopAll
<1>5. \A c \in Comps : process'[s][c] # "Spawned"
  <2>1. \A v \in Workers : Active(v, s) => v = w
    BY <1>2 DEF OneClaim, Claims
  <2>2. \A c \in Comps : process[s][c] = "Spawned" => c \in stopped
    BY <1>1, <1>2, <2>1 DEF NoOrphan, Active
  <2> QED BY <1>2, <1>4, <2>2 DEF NothingStarts
<1>6. TypeOK'
  BY <1>3, <1>4 DEF TypeOK, StopComputations, StopAll, Works
<1> QED BY <1>1, <1>3, <1>4, <1>5, <1>6, WorkStep DEF StopComputations, StopAll, OperationPlaces

LEMMA ComputationsStoppedStep ==
    ASSUME IInv, NEW w \in Workers, ComputationsStopped(w)
    PROVE  IInv'
<1> USE DEF IInv, sessions, registry, members, state, expiration, computations, services
<1>1. operation[w].at = "deleteWait" /\ operation[w].session \in Sessions
  BY DEF ComputationsStopped, OperationAt, TypeOK, OperationsAreSane, SessionOperation,
         SessionOrNone
<1>2. Works(w, "retire")
  BY ProceedWorks DEF ComputationsStopped, OperationPlaces
<1>3. TypeOK'
  BY <1>2, EventTyped DEF TypeOK, ComputationsStopped, Works
<1>4. \A c \in Comps : process'[operation[w].session][c] # "Spawned"
  BY <1>1 DEF DeletedIsStopped, ComputationsStopped
<1>5. NothingStarts
  BY DEF NothingStarts, ComputationsStopped
<1> QED BY <1>1, <1>2, <1>3, <1>4, <1>5, WorkStep DEF ComputationsStopped, OperationPlaces

LEMMA RetireStep ==
    ASSUME IInv, NEW w \in Workers, Retire(w)
    PROVE  IInv'
<1> DEFINE s == operation[w].session
<1>1. operation[w].at = "retire"
  BY DEF Retire, EndDeleteProc, OperationAt
<1>2. s \in Sessions /\ Active(w, s)
  BY <1>1 DEF IInv, TypeOK, OperationsAreSane, SessionOperation, SessionOrNone, Active
<1>3. \A c \in Comps : process[s][c] # "Spawned"
  BY <1>1, <1>2 DEF IInv, DeletedIsStopped
<1>4. Works(w, "done")
  BY ProceedWorks DEF Retire, EndDeleteProc, OperationPlaces, IInv
<1>5. mState' = [mState EXCEPT ![s] = "Defunct"]
  BY DEF Retire, EndDeleteProc
<1> QED BY <1>1, <1>2, <1>3, <1>4, <1>5, EndWork DEF Retire, EndDeleteProc

-----------------------------------------------------------------------------
(* The main thread.                                                        *)

\* The main thread goes on, without running deleteProc or being about to.
LEMMA QuietMain ==
    ASSUME IInv, main.at # "join", main'.at \notin {"join", "deleteProc"},
           main.at = "deleteProc" => operation[Main].at = "done",
           UNCHANGED <<request, operation, mState>>
    PROVE  OperationsAreSane' /\ OneClaim' /\ ClaimIsBusy' /\ BusyIsClaimed'
<1> USE DEF IInv
<1>1. OperationsAreSane'
  BY DEF OperationsAreSane
<1>2. \A s \in Sessions, w \in Workers : Claims(w, s)' <=> Claims(w, s)
  BY DEF Claims, Active
<1> QED BY <1>1, <1>2, ClaimsKept

LEMMA CloseStep ==
    ASSUME IInv, Close
    PROVE  IInv'
<1> USE DEF IInv, Close, members, state, expiration, computations, threads, others,
            services, outside
<1>1. TypeOK'
  BY DEF TypeOK
<1> QED BY <1>1, Frame, ClaimFrame, ProcessFrame, SignalFrame

LEMMA StopRunningStep ==
    ASSUME IInv, StopRunning
    PROVE  IInv'
<1> USE DEF IInv, members, state, expiration, computations, threads, outside
<1>1. main.at = "running" /\ main'.at = "closed" /\ TypeOK'
  BY DEF TypeOK, StopRunning
<1>2. MainIsSane'
  BY <1>1 DEF MainIsSane
<1> QED BY <1>1, <1>2, QuietMain, Frame, ProcessFrame, SignalFrame DEF StopRunning

LEMMA ShutdownAllStep ==
    ASSUME IInv, ShutdownAll
    PROVE  IInv'
<1> USE DEF IInv, sessions, registry, members, state, expiration, computations, threads, outside
<1>1. /\ main.at = "closed" /\ main'.at = "next" /\ main'.left = mSessions
      /\ main' \in [at : {"running", "closed", "next", "waitIdle", "join", "deleteProc", "done"},
                    session : SessionOrNone, left : SUBSET Sessions]
  BY DEF TypeOK, ShutdownAll
<1>2. TypeOK'
  BY <1>1 DEF TypeOK, ShutdownAll
<1>3. MainIsSane'
  BY <1>1 DEF MainIsSane, ShutdownAll
<1> QED BY <1>1, <1>2, <1>3, QuietMain, Frame, ProcessFrame, SignalFrame DEF ShutdownAll

LEMMA SyncShutdownStep ==
    ASSUME IInv, NEW s \in Sessions, SyncShutdown(s)
    PROVE  IInv'
<1> USE DEF IInv, registry, expiration, computations, threads, outside
<1>1. /\ main.at = "next" /\ main'.at = "waitIdle" /\ main'.session = s
      /\ s \in main.left /\ main'.left = main.left \ {s} /\ main.left \in SUBSET Sessions
  BY DEF TypeOK, SyncShutdown
<1>2. /\ mShuttingDown \in [Sessions -> BOOLEAN]
      /\ mShuttingDown' = [mShuttingDown EXCEPT ![s] = TRUE]
  BY DEF TypeOK, SyncShutdown
<1>3. TypeOK'
  BY <1>1, <1>2 DEF TypeOK, SyncShutdown, SessionOrNone
<1>4. MainIsSane'
  BY <1>1, <1>2 DEF MainIsSane, SyncShutdown
<1> QED BY <1>1, <1>3, <1>4, QuietMain, Frame, ProcessFrame, SignalFrame DEF SyncShutdown

\* Who waited for a session to be idle, with mShuttingDown set, claims it.
LEMMA WaitOperationCompleteStep ==
    ASSUME IInv, WaitOperationComplete
    PROVE  IInv'
<1> DEFINE s == main.session
<1> USE DEF IInv, sessions, registry, members, state, expiration, computations, threads, outside
<1>1. main.at = "waitIdle" /\ s \in Sessions /\ s \in mSessions /\ mShuttingDown[s]
  BY DEF TypeOK, MainIsSane, WaitOperationComplete
<1>2. /\ main'.at = IF mState[s] = "Busy" THEN "next" ELSE "join"
      /\ main'.session = s /\ main'.left = main.left
      /\ main' \in [at : {"running", "closed", "next", "waitIdle", "join", "deleteProc", "done"},
                    session : SessionOrNone, left : SUBSET Sessions]
  BY DEF TypeOK, WaitOperationComplete
<1>3. TypeOK'
  BY <1>2 DEF TypeOK, WaitOperationComplete
<1>4. MainIsSane'
  BY <1>1, <1>2 DEF MainIsSane, WaitOperationComplete
<1>5. OperationsAreSane' /\ OneClaim' /\ ClaimIsBusy' /\ BusyIsClaimed'
  <2>1. CASE mState[s] = "Busy"
    BY <1>1, <1>2, <2>1, QuietMain DEF WaitOperationComplete
  <2>2. CASE mState[s] # "Busy"
    <3>1. \A w \in Workers : ~Claims(w, s)
      <4>1. ~Claims(Main, s)
        BY <1>1, NamesAssumption DEF Claims, Active, OperationsAreSane
      <4> QED BY <1>1, <2>2, <4>1 DEF ClaimIsBusy
    <3>2. \A t \in Sessions, w \in Workers :
              Claims(w, t)' <=> Claims(w, t) \/ (w = Main /\ t = s)
      BY <1>1, <1>2, <2>2 DEF Claims, Active, WaitOperationComplete
    <3>3. OperationsAreSane'
      BY <1>1 DEF OperationsAreSane, WaitOperationComplete
    <3>4. OneClaim'
      BY <3>1, <3>2 DEF OneClaim
    <3>5. ClaimIsBusy'
      BY <2>2, <3>1, <3>2 DEF ClaimIsBusy, WaitOperationComplete
    <3>6. BusyIsClaimed'
      BY <3>2 DEF BusyIsClaimed, WaitOperationComplete, Workers
    <3> QED BY <3>3, <3>4, <3>5, <3>6
  <2> QED BY <2>1, <2>2
<1> QED BY <1>3, <1>4, <1>5, Frame, ProcessFrame, SignalFrame DEF WaitOperationComplete

LEMMA ShutdownJoinsStep ==
    ASSUME IInv, ShutdownJoins
    PROVE  IInv'
<1> DEFINE s == main.session
<1> USE DEF IInv, registry, state, expiration, computations, outside
<1>1. main.at = "join" /\ s \in Sessions /\ s # NoThread /\ s \in mSessions /\ mShuttingDown[s]
  BY NamesAssumption DEF TypeOK, MainIsSane, ShutdownJoins
<1>2. Main \in Workers /\ Main \notin Requests /\ operation[Main].at \in {"none", "done"}
  BY <1>1, NamesAssumption DEF Workers, OperationsAreSane
<1>3. main'.at = "deleteProc" /\ main'.session = s /\ main'.left = main.left
  BY DEF TypeOK, ShutdownJoins
<1>4. /\ operation' \in [Workers -> SessionOperation]
      /\ operation'[Main].at = "stop" /\ operation'[Main].session = s
      /\ \A v \in Workers \ {Main} : operation'[v] = operation[v]
  <2>1. operation'[Main] = [NoOperation EXCEPT !.at = "stop", !.session = s]
    BY <1>2 DEF TypeOK, ShutdownJoins
  <2>2. operation'[Main] \in SessionOperation /\ operation'[Main].at = "stop"
        /\ operation'[Main].session = s
    BY <1>1, <2>1 DEF NoOperation, SessionOperation, OperationPlaces, SessionOrNone
  <2> QED BY <1>2, <2>2 DEF TypeOK, ShutdownJoins
<1>5. /\ mOperationThread \in [Sessions -> Requests \cup {NoThread}]
      /\ mOperationThread' = [mOperationThread EXCEPT ![s] = NoThread]
  BY DEF TypeOK, ShutdownJoins
<1>6. Claims(Main, s) /\ object[s] = "alive"
  BY <1>1 DEF Claims, ReferencedIsAlive, Referenced
<1>7. \A w \in Workers : ~Active(w, s)
  <2>1. \A w \in Workers : Active(w, s) => w = Main
    BY <1>1, <1>2, <1>6 DEF OneClaim, Claims
  <2>2. ~Active(Main, s)
    BY <1>2 DEF Active
  <2> QED BY <2>1, <2>2
<1>8. \A t \in Sessions, w \in Workers : Active(w, t)' <=> Active(w, t) \/ (w = Main /\ t = s)
  BY <1>2, <1>4 DEF Active
<1>9. \A t \in Sessions, w \in Workers : Claims(w, t)' <=> Claims(w, t)
  BY <1>1, <1>2, <1>3, <1>6, <1>8 DEF Claims, ShutdownJoins
<1>10. TypeOK'
  <2>1. main' \in [at : {"running", "closed", "next", "waitIdle", "join", "deleteProc", "done"},
                   session : SessionOrNone, left : SUBSET Sessions]
    BY DEF TypeOK, ShutdownJoins
  <2> QED BY <1>4, <1>5, <2>1 DEF TypeOK, ShutdownJoins
<1> HIDE DEF s
<1>11. OperationsAreSane'
  BY <1>1, <1>2, <1>3, <1>4 DEF OperationsAreSane, ShutdownJoins, Workers
<1>12. MainIsSane'
  BY <1>1, <1>3 DEF MainIsSane, ShutdownJoins
<1>13. ActiveIsAlive'
  BY <1>6, <1>8 DEF ActiveIsAlive, ShutdownJoins
<1>14. OneClaim' /\ ClaimIsBusy' /\ BusyIsClaimed'
  BY <1>9, ClaimsKept DEF ShutdownJoins
<1>15. HandleIsKept'
  BY <1>2, <1>5, <1>7, <1>8 DEF HandleIsKept, ShutdownJoins, Workers
<1>16. DeletedIsStopped'
  BY <1>4 DEF DeletedIsStopped, ShutdownJoins
<1>17. NoOrphan'
  BY <1>2, <1>4 DEF NoOrphan, ShutdownJoins
<1> QED BY <1>10, <1>11, <1>12, <1>13, <1>14, <1>15, <1>16, <1>17, Frame, ProcessFrame,
           SignalFrame DEF ShutdownJoins

LEMMA ShutdownReturnsStep ==
    ASSUME IInv, ShutdownReturns
    PROVE  IInv'
<1> USE DEF IInv, sessions, registry, members, state, expiration, computations, threads, outside
<1>1. /\ main.at = "deleteProc" /\ operation[Main].at = "done"
      /\ main'.at = "next" /\ main'.left = main.left
      /\ main' \in [at : {"running", "closed", "next", "waitIdle", "join", "deleteProc", "done"},
                    session : SessionOrNone, left : SUBSET Sessions]
  BY DEF TypeOK, ShutdownReturns, OperationAt
<1>2. TypeOK'
  BY <1>1 DEF TypeOK, ShutdownReturns
<1>3. MainIsSane'
  BY <1>1 DEF MainIsSane, ShutdownReturns
<1> QED BY <1>1, <1>2, <1>3, QuietMain, Frame, ProcessFrame, SignalFrame DEF ShutdownReturns

LEMMA AllShutDownStep ==
    ASSUME IInv, AllShutDown
    PROVE  IInv'
<1> USE DEF IInv, sessions, registry, members, state, expiration, computations, threads, outside
<1>1. /\ main.at = "next" /\ main'.at = "done"
      /\ main' \in [at : {"running", "closed", "next", "waitIdle", "join", "deleteProc", "done"},
                    session : SessionOrNone, left : SUBSET Sessions]
  BY DEF TypeOK, AllShutDown
<1>2. TypeOK'
  BY <1>1 DEF TypeOK, AllShutDown
<1>3. MainIsSane'
  BY <1>1 DEF MainIsSane
<1> QED BY <1>1, <1>2, <1>3, QuietMain, Frame, ProcessFrame, SignalFrame DEF AllShutDown

-----------------------------------------------------------------------------
(* The message handler thread, and expirationProc.                         *)

LEMMA ClientConnectsStep ==
    ASSUME IInv, NEW s \in Sessions, ClientConnects(s)
    PROVE  IInv'
<1> USE DEF IInv, sessions, registry, members, state, expiration, computations, threads, outside
<1>1. s # NoThread
  BY NamesAssumption
<1>2. /\ handler.at = "idle" /\ handler.session = NoThread
      /\ handler' = [at |-> "connected", session |-> s, welcomed |-> handler.welcomed]
  BY DEF TypeOK, ClientsAreExpected, ClientConnects
<1>3. TypeOK'
  BY <1>2 DEF TypeOK, ClientConnects, SessionOrNone
<1>4. ReferencedIsAlive'
  BY <1>2 DEF ReferencedIsAlive, Referenced, ClientConnects
<1>5. Answered(s)
  BY <1>1 DEF Answered, ClientConnects, OperationsAreSane, At, Workers
<1>6. ClientsAreExpected'
  BY <1>1, <1>2, <1>5 DEF ClientsAreExpected, Answered, ClientConnects
<1>7. WelcomedIsStopped'
  BY <1>2 DEF WelcomedIsStopped, ClientConnects
<1> QED BY <1>3, <1>4, <1>6, <1>7, Frame, ClaimFrame, ProcessFrame, SignalFrame
        DEF ClientConnects

LEMMA HandleConnectionStep ==
    ASSUME IInv, HandleConnection
    PROVE  IInv'
<1> DEFINE s == handler.session
           active == s \in mSessions /\ mState[s] # "Defunct"
<1> USE DEF IInv, sessions, registry, members, state, expiration, computations, threads
<1>1. handler.at = "connected" /\ s # NoThread
  BY DEF ClientsAreExpected, HandleConnection
<1>2. handler' = [at |-> IF active THEN "stop" ELSE "idle",
                  session |-> IF active THEN s ELSE NoThread, welcomed |-> handler.welcomed]
  <2>1. PICK h : h = handler /\ h \in [at : {"idle", "connected", "stop", "join"},
                    session : SessionOrNone, welcomed : SUBSET Sessions]
    BY DEF TypeOK
  <2>2. handler' = [h EXCEPT !.at = IF active THEN "stop" ELSE "idle",
                             !.session = IF active THEN @ ELSE NoThread]
    BY <2>1 DEF HandleConnection
  <2> HIDE DEF active
  <2> QED BY <2>1, <2>2
<1>3. events' \in [Sessions -> SUBSET {"sessionExpired", "sessionOperationFailed", "kicked"}]
  <2>1. CASE active
    BY <2>1 DEF TypeOK, HandleConnection
  <2>2. CASE ~active
    BY <2>2, EventTyped DEF HandleConnection
  <2> QED BY <2>1, <2>2
<1>4. TypeOK'
  BY <1>2, <1>3 DEF TypeOK, HandleConnection, SessionOrNone
<1>5. ReferencedIsAlive'
  BY <1>2 DEF ReferencedIsAlive, Referenced, HandleConnection
<1>6. ClientsAreExpected'
  BY <1>1, <1>2 DEF ClientsAreExpected, Answered, HandleConnection
<1>7. WelcomedIsStopped'
  BY <1>2 DEF WelcomedIsStopped, HandleConnection
<1> QED BY <1>4, <1>5, <1>6, <1>7, Frame, ClaimFrame, ProcessFrame, SignalFrame
        DEF HandleConnection

LEMMA StopExpirationStep ==
    ASSUME IInv, StopExpiration
    PROVE  IInv'
<1> USE DEF IInv, registry, state, computations, threads, outside
<1>1. /\ handler.at = "stop" /\ handler.session \in SessionOrNone
      /\ handler' = [at |-> "join", session |-> handler.session, welcomed |-> handler.welcomed]
  BY DEF TypeOK, StopExpiration
<1>2. TypeOK'
  BY <1>1 DEF TypeOK, StopExpiration
<1>3. ReferencedIsAlive'
  BY <1>1 DEF ReferencedIsAlive, Referenced, StopExpiration
<1>4. ClientsAreExpected'
  BY <1>1 DEF ClientsAreExpected, Answered, StopExpiration
<1>5. WelcomedIsStopped'
  BY <1>1 DEF WelcomedIsStopped, StopExpiration
<1> QED BY <1>2, <1>3, <1>4, <1>5, Frame, ClaimFrame, ProcessFrame, SignalFrame
        DEF StopExpiration

LEMMA JoinExpirationStep ==
    ASSUME IInv, JoinExpiration
    PROVE  IInv'
<1> USE DEF IInv, sessions, registry, members, state, expiration, computations, threads, outside
<1>1. /\ handler.at = "join" /\ handler.session \in Sessions
      /\ handler'.at = "idle" /\ handler'.session = NoThread
      /\ handler'.welcomed = handler.welcomed \cup {handler.session}
      /\ expirer[handler.session] # "waiting"
  BY DEF TypeOK, ClientsAreExpected, JoinExpiration, SessionOrNone
<1>2. TypeOK'
  BY <1>1 DEF TypeOK, JoinExpiration, SessionOrNone
<1>3. ReferencedIsAlive'
  BY <1>1 DEF ReferencedIsAlive, Referenced, JoinExpiration
<1>4. ClientsAreExpected'
  BY <1>1 DEF ClientsAreExpected, Answered, JoinExpiration
<1>5. WelcomedIsStopped'
  BY <1>1 DEF WelcomedIsStopped, JoinExpiration
<1> QED BY <1>2, <1>3, <1>4, <1>5, Frame, ClaimFrame, ProcessFrame, SignalFrame
        DEF JoinExpiration

LEMMA ExpireStep ==
    ASSUME IInv, NEW s \in Sessions, Expire(s) \/ ExpirationStopped(s)
    PROVE  IInv'
<1> USE DEF IInv, registry, state, computations, threads, others, services, outside
<1>1. /\ expirer \in [Sessions -> {"none", "waiting", "ended"}]
      /\ expirer' = [expirer EXCEPT ![s] = "ended"]
  BY DEF TypeOK, Expire, ExpirationStopped
<1>2. TypeOK'
  BY <1>1, EventTyped DEF TypeOK, Expire, ExpirationStopped
<1>3. WelcomedIsStopped' /\ ExpirerIsJoined'
  BY <1>1 DEF WelcomedIsStopped, ExpirerIsJoined, Expire, ExpirationStopped, TypeOK
<1> QED BY <1>2, <1>3, Frame, ClaimFrame, ProcessFrame, SignalFrame
        DEF Expire, ExpirationStopped

-----------------------------------------------------------------------------
(* ~Session, and processes that end.                                       *)

LEMMA DestroySessionStep ==
    ASSUME IInv, NEW s \in Sessions, DestroySession(s)
    PROVE  IInv'
<1> USE DEF IInv, computations, threads, others, services, outside
<1>1. /\ object \in [Sessions -> {"none", "alive", "destroying", "removing", "gone"}]
      /\ object' = [object EXCEPT ![s] = "destroying"] /\ object[s] = "alive"
  BY DEF TypeOK, DestroySession
<1>2. TypeOK'
  BY <1>1 DEF TypeOK, DestroySession
<1>3. MainIsSane'
  BY DEF MainIsSane, DestroySession, TypeOK
<1>4. CreatedOnce'
  BY <1>1 DEF CreatedOnce, DestroySession
<1>5. ReferencedIsAlive'
  <2>1. \A t \in Sessions : Referenced(t)' <=> Referenced(t)
    BY DEF Referenced, DestroySession
  <2> QED BY <1>1, <2>1 DEF ReferencedIsAlive, DestroySession
<1>6. ActiveIsAlive'
  BY <1>1 DEF ActiveIsAlive, Active, DestroySession
<1>7. FreshIsFree' /\ NoOrphan' /\ ExpirerIsJoined'
  BY <1>1 DEF FreshIsFree, NoOrphan, ExpirerIsJoined, DestroySession
<1> QED BY <1>2, <1>3, <1>4, <1>5, <1>6, <1>7, Frame, ClaimFrame, ProcessFrame, SignalFrame
        DEF DestroySession

\* Nobody can have started an operation that ~Session does not join: whoever
\* has started one holds a pointer until the handle stands for it.
LEMMA DestroyComputationsStep ==
    ASSUME IInv, ~aborted, NEW s \in Sessions, DestroyComputations(s)
    PROVE  IInv'
<1> USE DEF IInv, members, state, expiration, threads, others, services, outside
<1>1. /\ object \in [Sessions -> {"none", "alive", "destroying", "removing", "gone"}]
      /\ object' = [object EXCEPT ![s] = "removing"] /\ object[s] = "destroying"
      /\ expirer[s] # "waiting"
  BY DEF TypeOK, DestroyComputations, DestroyUnjoined
<1>2. process' \in [Sessions -> [Comps -> ProcessState]] /\ NothingStarts
  BY ShutdownStops DEF DestroyComputations, DestroyUnjoined
<1>3. TypeOK'
  BY <1>1, <1>2 DEF TypeOK, DestroyComputations, DestroyUnjoined
<1>4. CreatedOnce'
  BY <1>1 DEF CreatedOnce, DestroyComputations, DestroyUnjoined
<1>5. ~Referenced(s)
  BY <1>1 DEF ReferencedIsAlive
<1>6. ReferencedIsAlive'
  <2>1. \A t \in Sessions : Referenced(t)' <=> Referenced(t)
    BY DEF Referenced, DestroyComputations, DestroyUnjoined
  <2> QED BY <1>1, <1>5, <2>1 DEF ReferencedIsAlive
<1>7. \A w \in Workers : ~Active(w, s)
  <2> SUFFICES ASSUME NEW w \in Workers, Active(w, s) PROVE FALSE
    OBVIOUS
  <2>1. w # Main
    BY <1>5 DEF Active, OperationsAreSane, MainIsSane, Referenced
  <2>2. w \in Requests /\ w # NoThread
    BY <2>1, NamesAssumption DEF Workers
  <2>3. request[w].at = "done"
    BY <1>5, <2>2 DEF Active, OperationsAreSane, Referenced
  <2>4. mOperationThread[s] = w
    BY <2>2, <2>3 DEF HandleIsKept
  <2> QED BY <2>2, <2>4 DEF DestroyComputations, Ended, Joinable, Active
<1>8. ActiveIsAlive'
  BY <1>1, <1>7 DEF ActiveIsAlive, Active, DestroyComputations, DestroyUnjoined
<1>9. FreshIsFree' /\ ExpirerIsJoined'
  BY <1>1 DEF FreshIsFree, ExpirerIsJoined, DestroyComputations, DestroyUnjoined
<1>10. DeletedIsStopped'
  BY <1>2 DEF DeletedIsStopped, NothingStarts, DestroyComputations, DestroyUnjoined, TypeOK,
              SessionOperation
<1>11. DefunctIsStopped'
  BY <1>2 DEF DefunctIsStopped, NothingStarts, DestroyComputations, DestroyUnjoined
<1>12. NoOrphan'
  BY <1>1, <1>2 DEF NoOrphan, NothingStarts, DestroyComputations, DestroyUnjoined
<1> QED BY <1>3, <1>4, <1>6, <1>8, <1>9, <1>10, <1>11, <1>12, Frame, ClaimFrame, ProcessFrame,
           SignalFrame DEF DestroyComputations, DestroyUnjoined

LEMMA SessionDestroyedStep ==
    ASSUME IInv, NEW s \in Sessions, SessionDestroyed(s)
    PROVE  IInv'
<1> USE DEF IInv, members, state, expiration, computations, threads, others, services, outside
<1>1. /\ object \in [Sessions -> {"none", "alive", "destroying", "removing", "gone"}]
      /\ object' = [object EXCEPT ![s] = "gone"] /\ object[s] = "removing"
  BY DEF TypeOK, SessionDestroyed, DestroyedAtOnce
<1>2. TypeOK'
  BY <1>1 DEF TypeOK, SessionDestroyed, DestroyedAtOnce
<1>3. CreatedOnce'
  BY <1>1 DEF CreatedOnce, SessionDestroyed, DestroyedAtOnce
<1>4. ReferencedIsAlive'
  <2>1. \A t \in Sessions : Referenced(t)' <=> Referenced(t)
    BY DEF Referenced, SessionDestroyed, DestroyedAtOnce
  <2> QED BY <1>1, <2>1 DEF ReferencedIsAlive
<1>5. \A w \in Workers : ~Active(w, s)
  BY <1>1 DEF ActiveIsAlive
<1>6. ActiveIsAlive'
  BY <1>1, <1>5 DEF ActiveIsAlive, Active, SessionDestroyed, DestroyedAtOnce
<1>7. FreshIsFree' /\ ExpirerIsJoined'
  BY <1>1 DEF FreshIsFree, ExpirerIsJoined, SessionDestroyed, DestroyedAtOnce
<1>8. NoOrphan'
  <2>1. \A c \in Comps : process[s][c] \notin {"Spawned", "Terminating"}
    BY <1>5 DEF NoOrphan, SessionDestroyed, Active
  <2> QED BY <1>1, <2>1 DEF NoOrphan, SessionDestroyed, DestroyedAtOnce
<1> QED BY <1>2, <1>3, <1>4, <1>6, <1>7, <1>8, Frame, ClaimFrame, ProcessFrame, SignalFrame
        DEF SessionDestroyed, DestroyedAtOnce

LEMMA ProcessEndsStep ==
    ASSUME IInv, NEW s \in Sessions, NEW c \in Comps, ProcessEnds(s, c)
    PROVE  IInv'
<1> USE DEF IInv, registry, members, state, expiration, threads, others, services, outside
<1>1. /\ process \in [Sessions -> [Comps -> ProcessState]]
      /\ process' = [process EXCEPT ![s][c] = "Terminated"]
  BY DEF TypeOK, ProcessEnds
<1>2. process' \in [Sessions -> [Comps -> ProcessState]] /\ NothingStarts
  BY <1>1 DEF ProcessState, NothingStarts
<1>3. TypeOK'
  BY <1>2 DEF TypeOK, ProcessEnds
<1>4. DeletedIsStopped'
  BY <1>2 DEF DeletedIsStopped, NothingStarts, ProcessEnds
<1>5. DefunctIsStopped'
  BY <1>2 DEF DefunctIsStopped, NothingStarts, ProcessEnds
<1>6. NoOrphan'
  BY <1>2 DEF NoOrphan, NothingStarts, ProcessEnds
<1> QED BY <1>3, <1>4, <1>5, <1>6, Frame, ClaimFrame, ProcessFrame, SignalFrame
        DEF ProcessEnds

-----------------------------------------------------------------------------
(* The invariant holds.                                                    *)

LEMMA InitIInv == Init => IInv
<1> SUFFICES ASSUME Init PROVE IInv
  OBVIOUS
<1> USE DEF Init
<1>1. NoRequest \in HttpRequest /\ NoOperation \in SessionOperation
  BY DEF NoRequest, HttpRequest, RequestPlaces, NoOperation, SessionOperation, OperationPlaces,
         SessionOrNone
<1>2. \A r \in Requests : request[r] = NoRequest
  OBVIOUS
<1>3. \A w \in Workers : operation[w] = NoOperation
  OBVIOUS
<1>4. NoRequest.at = "idle" /\ NoRequest.op = "none" /\ NoRequest.session = NoThread
  BY DEF NoRequest
<1>5. NoOperation.at = "none" /\ NoOperation.session = NoThread
  BY DEF NoOperation
<1>6. TypeOK
  BY <1>1, EmptySeq DEF TypeOK, SessionState, ProcessState, SessionOrNone
<1>7. RequestsAreSane
  BY <1>2, <1>4 DEF RequestsAreSane
<1>8. OperationsAreSane
  BY <1>2, <1>3, <1>4, <1>5 DEF OperationsAreSane, Workers
<1>9. MainIsSane /\ FreshIsFree /\ WelcomedIsStopped /\ ExpirerIsJoined /\ DefunctIsStopped
      /\ NoOrphan
  BY DEF MainIsSane, FreshIsFree, WelcomedIsStopped, ExpirerIsJoined, DefunctIsStopped, NoOrphan
<1>10. CreatedOnce
  BY <1>2, <1>4, NamesAssumption DEF CreatedOnce
<1>11. ReferencedIsAlive
  BY <1>2, <1>4, NamesAssumption DEF ReferencedIsAlive, Referenced
<1>12. \A w \in Workers, s \in Sessions : ~Active(w, s) /\ ~Claims(w, s)
  BY <1>2, <1>3, <1>4, <1>5 DEF Active, Claims
<1>13. ActiveIsAlive /\ OneClaim /\ ClaimIsBusy /\ BusyIsClaimed /\ HandleIsKept
  BY <1>12 DEF ActiveIsAlive, OneClaim, ClaimIsBusy, BusyIsClaimed, HandleIsKept, Workers
<1>14. DeletedIsStopped
  BY <1>3, <1>5 DEF DeletedIsStopped
<1>15. OneSignals /\ SentGoIsRight
  BY <1>2, <1>4 DEF OneSignals, Signals, SentGoIsRight
<1>16. GoThenUpdates
  BY DEF GoThenUpdates
<1>17. ClientsAreExpected
  BY DEF ClientsAreExpected
<1> QED BY <1>6, <1>7, <1>8, <1>9, <1>10, <1>11, <1>13, <1>14, <1>15, <1>16, <1>17 DEF IInv

LEMMA CallKeepsIInv ==
    ASSUME IInv, Call
    PROVE  IInv'
<1>1. ASSUME NEW r \in Requests, NEW s \in Sessions, NEW config \in Configs,
             Create(r, s, config)
      PROVE  IInv'
  BY <1>1, CreateStep
<1>2. ASSUME NEW r \in Requests, NEW s \in Sessions, NEW config \in Configs,
             Modify(r, s, config)
      PROVE  IInv'
  <2>1. config \in SUBSET Comps
    BY ConfigsAssumption
  <2> QED BY <1>2, <2>1, AskStep DEF Modify
<1>3. ASSUME NEW r \in Requests, NEW s \in Sessions, Delete(r, s)
      PROVE  IInv'
  <2>1. {} \in SUBSET Comps
    OBVIOUS
  <2> QED BY <1>3, <2>1, AskStep DEF Delete
<1>4. ASSUME NEW r \in Requests, NEW s \in Sessions, Signal(r, s)
      PROVE  IInv'
  <2>1. {} \in SUBSET Comps
    OBVIOUS
  <2> QED BY <1>4, <2>1, AskStep DEF Signal
<1> QED BY <1>1, <1>2, <1>3, <1>4, CloseStep, StopRunningStep DEF Call

LEMMA RequestStepKeepsIInv ==
    ASSUME IInv, ~aborted, NEW r \in Requests, RequestStep(r)
    PROVE  IInv'
<1>1. CASE \E c \in Comps : SignalComputation(r, c)
  BY <1>1, SignalComputationStep
<1>2. CASE SendControl(r, "go") \/ SendControl(r, "update")
  BY <1>2, SendControlStep
<1> QED BY <1>1, <1>2, RegisterStep, InitializeSessionStep, SetExpirationTimeStep,
           EraseSessionStep, GetSessionStep, AcceptStep, JoinOperationStep, StartOperationStep,
           AssignOperationStep, CheckIsFreeStep, SignalAllStep, SuspendStep, SignalReturnsStep
        DEF RequestStep

LEMMA UpdateStepKeepsIInv ==
    ASSUME IInv, NEW r \in Requests, UpdateStep(r)
    PROVE  IInv'
BY ApplyNewConfigStep, DefunctStoppedStep, UpdateFailsStep, StartNewComputationStep,
   InsertComputationStep, UpdateEndsStep DEF UpdateStep

LEMMA DeleteStepKeepsIInv ==
    ASSUME IInv, NEW w \in Workers, DeleteStep(w)
    PROVE  IInv'
BY StopComputationsStep, ComputationsStoppedStep, RetireStep DEF DeleteStep

LEMMA MainStepKeepsIInv ==
    ASSUME IInv, MainStep
    PROVE  IInv'
BY ShutdownAllStep, SyncShutdownStep, WaitOperationCompleteStep, ShutdownJoinsStep,
   ShutdownReturnsStep, AllShutDownStep DEF MainStep

LEMMA NextIInv == IInv /\ [Next]_vars => IInv'
<1> SUFFICES ASSUME IInv, [Next]_vars PROVE IInv'
  OBVIOUS
<1>1. CASE UNCHANGED vars
  <2> USE <1>1 DEF IInv, vars, sessions, registry, members, state, expiration, computations,
                   threads, services, outside
  <2>1. TypeOK'
    BY DEF TypeOK
  <2> QED BY <2>1, Frame, ClaimFrame, ProcessFrame, SignalFrame
<1>2. ASSUME ~aborted, Step PROVE IInv'
  <2>1. ASSUME NEW s \in Sessions,
               ExpirerStep(s) \/ DestroyStep(s) \/ \E c \in Comps : ProcessEnds(s, c)
        PROVE  IInv'
    BY <1>2, <2>1, ExpireStep, DestroySessionStep, DestroyComputationsStep,
       SessionDestroyedStep, ProcessEndsStep DEF ExpirerStep, DestroyStep
  <2>2. HandlerStep => IInv'
    BY HandleConnectionStep, StopExpirationStep, JoinExpirationStep DEF HandlerStep
  <2> QED BY <1>2, <2>1, <2>2, CallKeepsIInv, RequestStepKeepsIInv, UpdateStepKeepsIInv,
             DeleteStepKeepsIInv, MainStepKeepsIInv, ClientConnectsStep DEF Step
<1> QED BY <1>1, <1>2 DEF Next

LEMMA AlwaysIInv == Spec => []IInv
BY InitIInv, NextIInv, PTL DEF Spec

-----------------------------------------------------------------------------
(* What follows from it.                                                   *)

\* Every variable keeps its type, for any sessions, computations, configs
\* and requests.
THEOREM TypeCorrect == Spec => []TypeOK
<1>1. IInv => TypeOK
  BY DEF IInv
<1> QED BY <1>1, AlwaysIInv, PTL

\* One thread at most runs updateProc or deleteProc on a session, the main
\* thread included: "only one operation can be running at any time".
THEOREM OneOperationAtATime == Spec => []OneOperation
<1>1. IInv => OneOperation
  BY DEF IInv, OneOperation, OneClaim, Claims
<1> QED BY <1>1, AlwaysIInv, PTL

\* A session becomes Defunct with every computation told to stop, and none
\* is started for it afterwards (deleteProc, startNewComputation).
THEOREM DefunctStaysStopped == Spec => []DefunctIsStopped
<1>1. IInv => DefunctIsStopped
  BY DEF IInv
<1> QED BY <1>1, AlwaysIInv, PTL

\* A running process can always be found by the next operation, and ~Session
\* leaves no operation, expiration or process behind.
THEOREM NothingIsLeftBehind == Spec => []NothingOutlivesSession
<1>1. IInv => NothingOutlivesSession
  BY DEF IInv, NothingOutlivesSession, ThreadsOutlived, ActiveIsAlive, ExpirerIsJoined
<1> QED BY <1>1, AlwaysIInv, PTL

\* A computation hears "go" first and once, whatever signals race with each
\* other and however many there are (signalAll, Computation::signal).
THEOREM GoComesFirst == Spec => []GoThenUpdates
<1>1. IInv => GoThenUpdates
  BY DEF IInv
<1> QED BY <1>1, AlwaysIInv, PTL

\* A Session is never destroyed under somebody who has a pointer to it, and
\* its object outlives its operations (the shared_ptr of mSessions).
THEOREM PointersAreSafe == Spec => [](ReferencedIsAlive /\ ActiveIsAlive)
<1>1. IInv => ReferencedIsAlive /\ ActiveIsAlive
  BY DEF IInv
<1> QED BY <1>1, AlwaysIInv, PTL

\* A session whose client was welcomed does not expire any more: its
\* expiration was stopped and joined, and nobody starts another.
THEOREM WelcomedIsKept == Spec => WelcomedNeverExpires
<1>1. IInv /\ [Next]_vars =>
          [\A s \in handler.welcomed :
              "sessionExpired" \in events'[s] => "sessionExpired" \in events[s]]_vars
  <2> SUFFICES ASSUME IInv, Next, NEW s \in handler.welcomed, "sessionExpired" \in events'[s],
                      "sessionExpired" \notin events[s]
               PROVE  FALSE
    OBVIOUS
  <2>1. s \in Sessions /\ expirer[s] # "waiting" /\ events[s] # events'[s]
    BY DEF IInv, TypeOK, WelcomedIsStopped
  <2>2. ~UNCHANGED events
    BY <2>1
  <2>3. ~\E t, e : e # "sessionExpired" /\ Event(t, e)
    BY <2>1 DEF Event, IInv, TypeOK
  <2>4. ~\E t \in Sessions : Expire(t)
    BY <2>1 DEF Event, Expire, IInv, TypeOK
  <2> QED
    BY <2>2, <2>3, <2>4
    DEF Next, Step, Call, RequestStep, UpdateStep, DeleteStep, MainStep, HandlerStep, ExpirerStep,
        DestroyStep, Create, Modify, Ask, Delete, Signal, Close, StopRunning, Register,
        InitializeSession, SetExpirationTime, EraseSession, GetSession, Accept, AcceptIf,
        JoinOperation, StartOperation, AssignOperation, CheckIsFree, SignalAll, SignalAllUnlocked,
        SignalComputation, SendControl, Suspend, SignalReturns, ApplyNewConfig, DefunctStopped,
        UpdateFails, StartNewComputation, InsertComputation, Insert, UpdateEnds, StopComputations,
        StopAll, ComputationsStopped, Retire, EndDeleteProc, ShutdownAll, SyncShutdown,
        WaitOperationComplete, ShutdownJoins, ShutdownReturns, AllShutDown, ClientConnects,
        HandleConnection, StopExpiration, JoinExpiration, ExpirationStopped, DestroySession,
        DestroyComputations, DestroyUnjoined, SessionDestroyed, DestroyedAtOnce, ProcessEnds,
        vars, outside, others
<1> QED BY <1>1, AlwaysIInv, PTL DEF Spec, WelcomedNeverExpires

-----------------------------------------------------------------------------
(* NodeSessions implements SessionLifecycle.                               *)

statusFn == [s \in Sessions |-> statusOf(s)]

runningFn == [s \in Sessions |-> {c \in Comps : process[s][c] = "Spawned"}]

LEMMA StatusIs ==
    ASSUME NEW s \in Sessions
    PROVE  /\ object[s] = "none" => statusOf(s) = "absent"
           /\ object[s] = "gone" => statusOf(s) = "gone"
           /\ object[s] \notin {"none", "gone"} => statusOf(s) = mState[s]
           /\ object'[s] = "none" => statusOf(s)' = "absent"
           /\ object'[s] = "gone" => statusOf(s)' = "gone"
           /\ object'[s] \notin {"none", "gone"} => statusOf(s)' = mState'[s]
BY DEF statusOf

LEMMA PromiseInit == Init => Promise!Init
BY DEF Init, Promise!Init, statusOf

\* What does not change the objects, states and processes is a stutter.
LEMMA PromiseStutter ==
    ASSUME UNCHANGED <<object, mState, process>>
    PROVE  UNCHANGED Promise!vars
BY DEF Promise!vars, statusOf

\* A change of status of one session is one step of the promise.
LEMMA PromiseBecome ==
    ASSUME TypeOK, NEW s \in Sessions, NEW from, NEW to,
           statusOf(s) \in from, statusOf(s)' = to,
           \A t \in Sessions \ {s} : object'[t] = object[t] /\ mState'[t] = mState[t],
           UNCHANGED process
    PROVE  Promise!Become(s, from, to)
<1>1. \A t \in Sessions \ {s} : statusOf(t)' = statusOf(t)
  BY DEF statusOf
<1>2. statusFn' = [statusFn EXCEPT ![s] = to]
  BY <1>1 DEF statusFn
<1>3. runningFn' = runningFn
  BY DEF runningFn
<1> QED BY <1>2, <1>3 DEF Promise!Become, statusFn, runningFn

\* So are processes of one session that end or are told to stop.
LEMMA PromiseLose ==
    ASSUME NEW s \in Sessions, NothingStarts,
           \A t \in Sessions \ {s} : process'[t] = process[t],
           \A t \in Sessions : statusOf(t)' = statusOf(t)
    PROVE  Promise!Next
<1>1. PICK lost \in SUBSET Comps : lost = {c \in Comps : process'[s][c] # "Spawned"}
  OBVIOUS
<1>2. runningFn' = [runningFn EXCEPT ![s] = @ \ lost]
  BY <1>1 DEF runningFn, NothingStarts
<1>3. statusFn' = statusFn
  BY DEF statusFn
<1>4. Promise!Lose(s, lost)
  BY <1>2, <1>3 DEF Promise!Lose, statusFn, runningFn
<1> QED BY <1>1, <1>4 DEF Promise!Next

LEMMA PromiseShutdown ==
    ASSUME TypeOK, NEW s \in Sessions, NEW stopped, Shutdown(s, stopped), UNCHANGED mState,
           \A t \in Sessions : object'[t] = "none" <=> object[t] = "none",
           \A t \in Sessions : object'[t] = "gone" <=> object[t] = "gone"
    PROVE  Promise!Next
<1>1. \A t \in Sessions \ {s} : process'[t] = process[t]
  BY DEF TypeOK, Shutdown
<1>2. \A t \in Sessions : statusOf(t)' = statusOf(t)
  BY DEF statusOf
<1> QED BY <1>1, <1>2, ShutdownStops, PromiseLose

LEMMA PromiseRegister ==
    ASSUME IInv, NEW r \in Requests, Register(r)
    PROVE  Promise!Next
<1>1. PICK s \in Sessions : request[r].session = s /\ request[r].at = "register"
  BY DEF IInv, TypeOK, HttpRequest, SessionOrNone, RequestsAreSane, Register, At
<1>2. object[s] = "none" /\ mState[s] = "Free"
  BY <1>1 DEF IInv, CreatedOnce, FreshIsFree
<1>3. /\ object'[s] = "alive" /\ mState' = mState /\ process' = process
      /\ \A t \in Sessions \ {s} : object'[t] = object[t]
  BY <1>1 DEF IInv, TypeOK, Register, members, state, computations
<1>4. statusOf(s) \in {"absent"} /\ statusOf(s)' = "Free"
  BY <1>1, <1>2, <1>3, StatusIs
<1>5. Promise!Create(s)
  BY <1>3, <1>4, PromiseBecome DEF Promise!Create, IInv
<1> QED BY <1>1, <1>5 DEF Promise!Next

LEMMA PromiseAccept ==
    ASSUME IInv, NEW r \in Requests, Accept(r)
    PROVE  Promise!Next \/ UNCHANGED Promise!vars
<1> USE DEF Accept, AcceptIf, registry, computations
<1>1. CASE mState' = mState
  BY <1>1, PromiseStutter
<1>2. CASE mState' # mState
  <2>1. PICK s \in Sessions : request[r].session = s /\ request[r].at = "accept"
    BY DEF IInv, TypeOK, HttpRequest, SessionOrNone, RequestsAreSane, At
  <2>2. object[s] = "alive" /\ mState[s] = "Free"
    BY <1>2, <2>1 DEF IInv, ReferencedIsAlive, Referenced, OperationState
  <2>3. /\ mState'[s] = "Busy" /\ object' = object /\ process' = process
        /\ \A t \in Sessions \ {s} : mState'[t] = mState[t]
    BY <1>2, <2>1 DEF IInv, TypeOK
  <2>4. statusOf(s) \in {"Free"} /\ statusOf(s)' = "Busy"
    BY <2>1, <2>2, <2>3, StatusIs
  <2>5. Promise!BeginOperation(s)
    BY <2>3, <2>4, PromiseBecome DEF Promise!BeginOperation, IInv
  <2> QED BY <2>1, <2>5 DEF Promise!Next
<1> QED BY <1>1, <1>2

LEMMA PromiseStart ==
    ASSUME IInv, NEW w \in Requests, NEW c \in Comps, StartNewComputation(w, c)
    PROVE  Promise!Next
<1> USE DEF registry, members, state
<1>1. w \in Workers /\ w # Main /\ operation[w].at = "start"
  BY NamesAssumption DEF StartNewComputation, OperationAt, Workers
<1>2. PICK s \in Sessions : operation[w].session = s /\ Active(w, s)
  BY <1>1 DEF IInv, TypeOK, OperationsAreSane, SessionOperation, SessionOrNone, Active
<1>3. mState[s] = "Busy" /\ object[s] \in {"alive", "destroying"}
  BY <1>1, <1>2 DEF IInv, ClaimIsBusy, Claims, ActiveIsAlive
<1>4. /\ UNCHANGED <<object, mState>>
      /\ \A t \in Sessions, d \in Comps :
            process'[t][d] = IF t = s /\ d = c THEN "Spawned" ELSE process[t][d]
  BY <1>2 DEF IInv, TypeOK, StartNewComputation
<1>5. statusFn[s] = "Busy" /\ statusFn' = statusFn
  BY <1>2, <1>3, <1>4 DEF statusFn, statusOf
<1>6. runningFn' = [runningFn EXCEPT ![s] = @ \cup {c}]
  <2>1. runningFn[s] \cup {c} = {d \in Comps : process'[s][d] = "Spawned"}
    BY <1>4 DEF runningFn
  <2>2. \A t \in Sessions \ {s} :
            runningFn[t] = {d \in Comps : process'[t][d] = "Spawned"}
    BY <1>4 DEF runningFn
  <2>3. runningFn' = [t \in Sessions |-> {d \in Comps : process'[t][d] = "Spawned"}]
    BY DEF runningFn
  <2> QED BY <2>1, <2>2, <2>3 DEF runningFn
<1>7. Promise!Start(s, c)
  BY <1>5, <1>6 DEF Promise!Start, statusFn, runningFn
<1> QED BY <1>2, <1>7 DEF Promise!Next

LEMMA PromiseUpdateEnds ==
    ASSUME IInv, NEW w \in Requests, UpdateEnds(w)
    PROVE  Promise!Next
<1> USE DEF registry, computations
<1>1. w \in Workers /\ w # Main /\ operation[w].at \in {"free", "start"}
  BY NamesAssumption DEF UpdateEnds, OperationAt, Workers
<1>2. PICK s \in Sessions : operation[w].session = s /\ Active(w, s)
  BY <1>1 DEF IInv, TypeOK, OperationsAreSane, SessionOperation, SessionOrNone, Active
<1>3. mState[s] = "Busy" /\ object[s] \in {"alive", "destroying"}
  BY <1>1, <1>2 DEF IInv, ClaimIsBusy, Claims, ActiveIsAlive
<1>4. /\ mState'[s] = "Free" /\ UNCHANGED <<object, process>>
      /\ \A t \in Sessions \ {s} : mState'[t] = mState[t]
  BY <1>2, <1>3 DEF IInv, TypeOK, UpdateEnds
<1>5. statusOf(s) \in {"Busy"} /\ statusOf(s)' = "Free"
  BY <1>2, <1>3, <1>4, StatusIs
<1>6. Promise!EndUpdate(s)
  BY <1>2, <1>4, <1>5, PromiseBecome DEF Promise!EndUpdate, IInv
<1> QED BY <1>2, <1>6 DEF Promise!Next

\* The main thread may find the session Defunct already.
LEMMA PromiseRetire ==
    ASSUME IInv, NEW w \in Workers, Retire(w)
    PROVE  Promise!Next \/ UNCHANGED Promise!vars
<1> USE DEF Retire, EndDeleteProc, registry, computations
<1>1. operation[w].at = "retire"
  BY DEF OperationAt
<1>2. PICK s \in Sessions : operation[w].session = s /\ Active(w, s)
  BY <1>1 DEF IInv, TypeOK, OperationsAreSane, SessionOperation, SessionOrNone, Active
<1>3. /\ object[s] \in {"alive", "destroying"} /\ mState[s] \in SessionState
      /\ \A c \in Comps : process[s][c] # "Spawned"
  BY <1>1, <1>2 DEF IInv, TypeOK, ActiveIsAlive, DeletedIsStopped
<1>4. /\ mState' = [mState EXCEPT ![s] = "Defunct"] /\ UNCHANGED <<object, process>>
      /\ mState \in [Sessions -> SessionState]
  BY <1>2 DEF IInv, TypeOK
<1>5. CASE mState[s] = "Defunct"
  <2>1. mState' = mState
    BY <1>4, <1>5
  <2> QED BY <1>4, <2>1, PromiseStutter
<1>6. CASE mState[s] # "Defunct"
  <2>1. statusOf(s) \in {"Free", "Busy"} /\ statusOf(s)' = "Defunct"
    BY <1>2, <1>3, <1>4, <1>6, StatusIs DEF SessionState
  <2>2. Promise!Become(s, {"Free", "Busy"}, "Defunct")
    BY <1>2, <1>4, <2>1, PromiseBecome DEF IInv
  <2>3. runningFn[s] = {}
    BY <1>2, <1>3 DEF runningFn
  <2>4. Promise!Retire(s)
    BY <2>2, <2>3 DEF Promise!Retire, runningFn
  <2> QED BY <1>2, <2>4 DEF Promise!Next
<1> QED BY <1>5, <1>6

LEMMA PromiseForget ==
    ASSUME IInv, NEW s \in Sessions, SessionDestroyed(s)
    PROVE  Promise!Next
<1> USE DEF SessionDestroyed, DestroyedAtOnce, members, state, computations
<1>1. /\ object[s] = "removing" /\ object'[s] = "gone" /\ UNCHANGED <<mState, process>>
      /\ \A t \in Sessions \ {s} : object'[t] = object[t]
  BY DEF IInv, TypeOK
<1>2. \A w \in Workers : ~Active(w, s)
  BY <1>1 DEF IInv, ActiveIsAlive
<1>3. mState[s] \in {"Free", "Defunct"}
  <2>1. \A r \in Requests : ~Claims(r, s)
    BY <1>1, <1>2, NamesAssumption DEF IInv, Claims, ReferencedIsAlive, Referenced, Workers
  <2> QED BY <2>1 DEF IInv, TypeOK, SessionState, BusyIsClaimed
<1>4. \A c \in Comps : process[s][c] # "Spawned"
  BY <1>2 DEF IInv, NoOrphan, Active
<1>5. statusOf(s) \in {"Free", "Defunct"} /\ statusOf(s)' = "gone"
  BY <1>1, <1>3, StatusIs
<1>6. Promise!Become(s, {"Free", "Defunct"}, "gone")
  BY <1>1, <1>5, PromiseBecome DEF IInv
<1>7. runningFn[s] = {}
  BY <1>4 DEF runningFn
<1>8. Promise!Forget(s)
  BY <1>6, <1>7 DEF Promise!Forget, runningFn
<1> QED BY <1>8 DEF Promise!Next

LEMMA PromiseStep == IInv /\ [Next]_vars => [Promise!Next]_(Promise!vars)
<1> SUFFICES ASSUME IInv, [Next]_vars PROVE Promise!Next \/ UNCHANGED Promise!vars
  OBVIOUS
<1>1. CASE UNCHANGED <<object, mState, process>>
  BY <1>1, PromiseStutter
<1>2. ASSUME NEW r \in Requests, Register(r) \/ Accept(r) \/ UpdateEnds(r)
      PROVE  Promise!Next \/ UNCHANGED Promise!vars
  BY <1>2, PromiseRegister, PromiseAccept, PromiseUpdateEnds
<1>3. ASSUME NEW r \in Requests, NEW c \in Comps, StartNewComputation(r, c)
      PROVE  Promise!Next
  BY <1>3, PromiseStart
<1>4. ASSUME NEW w \in Requests, ApplyNewConfig(w)
      PROVE  Promise!Next
  <2>1. operation[w].session \in Sessions
    BY <1>4 DEF ApplyNewConfig, OperationAt, IInv, TypeOK, OperationsAreSane, SessionOperation,
                SessionOrNone, Workers
  <2> QED BY <1>4, <2>1, PromiseShutdown DEF ApplyNewConfig, IInv, registry, members, state
<1>5. ASSUME NEW w \in Workers, StopComputations(w)
      PROVE  Promise!Next
  <2>1. operation[w].session \in Sessions
    BY <1>5 DEF StopComputations, StopAll, OperationAt, IInv, TypeOK, OperationsAreSane,
                SessionOperation, SessionOrNone
  <2> QED BY <1>5, <2>1, PromiseShutdown
          DEF StopComputations, StopAll, IInv, registry, members, state
<1>6. ASSUME NEW w \in Workers, Retire(w)
      PROVE  Promise!Next \/ UNCHANGED Promise!vars
  BY <1>6, PromiseRetire
<1>7. ASSUME NEW s \in Sessions, DestroySession(s)
      PROVE  UNCHANGED Promise!vars
  <2>1. /\ UNCHANGED <<mState, process>> /\ object[s] = "alive" /\ object'[s] = "destroying"
        /\ \A t \in Sessions \ {s} : object'[t] = object[t]
    BY <1>7 DEF DestroySession, IInv, TypeOK, computations
  <2>2. \A t \in Sessions : statusOf(t)' = statusOf(t)
    BY <2>1 DEF statusOf
  <2> QED BY <2>1, <2>2 DEF Promise!vars
<1>8. ASSUME NEW s \in Sessions, DestroyComputations(s)
      PROVE  Promise!Next
  <2>1. /\ object[s] = "destroying" /\ object'[s] = "removing" /\ mState' = mState
        /\ \A t \in Sessions \ {s} : object'[t] = object[t]
    BY <1>8 DEF DestroyComputations, DestroyUnjoined, IInv, TypeOK, members, state
  <2>2. \A t \in Sessions : /\ object'[t] = "none" <=> object[t] = "none"
                            /\ object'[t] = "gone" <=> object[t] = "gone"
    BY <2>1
  <2> QED BY <1>8, <2>1, <2>2, PromiseShutdown DEF DestroyComputations, DestroyUnjoined, IInv
<1>9. ASSUME NEW s \in Sessions, SessionDestroyed(s)
      PROVE  Promise!Next
  BY <1>9, PromiseForget
<1>10. ASSUME NEW s \in Sessions, NEW c \in Comps, ProcessEnds(s, c)
       PROVE  Promise!Next
  <2>1. /\ \A t \in Sessions \ {s} : process'[t] = process[t]
        /\ NothingStarts /\ UNCHANGED <<object, mState>>
    BY <1>10 DEF ProcessEnds, IInv, TypeOK, NothingStarts, registry, members, state
  <2>2. \A t \in Sessions : statusOf(t)' = statusOf(t)
    BY <2>1 DEF statusOf
  <2> QED BY <2>1, <2>2, PromiseLose
<1>11. ASSUME ~\E r \in Requests : Register(r) \/ Accept(r) \/ UpdateEnds(r),
              ~\E r \in Requests, c \in Comps : StartNewComputation(r, c),
              ~\E w \in Requests : ApplyNewConfig(w),
              ~\E w \in Workers : StopComputations(w) \/ Retire(w),
              ~\E s \in Sessions :
                  DestroySession(s) \/ DestroyComputations(s) \/ SessionDestroyed(s),
              ~\E s \in Sessions, c \in Comps : ProcessEnds(s, c)
       PROVE  UNCHANGED <<object, mState, process>>
  BY <1>11
  DEF Next, Step, Call, RequestStep, UpdateStep, DeleteStep, MainStep, HandlerStep, ExpirerStep,
      DestroyStep, Create, Modify, Ask, Delete, Signal, Close, StopRunning, InitializeSession,
      SetExpirationTime, EraseSession, GetSession, JoinOperation, StartOperation,
      AssignOperation, CheckIsFree, SignalAll, SignalAllUnlocked, SignalComputation, SendControl,
      Suspend, SignalReturns, DefunctStopped, UpdateFails, InsertComputation, Insert,
      ComputationsStopped, ShutdownAll, SyncShutdown, WaitOperationComplete, ShutdownJoins,
      ShutdownReturns, AllShutDown, ClientConnects, HandleConnection, StopExpiration,
      JoinExpiration, Expire, ExpirationStopped, vars, sessions, registry, members, state,
      computations
<1> QED BY <1>1, <1>2, <1>3, <1>4, <1>5, <1>6, <1>7, <1>8, <1>9, <1>10, <1>11

\* Every behaviour of the node, threads, mutexes and races included, keeps
\* the promise: one operation at a time, computations started by operations
\* only, and a session Defunct once all that ran for it was stopped.
THEOREM NodeImplementsLifecycle == Spec => ImplementsLifecycle
BY PromiseInit, PromiseStep, AlwaysIInv, PTL DEF Spec, ImplementsLifecycle, Promise!Spec
=============================================================================
