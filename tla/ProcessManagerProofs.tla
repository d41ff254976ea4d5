------------------------ MODULE ProcessManagerProofs ------------------------
(***************************************************************************)
(* Proofs about ProcessManager, for any set of processes, any assignment   *)
(* of memory and every setting of the options.                             *)
(*                                                                         *)
(* The safety properties follow from one inductive invariant, IInv: it     *)
(* relates where the spawning thread and the exit monitor are to the       *)
(* process state, the operating system process and the pid table.          *)
(*                                                                         *)
(* The ledger of memory adds up over all processes; its part of the proofs *)
(* counts megabytes (HeldMb) and says on which conditions it balances.     *)
(***************************************************************************)
EXTENDS ProcessManager, FiniteSetTheorems, TLAPS

-----------------------------------------------------------------------------
(* Type correctness.                                                       *)

\* Unsigned arithmetic stays in range.
LEMMA WrapType == ASSUME NEW n \in Int PROVE Wrap(n) \in Unsigned
BY WordAssumption, SMT DEF Wrap, Unsigned

LEMMA UnsignedIsInt == \A n \in Unsigned : n \in Int
BY WordAssumption, SMT DEF Unsigned

\* reserve() answers with, and leaves, unsigned numbers.
LEMMA ReserveType ==
    ASSUME NEW l \in Ledger, NEW n \in Unsigned
    PROVE  Reserve(l, n) \in Ledger /\ Deficit(l, n) \in Unsigned
<1>1. /\ l.reserved + n \in Int
      /\ n - Wrap(l.available - l.reserved - l.borrowed) \in Int
      /\ 0 \in Unsigned
  <2>1. l.available \in Int /\ l.reserved \in Int /\ l.borrowed \in Int /\ n \in Int
    BY UnsignedIsInt DEF Ledger
  <2>2. l.available - l.reserved - l.borrowed \in Int
    BY <2>1
  <2>3. Wrap(l.available - l.reserved - l.borrowed) \in Int
    BY <2>2, WrapType, UnsignedIsInt
  <2> QED BY <2>1, <2>3, WordAssumption DEF Unsigned
<1>2. /\ Wrap(l.reserved + n) \in Unsigned
      /\ Wrap(n - Wrap(l.available - l.reserved - l.borrowed)) \in Unsigned
  BY <1>1, WrapType
<1> QED BY <1>1, <1>2 DEF Reserve, Deficit, Ledger

LEMMA ReleaseType ==
    ASSUME NEW l \in Ledger, NEW n \in Unsigned
    PROVE  Release(l, n) \in Ledger
<1>1. l.reserved - n \in Int
  BY UnsignedIsInt DEF Ledger
<1>2. Wrap(l.reserved - n) \in Unsigned
  BY <1>1, WrapType
<1> QED BY <1>2 DEF Release, Ledger

LEMMA BorrowType ==
    ASSUME NEW l \in Ledger, NEW n \in Unsigned
    PROVE  Borrow(l, n) \in Ledger
<1>1. l.borrowed + Loan(l, n) \in Int
  BY UnsignedIsInt DEF Ledger, Loan
<1>2. Wrap(l.borrowed + Loan(l, n)) \in Unsigned
  BY <1>1, WrapType
<1> QED BY <1>2 DEF Borrow, Ledger

LEMMA TypeInit == Init => TypeOK
<1> SUFFICES ASSUME Init PROVE TypeOK
  OBVIOUS
<1>1. NewLedger(AvailableMb) \in Ledger /\ 0 \in Unsigned
  BY WordAssumption, MemoryAssumption DEF NewLedger, Ledger, Unsigned
<1> QED BY <1>1 DEF Init, TypeOK, Idle, ProcessState, ExitStatus, OsState,
            SpawnerState, TerminatorState

\* Leaving for Terminated keeps the types of what it changes.
LEMMA TerminatedType ==
    ASSUME TypeOK, NEW p \in Procs, NEW status \in ExitStatus,
           TerminatedInternal(p, status)
    PROVE  /\ mState' \in [Procs -> ProcessState]
           /\ mPid' \in [Procs -> Procs \cup {NoPid}]
           /\ mStatus' \in [Procs -> ExitStatus]
           /\ told' \in [Procs -> SUBSET ExitStatus]
<1> DEFINE final == IF mState[p] = "Terminated" THEN mStatus[p] ELSE status
<1>1. final \in ExitStatus
  BY DEF TypeOK
<1> HIDE DEF final
<1>2. /\ mStatus' = [mStatus EXCEPT ![p] = final]
      /\ told' = [told EXCEPT ![p] = @ \cup {final}]
  BY DEF TerminatedInternal, final
<1>3. /\ mState' = [mState EXCEPT ![p] = "Terminated"]
      /\ mPid' = [mPid EXCEPT ![p] = NoPid]
  BY DEF TerminatedInternal
<1> QED BY <1>1, <1>2, <1>3 DEF TypeOK, ProcessState

LEMMA StartTerminationType ==
    ASSUME TypeOK, NEW p \in Procs, NEW isFast \in BOOLEAN,
           StartTermination(p, isFast)
    PROVE  /\ mState' \in [Procs -> ProcessState]
           /\ mPid' \in [Procs -> Procs \cup {NoPid}]
           /\ mStatus' \in [Procs -> ExitStatus]
           /\ told' \in [Procs -> SUBSET ExitStatus]
           /\ terminator' \in [Procs -> TerminatorState]
           /\ fast' \in [Procs -> BOOLEAN]
<1>1. CASE TerminatedInternal(p, "NOT_SPAWNED") /\ UNCHANGED <<terminator, fast>>
  BY <1>1, TerminatedType DEF TypeOK, ExitStatus
<1>2. CASE ~(TerminatedInternal(p, "NOT_SPAWNED") /\ UNCHANGED <<terminator, fast>>)
  BY <1>2 DEF StartTermination, TypeOK, ProcessState, TerminatorState, lifecycle
<1> QED BY <1>1, <1>2 DEF StartTermination

LEMMA ReleaseMemoryType ==
    ASSUME TypeOK, NEW p \in Procs, ReleaseMemory(p)
    PROVE  mMemory' \in Ledger /\ mReservedMb' \in [Procs -> Unsigned]
BY ReleaseType, WordAssumption DEF ReleaseMemory, TypeOK, Unsigned

LEMMA TypeStep == TypeOK /\ [Next]_vars => TypeOK'
<1> SUFFICES ASSUME TypeOK, [Next]_vars PROVE TypeOK'
  OBVIOUS
<1> USE DEF vars, lifecycle, memory, tables, spawning, terminating
<1>1. CASE UNCHANGED vars
  BY <1>1 DEF TypeOK
<1>2. ASSUME NEW p \in Procs, Call(p) PROVE TypeOK'
  <2>1. CASE AddProcess(p)
    BY <2>1 DEF AddProcess, TypeOK
  <2>2. CASE Spawn(p)
    BY <2>2 DEF Spawn, TypeOK, SpawnerState
  <2>3. CASE SpawnPipeFails(p)
    BY <2>3, TerminatedType DEF SpawnPipeFails, TypeOK, ExitStatus
  <2>4. CASE Terminate(p)
    BY <2>4, StartTerminationType DEF Terminate, TypeOK
  <2>5. CASE RemoveProcess(p)
    BY <2>5 DEF RemoveProcess, TypeOK
  <2> QED BY <1>2, <2>1, <2>2, <2>3, <2>4, <2>5 DEF Call
<1>3. ASSUME NEW p \in Procs, SpawnStep(p) PROVE TypeOK'
  <2> USE MemoryAssumption
  <2>1. CASE ReserveMemory(p)
    <3>1. /\ Reserve(mMemory, AssignedMb[p]) \in Ledger
          /\ Deficit(mMemory, AssignedMb[p]) \in Int
      BY ReserveType, UnsignedIsInt DEF TypeOK
    <3> QED BY <2>1, <3>1 DEF ReserveMemory, TypeOK, SpawnerState
  <2>2. CASE ReserveWhatIsLeft(p)
    <3> DEFINE reservation == Wrap(AssignedMb[p] - shortfall[p])
    <3>1. AssignedMb[p] - shortfall[p] \in Int
      BY UnsignedIsInt DEF TypeOK
    <3>2. reservation \in Unsigned
      BY <3>1, WrapType
    <3> HIDE DEF reservation
    <3>3. Reserve(mMemory, reservation) \in Ledger
      BY <3>2, ReserveType DEF TypeOK
    <3>4. /\ mMemory' = Reserve(mMemory, reservation)
          /\ mReservedMb' = [mReservedMb EXCEPT ![p] = reservation]
      BY <2>2 DEF ReserveWhatIsLeft, reservation
    <3> QED BY <2>2, <3>2, <3>3, <3>4 DEF ReserveWhatIsLeft, TypeOK, SpawnerState
  <2>3. ASSUME NEW b \in Procs, FindBiggestBorrower(p, b) PROVE TypeOK'
    <3>1. shortfall[p] - mBorrowedMb[b] \in Int
      BY UnsignedIsInt DEF TypeOK
    <3> QED BY <2>3, <3>1 DEF FindBiggestBorrower, TypeOK, SpawnerState
  <2>4. CASE NoMoreBorrowers(p)
    BY <2>4 DEF NoMoreBorrowers, TypeOK, SpawnerState
  <2>5. CASE KillBorrower(p)
    <3>1. victim[p] \in Procs
      BY <2>5 DEF KillBorrower, TypeOK
    <3> QED BY <2>5, <3>1, StartTerminationType DEF KillBorrower, TypeOK, SpawnerState
  <2>6. CASE ReserveAgain(p)
    <3>1. /\ Reserve(mMemory, AssignedMb[p]) \in Ledger
          /\ Deficit(mMemory, AssignedMb[p]) \in Int
      BY ReserveType, UnsignedIsInt DEF TypeOK
    <3> QED BY <2>6, <3>1 DEF ReserveAgain, TypeOK, SpawnerState
  <2>7. CASE ForkFails(p)
    BY <2>7, TerminatedType, ReleaseMemoryType
    DEF ForkFails, TypeOK, ExitStatus, SpawnerState
  <2>8. CASE Fork(p)
    BY <2>8 DEF Fork, TypeOK, OsState, ProcessState, SpawnerState
  <2>9. CASE PostFork(p)
    BY <2>9 DEF PostFork, TypeOK, SpawnerState
  <2> QED BY <1>3, <2>1, <2>2, <2>3, <2>4, <2>5, <2>6, <2>7, <2>8, <2>9
          DEF SpawnStep
<1>4. ASSUME NEW p \in Procs, TerminationStep(p) PROVE TypeOK'
  <2>1. CASE CreateTerminationThread(p)
    BY <2>1 DEF CreateTerminationThread, TypeOK, TerminatorState
  <2>2. CASE TerminationNotNeeded(p)
    BY <2>2 DEF TerminationNotNeeded, Termination, TypeOK, TerminatorState
  <2>3. CASE RequestStop(p)
    BY <2>3 DEF RequestStop, Termination, TypeOK, TerminatorState
  <2>4. ASSUME NEW from \in SUBSET TerminatorState, NEW sig \in {"TERM", "KILL"},
               NEW wait \in TerminatorState, SignalAndWait(p, from, sig, wait)
        PROVE  TypeOK'
    <3>1. signalled' \in SUBSET ((Procs \cup {NoPid}) \X {"TERM", "KILL"})
      BY <2>4 DEF SignalAndWait, TypeOK
    <3>2. terminator' \in [Procs -> TerminatorState]
      BY <2>4 DEF SignalAndWait, Termination, TypeOK, TerminatorState
    <3> QED BY <2>4, <3>1, <3>2 DEF SignalAndWait, Termination, TypeOK
  <2>5. CASE SendTerm(p)
    BY <2>4, <2>5 DEF SendTerm, TerminatorState
  <2>6. CASE SendKill(p)
    BY <2>4, <2>6 DEF SendKill, TerminatorState
  <2>7. CASE GiveUp(p)
    BY <2>7, TerminatedType
    DEF GiveUp, Termination, TypeOK, TerminatorState, ExitStatus
  <2>8. CASE TerminationSeesExit(p)
    BY <2>8 DEF TerminationSeesExit, Termination, TypeOK, TerminatorState
  <2> QED BY <1>4, <2>1, <2>2, <2>3, <2>5, <2>6, <2>7, <2>8
          DEF TerminationStep
<1>5. ASSUME NEW p \in Procs, RemoveStep(p) PROVE TypeOK'
  <2>1. CASE RemoveTerminates(p)
    BY <2>1, StartTerminationType DEF RemoveTerminates, TypeOK
  <2>2. CASE RemoveErases(p)
    BY <2>2 DEF RemoveErases, TypeOK
  <2> QED BY <1>5, <2>1, <2>2 DEF RemoveStep
<1>6. ASSUME NEW p \in Procs, MonitorStep(p) PROVE TypeOK'
  <2>1. CASE ReapChild(p)
    BY <2>1 DEF ReapChild, TypeOK, OsState
  <2>2. CASE HandleChildExit(p)
    BY <2>2, ReleaseMemoryType DEF HandleChildExit, TypeOK
  <2>3. CASE MarkTerminated(p)
    BY <2>3, TerminatedType, ReleaseMemoryType
    DEF MarkTerminated, TypeOK, ExitStatus, Idle
  <2> QED BY <1>6, <2>1, <2>2, <2>3 DEF MonitorStep
<1>7. ASSUME NEW p \in Procs, OutOfMemory(p) \/ OomStep(p) PROVE TypeOK'
  <2>1. CASE OutOfMemory(p)
    BY <2>1 DEF OutOfMemory, TypeOK
  <2>2. CASE OomBorrows(p)
    BY <2>2, BorrowType, MemoryAssumption DEF OomBorrows, TypeOK
  <2>3. CASE OomLends(p)
    <3>1. Wrap(mBorrowedMb[p] + LoanMb) \in Unsigned
      BY WrapType, UnsignedIsInt, MemoryAssumption DEF TypeOK
    <3> QED BY <2>3, <3>1 DEF OomLends, TypeOK, Idle
  <2>4. CASE OomKills(p)
    BY <2>4, StartTerminationType DEF OomKills, TypeOK, Idle
  <2> QED BY <1>7, <2>1, <2>2, <2>3, <2>4 DEF OomStep
<1>8. ASSUME NEW p \in Procs, ChildExits(p) PROVE TypeOK'
  BY <1>8 DEF ChildExits, TypeOK, OsState
<1> QED BY <1>1, <1>2, <1>3, <1>4, <1>5, <1>6, <1>7, <1>8 DEF Next, Step

\* Every variable always has its type: in particular the unsigned counters
\* stay unsigned, whatever wraps around.
THEOREM TypeCorrect == Spec => []TypeOK
<1>1. Init => TypeOK
  BY TypeInit
<1>2. TypeOK /\ [Next]_vars => TypeOK'
  BY TypeStep
<1> QED BY <1>1, <1>2, PTL DEF Spec

-----------------------------------------------------------------------------
(* The inductive invariant.                                                *)

LEMMA InvInit == Init => IInv
BY DEF Init, IInv, SpawningIsBeforeSpawned, ChildIsKnown, TableIsExact,
       MonitorIsExact, TerminatedIsGone, ChildIsWatched, OneExitStatus, Idle

\* A step that leaves alone everything IInv speaks of, but for where a
\* spawning thread is before the fork.
LEMMA InvFrame ==
    ASSUME IInv,
           UNCHANGED <<lifecycle, tables, os, monitor>>,
           NEW p \in Procs,
           \A q \in Procs : q # p => spawner'[q] = spawner[q],
           \/ spawner'[p] = spawner[p]
           \/ /\ spawner'[p] # "postFork"
              /\ mState[p] = "NotSpawned"
              /\ p \in mProcesses
    PROVE  IInv'
BY DEF IInv, SpawningIsBeforeSpawned, ChildIsKnown, TableIsExact,
       MonitorIsExact, TerminatedIsGone, ChildIsWatched, OneExitStatus,
       lifecycle, tables

\* Becoming Terminated, whoever does it: the spawning thread is not, or no
\* longer, at work for p, and p has no child unless it is written off.
LEMMA InvTerminated ==
    ASSUME TypeOK, IInv, NEW p \in Procs, NEW status \in ExitStatus,
           TerminatedInternal(p, status),
           UNCHANGED <<tables, os>>,
           spawner'[p] = "idle",
           \A q \in Procs : q # p /\ spawner'[q] # spawner[q] =>
               /\ spawner[q] \notin {"idle", "postFork"}
               /\ spawner'[q] \notin {"idle", "postFork"},
           spawner[p] = "idle" \/ mState[p] = "NotSpawned",
           monitor' = monitor \/ (monitor.at = "locked" /\ monitor' = Idle),
           \/ mState[p] = "Terminated"
           \/ status = "UNINTERRUPTABLE"
           \/ os[p] \in {"none", "reaped"}
    PROVE  IInv'
<1> DEFINE final == IF mState[p] = "Terminated" THEN mStatus[p] ELSE status
<1>1. /\ mStatus' = [mStatus EXCEPT ![p] = final]
      /\ told' = [told EXCEPT ![p] = @ \cup {final}]
      /\ mState' = [mState EXCEPT ![p] = "Terminated"]
  BY DEF TerminatedInternal
<1>2. /\ mState[p] = "Terminated" => final = mStatus[p]
      /\ mState[p] # "Terminated" => final = status
  OBVIOUS
<1> HIDE DEF final
<1>3. TerminatedIsGone'
  BY <1>1, <1>2 DEF TypeOK, IInv, TerminatedIsGone
<1>4. OneExitStatus'
  BY <1>1, <1>2 DEF TypeOK, IInv, OneExitStatus
<1>5. SpawningIsBeforeSpawned' /\ ChildIsKnown'
  BY <1>1 DEF TypeOK, IInv, SpawningIsBeforeSpawned, ChildIsKnown, tables
<1>6. TableIsExact' /\ ChildIsWatched'
  BY <1>1 DEF TypeOK, IInv, TableIsExact, ChildIsWatched, ChildIsKnown, tables, Idle
<1>7. MonitorIsExact'
  BY <1>1 DEF TypeOK, IInv, MonitorIsExact, Idle
<1> QED BY <1>3, <1>4, <1>5, <1>6, <1>7 DEF IInv

\* terminate() under the state mutex, whoever calls it.
LEMMA InvStartTermination ==
    ASSUME TypeOK, IInv, NEW p \in Procs, NEW isFast \in BOOLEAN,
           ~StateLocked(p),
           StartTermination(p, isFast),
           UNCHANGED <<tables, os, monitor>>,
           \A q \in Procs : spawner'[q] # spawner[q] =>
               /\ spawner[q] \notin {"idle", "postFork"}
               /\ spawner'[q] \notin {"idle", "postFork"}
    PROVE  IInv'
<1> USE DEF tables
<1>1. CASE mState[p] = "NotSpawned" /\ TerminatedInternal(p, "NOT_SPAWNED")
  <2>1. os[p] = "none" /\ spawner[p] = "idle" /\ spawner'[p] = "idle"
    BY <1>1 DEF IInv, ChildIsKnown, StateLocked
  <2> QED BY <1>1, <2>1, InvTerminated DEF ExitStatus
<1>2. CASE /\ mState[p] = "Spawned"
           /\ mState' = [mState EXCEPT ![p] = "Terminating"]
           /\ UNCHANGED <<mPid, mStatus, told>>
  BY <1>2 DEF TypeOK, IInv, SpawningIsBeforeSpawned, ChildIsKnown,
     TableIsExact, MonitorIsExact, TerminatedIsGone, ChildIsWatched,
     OneExitStatus, StateLocked
<1>3. CASE UNCHANGED lifecycle
  BY <1>3 DEF IInv, SpawningIsBeforeSpawned, ChildIsKnown,
     TableIsExact, MonitorIsExact, TerminatedIsGone, ChildIsWatched,
     OneExitStatus, lifecycle
<1> QED BY <1>1, <1>2, <1>3 DEF StartTermination

LEMMA InvStep == TypeOK /\ IInv /\ [Next]_vars => IInv'
<1> SUFFICES ASSUME TypeOK, IInv, [Next]_vars PROVE IInv'
  OBVIOUS
<1> USE DEF vars, spawning, terminating
<1>1. CASE UNCHANGED vars
  BY <1>1 DEF IInv, SpawningIsBeforeSpawned, ChildIsKnown, TableIsExact,
     MonitorIsExact, TerminatedIsGone, ChildIsWatched, OneExitStatus,
     lifecycle, tables
<1>2. ASSUME NEW p \in Procs, Call(p) PROVE IInv'
  <2>1. CASE AddProcess(p)
    BY <2>1 DEF AddProcess, IInv, SpawningIsBeforeSpawned, ChildIsKnown,
       TableIsExact, MonitorIsExact, TerminatedIsGone, ChildIsWatched,
       OneExitStatus, lifecycle
  <2>2. CASE Spawn(p)
    BY <2>2, InvFrame DEF Spawn, TypeOK
  <2>3. CASE SpawnPipeFails(p)
    <3>1. os[p] = "none" /\ spawner[p] = "idle"
      BY <2>3 DEF SpawnPipeFails, IInv, ChildIsKnown, StateLocked
    <3> QED BY <2>3, <3>1, InvTerminated DEF SpawnPipeFails, ExitStatus
  <2>4. CASE Terminate(p)
    BY <2>4, InvStartTermination DEF Terminate
  <2>5. CASE RemoveProcess(p)
    BY <2>5, InvFrame DEF RemoveProcess
  <2> QED BY <1>2, <2>1, <2>2, <2>3, <2>4, <2>5 DEF Call
<1>3. ASSUME NEW p \in Procs, SpawnStep(p) PROVE IInv'
  <2>0. spawner[p] \notin {"idle", "postFork"} =>
          mState[p] = "NotSpawned" /\ p \in mProcesses
    BY DEF IInv, SpawningIsBeforeSpawned
  <2>1. CASE ReserveMemory(p)
    BY <2>0, <2>1, InvFrame DEF ReserveMemory, TypeOK
  <2>2. CASE ReserveWhatIsLeft(p)
    BY <2>0, <2>2, InvFrame DEF ReserveWhatIsLeft, TypeOK
  <2>3. ASSUME NEW b \in Procs, FindBiggestBorrower(p, b) PROVE IInv'
    BY <2>0, <2>3, InvFrame DEF FindBiggestBorrower, AtLoopHead, TypeOK
  <2>4. CASE NoMoreBorrowers(p)
    BY <2>0, <2>4, InvFrame DEF NoMoreBorrowers, AtLoopHead, TypeOK
  <2>5. CASE KillBorrower(p)
    <3>1. victim[p] \in Procs
      BY <2>5 DEF KillBorrower, TypeOK
    <3> QED BY <2>5, <3>1, InvStartTermination DEF KillBorrower, TypeOK
  <2>6. CASE ReserveAgain(p)
    BY <2>0, <2>6, InvFrame DEF ReserveAgain, TypeOK
  <2>7. CASE ForkFails(p)
    <3>1. os[p] = "none" /\ mState[p] = "NotSpawned"
      BY <2>0, <2>7 DEF ForkFails, IInv, ChildIsKnown
    <3> QED BY <2>7, <3>1, InvTerminated DEF ForkFails, ExitStatus, TypeOK
  <2>8. CASE Fork(p)
    BY <2>0, <2>8 DEF Fork, TypeOK, IInv,
       SpawningIsBeforeSpawned, ChildIsKnown, TableIsExact, MonitorIsExact,
       TerminatedIsGone, ChildIsWatched, OneExitStatus, tables
  <2>9. CASE PostFork(p)
    BY <2>9 DEF PostFork, ProcessesLocked, TypeOK, IInv,
       SpawningIsBeforeSpawned, ChildIsKnown, TableIsExact, MonitorIsExact,
       TerminatedIsGone, ChildIsWatched, OneExitStatus, lifecycle
  <2> QED BY <1>3, <2>1, <2>2, <2>3, <2>4, <2>5, <2>6, <2>7, <2>8, <2>9
          DEF SpawnStep
<1>4. ASSUME NEW p \in Procs, TerminationStep(p) PROVE IInv'
  <2>1. CASE GiveUp(p)
    BY <2>1, InvTerminated DEF GiveUp, Termination, StateLocked, ExitStatus
  <2>2. CASE ~GiveUp(p)
    BY <1>4, <2>2, InvFrame DEF TerminationStep, CreateTerminationThread,
       TerminationNotNeeded, RequestStop, SendTerm, SendKill, SignalAndWait,
       TerminationSeesExit, Termination
  <2> QED BY <2>1, <2>2
<1>5. ASSUME NEW p \in Procs, RemoveStep(p) PROVE IInv'
  <2>1. CASE RemoveTerminates(p)
    BY <2>1, InvStartTermination DEF RemoveTerminates
  <2>2. CASE RemoveErases(p)
    BY <2>2 DEF RemoveErases, StateLocked, IInv, SpawningIsBeforeSpawned,
       ChildIsKnown, TableIsExact, MonitorIsExact, TerminatedIsGone,
       ChildIsWatched, OneExitStatus, lifecycle
  <2> QED BY <1>5, <2>1, <2>2 DEF RemoveStep
<1>6. ASSUME NEW p \in Procs, MonitorStep(p) PROVE IInv'
  <2>1. CASE ReapChild(p)
    BY <2>1 DEF ReapChild, TypeOK, IInv, SpawningIsBeforeSpawned,
       ChildIsKnown, TableIsExact, MonitorIsExact, TerminatedIsGone,
       ChildIsWatched, OneExitStatus, lifecycle, tables
  <2>2. CASE HandleChildExit(p)
    BY <2>2 DEF HandleChildExit, TypeOK, IInv, SpawningIsBeforeSpawned,
       ChildIsKnown, TableIsExact, MonitorIsExact, TerminatedIsGone,
       ChildIsWatched, OneExitStatus, lifecycle
  <2>3. CASE MarkTerminated(p)
    <3>1. os[p] = "reaped"
      BY <2>3 DEF MarkTerminated, IInv, MonitorIsExact
    <3> QED BY <2>3, <3>1, InvTerminated DEF MarkTerminated, StateLocked, ExitStatus
  <2> QED BY <1>6, <2>1, <2>2, <2>3 DEF MonitorStep
<1>7. ASSUME NEW p \in Procs, OutOfMemory(p) \/ OomStep(p) PROVE IInv'
  <2>1. CASE OomKills(p)
    BY <2>1, InvStartTermination DEF OomKills
  <2>2. CASE ~OomKills(p)
    BY <1>7, <2>2, InvFrame DEF OomStep, OutOfMemory, OomBorrows, OomLends
  <2> QED BY <2>1, <2>2
<1>8. ASSUME NEW p \in Procs, ChildExits(p) PROVE IInv'
  BY <1>8 DEF ChildExits, TypeOK, IInv, SpawningIsBeforeSpawned, ChildIsKnown,
     TableIsExact, MonitorIsExact, TerminatedIsGone, ChildIsWatched,
     OneExitStatus, lifecycle, tables
<1> QED BY <1>1, <1>2, <1>3, <1>4, <1>5, <1>6, <1>7, <1>8 DEF Next, Step

LEMMA Invariance == Spec => [](TypeOK /\ IInv)
<1>1. Init => TypeOK /\ IInv
  BY TypeInit, InvInit
<1>2. TypeOK /\ IInv /\ [Next]_vars => TypeOK' /\ IInv'
  BY TypeStep, InvStep
<1> QED BY <1>1, <1>2, PTL DEF Spec

-----------------------------------------------------------------------------
(* The properties.                                                         *)

\* Whatever the interleaving, a process reported as terminated is gone unless
\* its status is UNINTERRUPTABLE.
THEOREM TerminatedProcessIsGone == Spec => []TerminatedIsGone
BY Invariance, PTL DEF IInv

\* No child is ever lost by the exit monitor.
THEOREM NoChildIsLost == Spec => []ChildIsWatched
BY Invariance, PTL DEF IInv

\* The observer hears one status per process.
THEOREM StatusIsUnique == Spec => []OneExitStatus
BY Invariance, PTL DEF IInv

\* The exit monitor and the spawning threads, which nest the two mutexes in
\* opposite orders, cannot wait for each other.
THEOREM LocksCannotCycle == Spec => []NoLockCycle
<1>1. TypeOK /\ IInv => NoLockCycle
  BY DEF IInv, MonitorIsExact, NoLockCycle, ProcessesLocked, StateLocked
<1> QED BY <1>1, Invariance, PTL

\* What a step does to the memory reserved for a process with a child.
LEMMA ReservationStep ==
    ASSUME TypeOK, IInv, [Next]_vars, NEW q \in Procs,
           os[q] \notin {"none", "reaped"}
    PROVE  mReservedMb'[q] = mReservedMb[q]
<1> USE DEF vars, memory
<1>1. CASE UNCHANGED mReservedMb
  BY <1>1
<1>2. ASSUME NEW p \in Procs, Step(p), ~UNCHANGED mReservedMb
      PROVE  mReservedMb'[q] = mReservedMb[q]
  <2>1. CASE ReserveMemory(p) \/ ReserveWhatIsLeft(p) \/ ReserveAgain(p)
             \/ ForkFails(p)
    <3>1. os[p] = "none"
      BY <2>1 DEF ReserveMemory, ReserveWhatIsLeft, ReserveAgain, ForkFails,
         IInv, SpawningIsBeforeSpawned, ChildIsKnown
    <3> QED BY <2>1, <3>1 DEF ReserveMemory, ReserveWhatIsLeft, ReserveAgain,
            ForkFails, ReleaseMemory, TypeOK
  <2>2. CASE HandleChildExit(p) \/ MarkTerminated(p)
    <3>1. os[p] = "reaped"
      BY <2>2 DEF HandleChildExit, MarkTerminated, IInv, MonitorIsExact
    <3> QED BY <2>2, <3>1 DEF HandleChildExit, MarkTerminated, ReleaseMemory, TypeOK
  <2>3. CASE Call(p)
    BY <1>2, <2>3 DEF Call, AddProcess, Spawn, SpawnPipeFails, Terminate, RemoveProcess
  <2>4. CASE TerminationStep(p)
    BY <1>2, <2>4 DEF TerminationStep, CreateTerminationThread,
       TerminationNotNeeded, RequestStop, SendTerm, SendKill, SignalAndWait,
       GiveUp, TerminationSeesExit, Termination
  <2>5. CASE RemoveStep(p) \/ OutOfMemory(p) \/ OomStep(p) \/ ChildExits(p)
             \/ ReapChild(p)
    BY <1>2, <2>5 DEF RemoveStep, RemoveTerminates, RemoveErases, OutOfMemory,
       OomStep, OomBorrows, OomLends, OomKills, ChildExits, ReapChild
  <2>6. CASE \/ \E b \in Procs : FindBiggestBorrower(p, b)
             \/ NoMoreBorrowers(p) \/ KillBorrower(p) \/ Fork(p) \/ PostFork(p)
    BY <1>2, <2>6 DEF FindBiggestBorrower, NoMoreBorrowers, KillBorrower, Fork, PostFork
  <2> QED BY <1>2, <2>1, <2>2, <2>3, <2>4, <2>5, <2>6 DEF Step, SpawnStep, MonitorStep
<1> QED BY <1>1, <1>2 DEF Next

\* A reservation is given back only when its child is gone: also a process
\* written off as UNINTERRUPTABLE keeps its memory while its child lives.
THEOREM ReservationsOutliveChildren == Spec => ReservationOutlivesChild
<1>1. TypeOK /\ IInv /\ [Next]_vars =>
        [\A p \in Procs :
           mReservedMb'[p] < mReservedMb[p] => os[p] \in {"none", "reaped"}]_vars
  <2> SUFFICES ASSUME TypeOK, IInv, [Next]_vars, NEW p \in Procs,
                      os[p] \notin {"none", "reaped"}
               PROVE  ~(mReservedMb'[p] < mReservedMb[p])
    OBVIOUS
  <2>1. mReservedMb'[p] = mReservedMb[p]
    BY ReservationStep
  <2>2. mReservedMb[p] \in Int
    BY UnsignedIsInt DEF TypeOK
  <2> QED BY <2>1, <2>2
<1> QED BY <1>1, Invariance, PTL DEF Spec, ReservationOutlivesChild

-----------------------------------------------------------------------------
(* The manager implements the abstract lifecycle.                          *)

LEMMA PidInit == Init => PidIsExact
BY DEF Init, PidIsExact

LEMMA PidStartTermination ==
    ASSUME TypeOK, PidIsExact, NEW p \in Procs, NEW isFast \in BOOLEAN,
           StartTermination(p, isFast), UNCHANGED signalled
    PROVE  PidIsExact'
<1>1. CASE mState[p] = "NotSpawned" /\ TerminatedInternal(p, "NOT_SPAWNED")
           /\ UNCHANGED terminator
  BY <1>1 DEF TypeOK, PidIsExact, TerminatedInternal
<1>2. CASE /\ mState[p] = "Spawned"
           /\ mState' = [mState EXCEPT ![p] = "Terminating"]
           /\ terminator' = [terminator EXCEPT ![p] = "create"]
           /\ UNCHANGED mPid
  BY <1>2 DEF TypeOK, PidIsExact
<1>3. CASE UNCHANGED <<lifecycle, terminator>>
  BY <1>3 DEF PidIsExact, lifecycle
<1> QED BY <1>1, <1>2, <1>3 DEF StartTermination

LEMMA PidStep == TypeOK /\ IInv /\ PidIsExact /\ [Next]_vars => PidIsExact'
<1> SUFFICES ASSUME TypeOK, IInv, PidIsExact, [Next]_vars PROVE PidIsExact'
  OBVIOUS
<1> USE DEF vars, lifecycle, terminating
<1>1. CASE UNCHANGED <<mState, mPid, terminator, signalled>>
  BY <1>1 DEF PidIsExact
<1>2. ASSUME NEW p \in Procs, Step(p),
             ~UNCHANGED <<mState, mPid, terminator, signalled>>
      PROVE  PidIsExact'
  <2>1. CASE Call(p)
    <3>1. CASE SpawnPipeFails(p)
      BY <3>1 DEF SpawnPipeFails, TerminatedInternal, TypeOK, PidIsExact
    <3>2. CASE Terminate(p)
      BY <3>2, PidStartTermination DEF Terminate
    <3> QED BY <1>2, <2>1, <3>1, <3>2 DEF Call, AddProcess, Spawn, RemoveProcess
  <2>2. CASE SpawnStep(p)
    <3>1. CASE Fork(p)
      BY <3>1 DEF Fork, TypeOK, PidIsExact, IInv, SpawningIsBeforeSpawned
    <3>2. CASE ForkFails(p)
      BY <3>2 DEF ForkFails, TerminatedInternal, TypeOK, PidIsExact
    <3>3. CASE KillBorrower(p)
      BY <3>3, PidStartTermination DEF KillBorrower, TypeOK
    <3> QED BY <1>2, <2>2, <3>1, <3>2, <3>3 DEF SpawnStep, ReserveMemory,
            ReserveWhatIsLeft, FindBiggestBorrower, NoMoreBorrowers,
            ReserveAgain, PostFork
  <2>3. CASE TerminationStep(p)
    <3>1. CASE GiveUp(p)
      BY <3>1 DEF GiveUp, Termination, TerminatedInternal, TypeOK, PidIsExact
    <3>2. CASE SendTerm(p)
      BY <3>2 DEF SendTerm, SignalAndWait, Termination, TypeOK, PidIsExact
    <3>3. CASE SendKill(p)
      <4>1. /\ signalled' = signalled \cup {<<mPid[p], "KILL">>}
            /\ terminator[p] # "none"
            /\ terminator' = [terminator EXCEPT ![p] =
                                IF mState[p] = "Terminated" THEN "done" ELSE "killWait"]
            /\ UNCHANGED <<mState, mPid>>
        BY <3>3 DEF SendKill, SignalAndWait, Termination
      <4>2. mState[p] # "Terminated" => mPid[p] = p
        BY <4>1 DEF PidIsExact
      <4> QED BY <4>1, <4>2 DEF TypeOK, PidIsExact
    <3> QED BY <1>2, <2>3, <3>1, <3>2, <3>3 DEF TerminationStep, TypeOK,
            CreateTerminationThread, TerminationNotNeeded, RequestStop,
            TerminationSeesExit, Termination, PidIsExact
  <2>4. CASE RemoveStep(p)
    BY <1>2, <2>4, PidStartTermination DEF RemoveStep, RemoveTerminates, RemoveErases
  <2>5. CASE MonitorStep(p)
    <3>1. CASE MarkTerminated(p)
      <4>1. mState[p] \in {"Spawned", "Terminating", "Terminated"}
        BY <3>1 DEF MarkTerminated, TypeOK, ProcessState, IInv, MonitorIsExact
      <4>2. /\ mState' = [mState EXCEPT ![p] = "Terminated"]
            /\ mPid' = [mPid EXCEPT ![p] = NoPid]
            /\ UNCHANGED <<terminator, signalled>>
        BY <3>1 DEF MarkTerminated, TerminatedInternal
      <4> QED BY <4>1, <4>2 DEF TypeOK, PidIsExact
    <3> QED BY <1>2, <2>5, <3>1 DEF MonitorStep, ReapChild, HandleChildExit
  <2>6. CASE OutOfMemory(p) \/ OomStep(p) \/ ChildExits(p)
    BY <1>2, <2>6, PidStartTermination DEF OutOfMemory, OomStep, OomBorrows,
       OomLends, OomKills, ChildExits
  <2> QED BY <1>2, <2>1, <2>2, <2>3, <2>4, <2>5, <2>6 DEF Step
<1> QED BY <1>1, <1>2 DEF Next

childFn == [p \in Procs |-> childOf(p)]
killedSet == {p \in Procs : <<p, "KILL">> \in signalled}

LEMMA RefineInit == Init => Lifecycle!Init
BY DEF Init, Lifecycle!Init, childOf

\* A step that moves none of the three abstract variables is a stutter.
LEMMA RefineStutter ==
    ASSUME UNCHANGED mState,
           \A p \in Procs : childOf(p)' = childOf(p),
           \A p \in Procs :
               <<p, "KILL">> \in signalled' <=> <<p, "KILL">> \in signalled
    PROVE  UNCHANGED Lifecycle!vars
<1>1. childFn' = childFn
  BY DEF childFn
<1>2. killedSet' = killedSet
  BY DEF killedSet
<1> QED BY <1>1, <1>2 DEF Lifecycle!vars, childFn, killedSet

LEMMA RefineStartTermination ==
    ASSUME TypeOK, IInv, NEW p \in Procs, NEW isFast \in BOOLEAN,
           StartTermination(p, isFast), UNCHANGED <<os, signalled>>
    PROVE  [Lifecycle!Next]_(Lifecycle!vars)
<1>0. /\ childFn' = childFn
      /\ killedSet' = killedSet
  BY DEF childFn, killedSet, childOf
<1>1. CASE mState[p] = "NotSpawned" /\ TerminatedInternal(p, "NOT_SPAWNED")
  <2>1. Lifecycle!NeverRan(p)
    BY <1>0, <1>1 DEF Lifecycle!NeverRan, Lifecycle!Move, TerminatedInternal,
       childFn, killedSet
  <2> QED BY <2>1 DEF Lifecycle!Next
<1>2. CASE /\ mState[p] = "Spawned"
           /\ mState' = [mState EXCEPT ![p] = "Terminating"]
  <2>1. Lifecycle!Stop(p)
    BY <1>0, <1>2 DEF Lifecycle!Stop, Lifecycle!Move, childFn, killedSet
  <2> QED BY <2>1 DEF Lifecycle!Next
<1>3. CASE UNCHANGED lifecycle
  BY <1>0, <1>3 DEF Lifecycle!vars, lifecycle, childFn, killedSet
<1> QED BY <1>1, <1>2, <1>3 DEF StartTermination

LEMMA RefineStep ==
    TypeOK /\ IInv /\ PidIsExact /\ ProcsAssumption /\ [Next]_vars
        => [Lifecycle!Next]_(Lifecycle!vars)
<1> SUFFICES ASSUME TypeOK, IInv, PidIsExact, ProcsAssumption, [Next]_vars
             PROVE  [Lifecycle!Next]_(Lifecycle!vars)
  OBVIOUS
<1> USE DEF vars, lifecycle, terminating
<1>1. CASE UNCHANGED <<mState, os, signalled>>
  BY <1>1, RefineStutter DEF childOf
<1>2. ASSUME NEW p \in Procs, Step(p), ~UNCHANGED <<mState, os, signalled>>
      PROVE  [Lifecycle!Next]_(Lifecycle!vars)
  <2>1. CASE SpawnPipeFails(p) \/ ForkFails(p)
    <3>1. mState[p] = "NotSpawned"
      BY <2>1 DEF SpawnPipeFails, ForkFails, IInv, SpawningIsBeforeSpawned
    <3>2. /\ mState' = [mState EXCEPT ![p] = "Terminated"]
          /\ UNCHANGED <<os, signalled>>
      BY <2>1 DEF SpawnPipeFails, ForkFails, TerminatedInternal
    <3>3. childFn' = childFn /\ killedSet' = killedSet
      BY <3>2 DEF childFn, killedSet, childOf
    <3>4. Lifecycle!NeverRan(p)
      BY <3>1, <3>2, <3>3 DEF Lifecycle!NeverRan, Lifecycle!Move, childFn, killedSet
    <3> QED BY <3>4 DEF Lifecycle!Next
  <2>2. CASE Terminate(p) \/ RemoveTerminates(p) \/ OomKills(p)
    BY <2>2, RefineStartTermination DEF Terminate, RemoveTerminates, OomKills
  <2>3. CASE KillBorrower(p)
    BY <2>3, RefineStartTermination DEF KillBorrower, TypeOK
  <2>4. CASE Fork(p)
    <3>1. mState[p] = "NotSpawned" /\ os[p] = "none"
      BY <2>4 DEF Fork, IInv, SpawningIsBeforeSpawned, ChildIsKnown
    <3>2. /\ mState' = [mState EXCEPT ![p] = "Spawned"]
          /\ os' = [os EXCEPT ![p] = "running"]
          /\ UNCHANGED signalled
      BY <2>4 DEF Fork
    <3>3. childFn' = [childFn EXCEPT ![p] = "alive"] /\ killedSet' = killedSet
      BY <3>2 DEF childFn, killedSet, childOf, TypeOK
    <3>4. Lifecycle!Start(p)
      BY <3>1, <3>2, <3>3 DEF Lifecycle!Start, Lifecycle!Move, childFn, killedSet
    <3> QED BY <3>4 DEF Lifecycle!Next
  <2>5. CASE SendTerm(p)
    BY <2>5, RefineStutter DEF SendTerm, SignalAndWait, Termination, childOf
  <2>6. CASE SendKill(p)
    <3>1. /\ signalled' = signalled \cup {<<mPid[p], "KILL">>}
          /\ terminator[p] # "none"
          /\ UNCHANGED <<mState, os>>
      BY <2>6 DEF SendKill, SignalAndWait, Termination
    <3>2. CASE mState[p] = "Terminating"
      <4>1. mPid[p] = p
        BY <3>2 DEF PidIsExact
      <4>2. childFn' = childFn /\ killedSet' = killedSet \cup {p}
        BY <3>1, <4>1 DEF childFn, killedSet, childOf
      <4>3. Lifecycle!Kill(p)
        BY <3>1, <3>2, <4>2 DEF Lifecycle!Kill, childFn, killedSet
      <4> QED BY <4>3 DEF Lifecycle!Next
    <3>3. CASE mState[p] = "Terminated"
      <4>1. mPid[p] = NoPid
        BY <3>3 DEF PidIsExact
      <4> QED BY <3>1, <4>1, ProcsAssumption, RefineStutter DEF childOf
    <3> QED BY <3>1, <3>2, <3>3 DEF PidIsExact
  <2>7. CASE GiveUp(p)
    <3>1. /\ mState' = [mState EXCEPT ![p] = "Terminated"]
          /\ UNCHANGED <<os, signalled>>
          /\ <<p, "KILL">> \in signalled
          /\ mState[p] \in {"Terminating", "Terminated"}
      BY <2>7 DEF GiveUp, Termination, TerminatedInternal, PidIsExact
    <3>2. childFn' = childFn /\ killedSet' = killedSet
      BY <3>1 DEF childFn, killedSet, childOf
    <3>3. CASE mState[p] = "Terminating"
      <4>1. Lifecycle!WriteOff(p)
        BY <3>1, <3>2, <3>3 DEF Lifecycle!WriteOff, Lifecycle!Move, childFn, killedSet
      <4> QED BY <4>1 DEF Lifecycle!Next
    <3>4. CASE mState[p] = "Terminated"
      <4>1. mState' = mState
        BY <3>1, <3>4 DEF TypeOK
      <4> QED BY <3>1, <4>1, RefineStutter DEF childOf
    <3> QED BY <3>1, <3>3, <3>4
  <2>8. CASE ReapChild(p)
    <3>1. \A q \in Procs : childOf(q)' = childOf(q)
      BY <2>8 DEF ReapChild, childOf, TypeOK
    <3> QED BY <2>8, <3>1, RefineStutter DEF ReapChild
  <2>9. CASE MarkTerminated(p)
    <3>1. /\ mState' = [mState EXCEPT ![p] = "Terminated"]
          /\ UNCHANGED <<os, signalled>>
          /\ os[p] = "reaped"
          /\ mState[p] # "NotSpawned"
      BY <2>9 DEF MarkTerminated, TerminatedInternal, IInv, MonitorIsExact
    <3>2. childFn' = childFn /\ killedSet' = killedSet
      BY <3>1 DEF childFn, killedSet, childOf
    <3>3. CASE mState[p] \in {"Spawned", "Terminating"}
      <4>1. childFn[p] = "gone"
        BY <3>1 DEF childFn, childOf
      <4>2. Lifecycle!NoteExit(p)
        BY <3>1, <3>2, <3>3, <4>1 DEF Lifecycle!NoteExit, Lifecycle!Move, childFn, killedSet
      <4> QED BY <4>2 DEF Lifecycle!Next
    <3>4. CASE mState[p] = "Terminated"
      <4>1. mState' = mState
        BY <3>1, <3>4 DEF TypeOK
      <4> QED BY <3>1, <4>1, RefineStutter DEF childOf
    <3> QED BY <3>1, <3>3, <3>4 DEF TypeOK, ProcessState
  <2>10. CASE ChildExits(p)
    <3>1. /\ os[p] = "running"
          /\ os' = [os EXCEPT ![p] = "zombie"]
          /\ UNCHANGED <<mState, signalled>>
      BY <2>10 DEF ChildExits
    <3>2. /\ childFn[p] = "alive"
          /\ childFn' = [childFn EXCEPT ![p] = "gone"]
          /\ killedSet' = killedSet
      BY <3>1 DEF childFn, killedSet, childOf, TypeOK
    <3>3. Lifecycle!ChildEnds(p)
      BY <3>1, <3>2 DEF Lifecycle!ChildEnds, childFn, killedSet
    <3> QED BY <3>3 DEF Lifecycle!Next
  <2>11. ASSUME ~(SpawnPipeFails(p) \/ ForkFails(p)),
                ~(Terminate(p) \/ RemoveTerminates(p) \/ OomKills(p)),
                ~KillBorrower(p), ~Fork(p), ~SendTerm(p), ~SendKill(p),
                ~GiveUp(p), ~ReapChild(p), ~MarkTerminated(p), ~ChildExits(p)
         PROVE  UNCHANGED <<mState, os, signalled>>
    BY <1>2, <2>11 DEF Step, Call, AddProcess, Spawn, RemoveProcess, SpawnStep,
       ReserveMemory, ReserveWhatIsLeft, FindBiggestBorrower, NoMoreBorrowers,
       ReserveAgain, PostFork, TerminationStep, CreateTerminationThread,
       TerminationNotNeeded, RequestStop, TerminationSeesExit, Termination,
       RemoveStep, RemoveErases, MonitorStep, HandleChildExit, OutOfMemory,
       OomStep, OomBorrows, OomLends
  <2> QED BY <1>2, <2>1, <2>2, <2>3, <2>4, <2>5, <2>6, <2>7, <2>8, <2>9, <2>10, <2>11
<1> QED BY <1>1, <1>2 DEF Next

\* Every behaviour of the manager, threads and races included, is one of the
\* lifecycle: the state only moves forward, and no process is written off
\* before SIGKILL was sent to it.
THEOREM ManagerImplementsLifecycle == Spec => ImplementsLifecycle
<1>1. Init => Lifecycle!Init
  BY RefineInit
<1>2. TypeOK /\ IInv /\ PidIsExact /\ [Next]_vars => [Lifecycle!Next]_(Lifecycle!vars)
  BY RefineStep, ProcsAssumption
<1>3. Init => PidIsExact
  BY PidInit
<1>4. TypeOK /\ IInv /\ PidIsExact /\ [Next]_vars => PidIsExact'
  BY PidStep
<1> QED BY <1>1, <1>2, <1>3, <1>4, Invariance, PTL
        DEF Spec, ImplementsLifecycle, Lifecycle!Spec

-----------------------------------------------------------------------------
(* Loans.  A borrower is killed by a thread that holds another process's   *)
(* state mutex: the invariant says that the borrower's own mutex is never  *)
(* kept by a spawning thread at that point.                                *)

LEMMA LoanInit == Init => LoanIsAfterSpawn
BY DEF Init, LoanIsAfterSpawn, Idle

\* What terminate() changes never undoes a spawn.
LEMMA StartTerminationLeaves ==
    ASSUME TypeOK, NEW p \in Procs, NEW isFast \in BOOLEAN,
           StartTermination(p, isFast),
           NEW q \in Procs, mState[q] # "NotSpawned"
    PROVE  mState'[q] # "NotSpawned"
BY DEF StartTermination, TerminatedInternal, TypeOK, lifecycle

\* No step takes a process back to NotSpawned.
LEMMA NeverNotSpawnedAgain ==
    ASSUME TypeOK, NEW p \in Procs, Step(p),
           NEW q \in Procs, mState[q] # "NotSpawned"
    PROVE  mState'[q] # "NotSpawned"
<1>1. CASE Terminate(p) \/ RemoveTerminates(p) \/ OomKills(p)
  BY <1>1, StartTerminationLeaves DEF Terminate, RemoveTerminates, OomKills
<1>2. CASE KillBorrower(p)
  <2>1. victim[p] \in Procs /\ StartTermination(victim[p], TRUE)
    BY <1>2 DEF KillBorrower, TypeOK
  <2> QED BY <2>1, StartTerminationLeaves
<1>3. CASE SpawnPipeFails(p) \/ ForkFails(p) \/ GiveUp(p) \/ MarkTerminated(p)
  <2>1. mState' = [mState EXCEPT ![p] = "Terminated"]
    BY <1>3 DEF SpawnPipeFails, ForkFails, GiveUp, MarkTerminated, TerminatedInternal
  <2> QED BY <2>1 DEF TypeOK
<1>4. CASE Fork(p)
  BY <1>4 DEF Fork, TypeOK
<1>5. ASSUME ~(Terminate(p) \/ RemoveTerminates(p) \/ OomKills(p)), ~KillBorrower(p),
             ~(SpawnPipeFails(p) \/ ForkFails(p) \/ GiveUp(p) \/ MarkTerminated(p)),
             ~Fork(p)
      PROVE  UNCHANGED mState
  BY <1>5 DEF Step, Call, AddProcess, Spawn, RemoveProcess, SpawnStep,
     ReserveMemory, ReserveWhatIsLeft, FindBiggestBorrower, NoMoreBorrowers,
     ReserveAgain, PostFork, TerminationStep, CreateTerminationThread,
     TerminationNotNeeded, RequestStop, SendTerm, SendKill, SignalAndWait,
     TerminationSeesExit, Termination, RemoveStep, RemoveErases, MonitorStep,
     ReapChild, HandleChildExit, OutOfMemory, OomStep, OomBorrows, OomLends,
     ChildExits, lifecycle
<1> QED BY <1>1, <1>2, <1>3, <1>4, <1>5

\* Only Spawn starts a spawning thread, for a process that is NotSpawned.
LEMMA SpawnerStarts ==
    ASSUME TypeOK, NEW p \in Procs, Step(p),
           NEW q \in Procs, spawner[q] = "idle", spawner'[q] # "idle"
    PROVE  mState[q] = "NotSpawned"
<1>1. CASE Spawn(p)
  BY <1>1 DEF Spawn, TypeOK
<1>2. CASE SpawnStep(p)
  <2>1. spawner[p] # "idle" /\ \A r \in Procs : r # p => spawner'[r] = spawner[r]
    BY <1>2 DEF SpawnStep, ReserveMemory, ReserveWhatIsLeft, FindBiggestBorrower,
       NoMoreBorrowers, AtLoopHead, KillBorrower, ReserveAgain, ForkFails, Fork,
       PostFork, TypeOK
  <2> QED BY <2>1
<1>3. ASSUME ~Spawn(p), ~SpawnStep(p) PROVE UNCHANGED spawner
  BY <1>3 DEF Step, Call, AddProcess, SpawnPipeFails, Terminate, RemoveProcess,
     TerminationStep, CreateTerminationThread, TerminationNotNeeded, RequestStop,
     SendTerm, SendKill, SignalAndWait, GiveUp, TerminationSeesExit, Termination,
     RemoveStep, RemoveTerminates, RemoveErases, MonitorStep, ReapChild,
     HandleChildExit, MarkTerminated, OutOfMemory, OomStep, OomBorrows, OomLends,
     OomKills, ChildExits, spawning
<1> QED BY <1>1, <1>2, <1>3

\* A spawn that is over stays over.
LEMMA SpawnStaysOver ==
    ASSUME TypeOK, NEW p \in Procs, Step(p), NEW q \in Procs, SpawnIsOver(q)
    PROVE  SpawnIsOver(q)'
<1>1. mState'[q] # "NotSpawned"
  BY NeverNotSpawnedAgain DEF SpawnIsOver
<1>2. spawner'[q] = "idle"
  BY SpawnerStarts DEF SpawnIsOver
<1> QED BY <1>1, <1>2 DEF SpawnIsOver

\* Memory is lent by OomLends alone.
LEMMA LoanIsByMonitor ==
    ASSUME TypeOK, NEW p \in Procs, Step(p), NEW q \in Procs,
           mBorrowedMb'[q] # mBorrowedMb[q]
    PROVE  oom.at # "idle" /\ q = oom.proc
<1>1. CASE OomLends(p)
  BY <1>1 DEF OomLends, TypeOK
<1>2. ASSUME ~OomLends(p) PROVE UNCHANGED mBorrowedMb
  BY <1>2 DEF Step, Call, AddProcess, Spawn, SpawnPipeFails, Terminate,
     RemoveProcess, SpawnStep, ReserveMemory, ReserveWhatIsLeft,
     FindBiggestBorrower, NoMoreBorrowers, KillBorrower, ReserveAgain, ForkFails,
     Fork, PostFork, TerminationStep, CreateTerminationThread,
     TerminationNotNeeded, RequestStop, SendTerm, SendKill, SignalAndWait, GiveUp,
     TerminationSeesExit, Termination, RemoveStep, RemoveTerminates, RemoveErases,
     MonitorStep, ReapChild, HandleChildExit, MarkTerminated, OutOfMemory, OomStep,
     OomBorrows, OomKills, ChildExits, memory
<1> QED BY <1>1, <1>2

\* The out-of-memory monitor keeps the process it found, and finds one that is
\* Spawned with its mutex free.
LEMMA MonitorKeepsProcess ==
    ASSUME TypeOK, NEW p \in Procs, Step(p), oom'.at # "idle"
    PROVE  \/ oom.at # "idle" /\ oom'.proc = oom.proc
           \/ SpawnIsOver(oom'.proc)
<1>1. CASE OutOfMemory(p)
  BY <1>1 DEF OutOfMemory, SpawnIsOver, StateLocked
<1>2. CASE OomBorrows(p)
  <2>1. oom.at = "check" /\ oom'.proc = oom.proc
    BY <1>2 DEF OomBorrows
  <2> QED BY <2>1
<1>4. CASE OomLends(p) \/ OomKills(p)
  <2>1. oom' = Idle
    BY <1>4 DEF OomLends, OomKills
  <2> QED BY <2>1 DEF Idle
<1>3. ASSUME ~OutOfMemory(p), ~OomStep(p) PROVE UNCHANGED oom
  BY <1>3 DEF Step, Call, AddProcess, Spawn, SpawnPipeFails, Terminate,
     RemoveProcess, SpawnStep, ReserveMemory, ReserveWhatIsLeft,
     FindBiggestBorrower, NoMoreBorrowers, KillBorrower, ReserveAgain, ForkFails,
     Fork, PostFork, TerminationStep, CreateTerminationThread,
     TerminationNotNeeded, RequestStop, SendTerm, SendKill, SignalAndWait, GiveUp,
     TerminationSeesExit, Termination, RemoveStep, RemoveTerminates, RemoveErases,
     MonitorStep, ReapChild, HandleChildExit, MarkTerminated, ChildExits
<1> QED BY <1>1, <1>2, <1>3, <1>4 DEF OomStep

\* A spawning thread goes to "kill" with a process that has borrowed.
LEMMA VictimHasBorrowed ==
    ASSUME TypeOK, NEW p \in Procs, Step(p), NEW q \in Procs, spawner'[q] = "kill"
    PROVE  \/ spawner[q] = "kill" /\ victim'[q] = victim[q]
           \/ victim'[q] \in Procs /\ mBorrowedMb[victim'[q]] > 0
<1>1. ASSUME NEW b \in Procs, FindBiggestBorrower(p, b)
      PROVE  \/ spawner[q] = "kill" /\ victim'[q] = victim[q]
             \/ victim'[q] \in Procs /\ mBorrowedMb[victim'[q]] > 0
  <2>1. mBorrowedMb[b] > 0
    BY <1>1 DEF FindBiggestBorrower, BiggestBorrowers, Borrowers
  <2> QED BY <1>1, <2>1 DEF FindBiggestBorrower, TypeOK
<1>2. ASSUME ~\E b \in Procs : FindBiggestBorrower(p, b)
      PROVE  victim' = victim /\ (spawner'[q] = spawner[q] \/ spawner'[q] # "kill")
  BY <1>2 DEF Step, Call, AddProcess, Spawn, SpawnPipeFails, Terminate,
     RemoveProcess, SpawnStep, ReserveMemory, ReserveWhatIsLeft,
     NoMoreBorrowers, KillBorrower, ReserveAgain, ForkFails,
     Fork, PostFork, TerminationStep, CreateTerminationThread,
     TerminationNotNeeded, RequestStop, SendTerm, SendKill, SignalAndWait, GiveUp,
     TerminationSeesExit, Termination, RemoveStep, RemoveTerminates, RemoveErases,
     MonitorStep, ReapChild, HandleChildExit, MarkTerminated, OutOfMemory, OomStep,
     OomBorrows, OomLends, OomKills, ChildExits, spawning, TypeOK
<1> QED BY <1>1, <1>2

LEMMA LoanStep == TypeOK /\ LoanIsAfterSpawn /\ [Next]_vars => LoanIsAfterSpawn'
<1> SUFFICES ASSUME TypeOK, LoanIsAfterSpawn, [Next]_vars PROVE LoanIsAfterSpawn'
  OBVIOUS
<1>1. CASE UNCHANGED vars
  BY <1>1 DEF LoanIsAfterSpawn, SpawnIsOver, vars, lifecycle, memory, spawning
<1>2. ASSUME NEW p \in Procs, Step(p) PROVE LoanIsAfterSpawn'
  <2>1. ASSUME NEW q \in Procs, mBorrowedMb'[q] > 0 PROVE SpawnIsOver(q)'
    <3>1. SpawnIsOver(q)
      BY <1>2, <2>1, LoanIsByMonitor DEF LoanIsAfterSpawn
    <3> QED BY <1>2, <3>1, SpawnStaysOver
  <2>2. ASSUME oom'.at # "idle" PROVE SpawnIsOver(oom.proc)'
    <3>1. SpawnIsOver(oom'.proc)
      BY <1>2, <2>2, MonitorKeepsProcess DEF LoanIsAfterSpawn
    <3>2. PICK q \in Procs : q = oom'.proc
      BY <3>1 DEF SpawnIsOver
    <3>3. SpawnIsOver(q)'
      BY <1>2, <3>1, <3>2, SpawnStaysOver
    <3> QED BY <3>2, <3>3 DEF SpawnIsOver
  <2>3. ASSUME NEW q \in Procs, spawner'[q] = "kill" PROVE SpawnIsOver(victim[q])'
    <3>1. SpawnIsOver(victim'[q])
      BY <1>2, <2>3, VictimHasBorrowed DEF LoanIsAfterSpawn
    <3>2. PICK b \in Procs : b = victim'[q]
      BY <3>1 DEF SpawnIsOver
    <3>3. SpawnIsOver(b)'
      BY <1>2, <3>1, <3>2, SpawnStaysOver
    <3> QED BY <3>2, <3>3 DEF SpawnIsOver
  <2> QED BY <2>1, <2>2, <2>3 DEF LoanIsAfterSpawn
<1> QED BY <1>1, <1>2 DEF Next

\* The borrower a spawning thread is about to kill is never in the middle of
\* its own spawn, so that the two never wait for each other's state mutex,
\* nor a thread for its own.
THEOREM BorrowersAreOutOfSpawn == Spec => []BorrowerIsNotSpawning
<1>1. LoanIsAfterSpawn => BorrowerIsNotSpawning
  BY DEF LoanIsAfterSpawn, SpawnIsOver, BorrowerIsNotSpawning, StateLocked
<1>2. Init => TypeOK /\ LoanIsAfterSpawn
  BY TypeInit, LoanInit
<1>3. TypeOK /\ LoanIsAfterSpawn /\ [Next]_vars => (TypeOK /\ LoanIsAfterSpawn)'
  BY TypeStep, LoanStep
<1> QED BY <1>1, <1>2, <1>3, PTL DEF Spec

-----------------------------------------------------------------------------
(* Megabytes.  HeldMb counts what the processes hold; one process's share  *)
(* can be exchanged for another without counting the others again.         *)

\* n megabytes of process p.
Share(p, n) == {p} \X (0 .. (n - 1))

LEMMA ShareCount ==
    ASSUME NEW p, NEW n \in Unsigned
    PROVE  IsFiniteSet(Share(p, n)) /\ Cardinality(Share(p, n)) = n
<1>1. n \in Nat
  BY WordAssumption DEF Unsigned
<1>2. IsFiniteSet(0 .. (n - 1)) /\ Cardinality(0 .. (n - 1)) = n
  <2>1. /\ IsFiniteSet(0 .. (n - 1))
        /\ Cardinality(0 .. (n - 1)) = IF 0 > n - 1 THEN 0 ELSE (n - 1) - 0 + 1
    BY <1>1, FS_Interval
  <2> QED BY <1>1, <2>1
<1>3. IsFiniteSet({p}) /\ Cardinality({p}) = 1
  BY FS_Singleton
<1>4. /\ IsFiniteSet(Share(p, n))
      /\ Cardinality(Share(p, n)) = Cardinality({p}) * Cardinality(0 .. (n - 1))
  BY <1>2, <1>3, FS_Product DEF Share
<1> QED BY <1>1, <1>2, <1>3, <1>4

LEMMA HeldType ==
    ASSUME IsFiniteSet(Procs), NEW f
    PROVE  IsFiniteSet(Megabytes(f)) /\ HeldMb(f) \in Nat
<1>1. IsFiniteSet(Unsigned)
  BY WordAssumption, FS_Interval DEF Unsigned
<1>2. IsFiniteSet(Procs \X Unsigned)
  BY <1>1, FS_Product
<1>3. IsFiniteSet(Megabytes(f))
  BY <1>2, FS_Subset DEF Megabytes
<1> QED BY <1>3, FS_CardinalityType DEF HeldMb

\* What is held in all is what p holds and what the others hold.
LEMMA HeldSplits ==
    ASSUME IsFiniteSet(Procs), NEW f \in [Procs -> Unsigned], NEW p \in Procs
    PROVE  HeldMb(f) = f[p] + Cardinality({h \in Megabytes(f) : h[1] # p})
<1> DEFINE Others == {h \in Megabytes(f) : h[1] # p}
<1>1. f[p] \in Unsigned /\ f[p] \in Nat
  BY WordAssumption DEF Unsigned
<1>2. Megabytes(f) = Share(p, f[p]) \cup Others
  <2>1. ASSUME NEW h \in Megabytes(f) PROVE h \in Share(p, f[p]) \cup Others
    <3>1. h \in Procs \X Unsigned /\ h[2] < f[h[1]]
      BY DEF Megabytes
    <3>2. CASE h[1] = p
      <4>1. h = <<h[1], h[2]>> /\ h[2] \in 0 .. (f[p] - 1)
        BY <1>1, <3>1, <3>2, WordAssumption DEF Unsigned
      <4> QED BY <3>2, <4>1 DEF Share
    <3> QED BY <3>2
  <2>2. ASSUME NEW h \in Share(p, f[p]) PROVE h \in Megabytes(f)
    <3>1. PICK n \in 0 .. (f[p] - 1) : h = <<p, n>>
      BY DEF Share
    <3>2. n \in Unsigned /\ n < f[p]
      BY <1>1, WordAssumption DEF Unsigned
    <3> QED BY <3>1, <3>2 DEF Megabytes
  <2> QED BY <2>1, <2>2
<1>3. Share(p, f[p]) \cap Others = {}
  BY DEF Share
<1>4. IsFiniteSet(Others) /\ Cardinality(Others) \in Nat
  BY HeldType, FS_Subset, FS_CardinalityType
<1>5. IsFiniteSet(Share(p, f[p])) /\ Cardinality(Share(p, f[p])) = f[p]
  BY <1>1, ShareCount
<1> HIDE DEF Others
<1>6. Cardinality(Share(p, f[p]) \cup Others)
        = Cardinality(Share(p, f[p])) + Cardinality(Others)
            - Cardinality(Share(p, f[p]) \cap Others)
  BY <1>4, <1>5, FS_Union
<1>7. Cardinality(Share(p, f[p]) \cap Others) = 0
  BY <1>3, FS_EmptySet
<1>8. HeldMb(f) = f[p] + Cardinality(Others)
  BY <1>1, <1>2, <1>4, <1>5, <1>6, <1>7 DEF HeldMb
<1> QED BY <1>8 DEF Others

\* When one process's share changes, the sum changes by as much.
LEMMA HeldChanges ==
    ASSUME IsFiniteSet(Procs), NEW f \in [Procs -> Unsigned],
           NEW p \in Procs, NEW n \in Unsigned
    PROVE  HeldMb([f EXCEPT ![p] = n]) = HeldMb(f) - f[p] + n
<1> DEFINE g == [f EXCEPT ![p] = n]
<1>1. /\ g \in [Procs -> Unsigned] /\ g[p] = n
      /\ \A q \in Procs : q # p => g[q] = f[q]
  OBVIOUS
<1> HIDE DEF g
<1>2. {h \in Megabytes(g) : h[1] # p} = {h \in Megabytes(f) : h[1] # p}
  BY <1>1 DEF Megabytes
<1> DEFINE rest == Cardinality({h \in Megabytes(f) : h[1] # p})
<1>3. HeldMb(f) = f[p] + rest /\ HeldMb(g) = n + rest
  BY <1>1, <1>2, HeldSplits
<1>4. rest \in Nat
  BY HeldType, FS_Subset, FS_CardinalityType
<1> HIDE DEF rest
<1>5. f[p] \in Nat /\ n \in Nat
  BY WordAssumption DEF Unsigned
<1>6. HeldMb(g) = HeldMb(f) - f[p] + n
  BY <1>3, <1>4, <1>5
<1> QED BY <1>6 DEF g

LEMMA HeldBound ==
    ASSUME IsFiniteSet(Procs), NEW f \in [Procs -> Unsigned], NEW p \in Procs
    PROVE  f[p] <= HeldMb(f)
<1> DEFINE rest == Cardinality({h \in Megabytes(f) : h[1] # p})
<1>1. HeldMb(f) = f[p] + rest
  BY HeldSplits
<1>2. rest \in Nat
  BY HeldType, FS_Subset, FS_CardinalityType
<1> HIDE DEF rest
<1>3. f[p] \in Nat
  BY WordAssumption DEF Unsigned
<1> QED BY <1>1, <1>2, <1>3

LEMMA HeldNothing == HeldMb([p \in Procs |-> 0]) = 0
<1>1. Megabytes([p \in Procs |-> 0]) = {}
  BY WordAssumption DEF Megabytes, Unsigned
<1> QED BY <1>1, FS_EmptySet DEF HeldMb

LEMMA HeldGrows ==
    ASSUME IsFiniteSet(Procs), NEW f \in [Procs -> Unsigned],
           NEW g \in [Procs -> Unsigned], \A p \in Procs : f[p] <= g[p]
    PROVE  HeldMb(f) <= HeldMb(g)
<1>1. Megabytes(f) \subseteq Megabytes(g)
  <2> SUFFICES ASSUME NEW h \in Megabytes(f) PROVE h \in Megabytes(g)
    OBVIOUS
  <2>1. h \in Procs \X Unsigned /\ h[2] < f[h[1]]
    BY DEF Megabytes
  <2>2. h[1] \in Procs /\ h[2] \in Int /\ f[h[1]] \in Int /\ g[h[1]] \in Int
    BY <2>1, UnsignedIsInt
  <2>3. h[2] < g[h[1]]
    BY <2>1, <2>2
  <2> QED BY <2>1, <2>3 DEF Megabytes
<1> QED BY <1>1, HeldType, FS_Subset DEF HeldMb
-----------------------------------------------------------------------------
(* The arithmetic of the ledger.                                           *)

LEMMA WrapTurns == ASSUME NEW n \in Int PROVE \E k \in Int : n = k * WORD + Wrap(n)
<1>1. WORD \in Nat /\ WORD > 0
  BY WordAssumption
<1>2. n = (n \div WORD) * WORD + (n % WORD) /\ n \div WORD \in Int
  BY <1>1, SMTT(60)
<1> QED BY <1>2 DEF Wrap

LEMMA WrapIsUnique == ASSUME NEW n \in Unsigned, NEW k \in Int PROVE Wrap(n + k * WORD) = n
<1>1. WORD \in Nat /\ WORD > 0 /\ n \in Int /\ 0 <= n /\ n < WORD
  BY WordAssumption DEF Unsigned
<1>2. (n + k * WORD) % WORD = n
  BY <1>1, SMTT(60)
<1> QED BY <1>2 DEF Wrap

\* reserve() answers 0 exactly when it has made the reservation, also where
\* its unsigned arithmetic wraps.
THEOREM ZeroMeansReserved ==
    ASSUME NEW l \in Ledger, NEW n \in Unsigned
    PROVE  Deficit(l, n) = 0 <=> Fits(l, n)
<1> SUFFICES ASSUME Deficit(l, n) = 0 PROVE Fits(l, n)
  BY DEF Deficit
<1> DEFINE free == l.available - l.reserved - l.borrowed
           used == l.reserved + l.borrowed + n
<1>1. /\ l.reserved \in Int /\ l.borrowed \in Int /\ n \in Int
      /\ l.available \in Unsigned /\ l.available \in Int
  BY UnsignedIsInt DEF Ledger
<1>2. free \in Int /\ Wrap(free) \in Int
  <2>1. free \in Int
    BY <1>1
  <2> QED BY <2>1, WrapType, UnsignedIsInt
<1>3. PICK j \in Int : free = j * WORD + Wrap(free)
  BY <1>2, WrapTurns
<1>4. CASE Wrap(n - Wrap(free)) = 0
  <2>1. PICK k \in Int : n - Wrap(free) = k * WORD + Wrap(n - Wrap(free))
    <3>1. n - Wrap(free) \in Int
      BY <1>1, <1>2
    <3> QED BY <3>1, WrapTurns
  <2>2. used - l.available = n - free
    BY <1>1
  <2>3. n - free = k * WORD - j * WORD
    <3>1. k * WORD \in Int /\ j * WORD \in Int
      BY WordAssumption
    <3> HIDE DEF free
    <3> QED BY <1>1, <1>2, <1>3, <1>4, <2>1, <3>1
  <2>4. k * WORD - j * WORD = (k - j) * WORD
    BY WordAssumption
  <2>5. used = l.available + (k - j) * WORD
    <3>1. (k - j) * WORD \in Int
      BY WordAssumption
    <3>2. used \in Int /\ free \in Int
      BY <1>1
    <3> HIDE DEF used, free
    <3> QED BY <1>1, <2>2, <2>3, <2>4, <3>1, <3>2
  <2>6. Wrap(used) = l.available
    <3>1. k - j \in Int
      OBVIOUS
    <3> HIDE DEF used
    <3> QED BY <1>1, <2>5, <3>1, WrapIsUnique
  <2> QED BY <1>1, <2>6 DEF Fits
<1>5. CASE Fits(l, n)
  BY <1>5
<1> QED BY <1>4, <1>5 DEF Deficit

\* What a ledger has given away.
InUse(l) == l.reserved + l.borrowed

LEMMA WrapSmall == \A n \in Unsigned : Wrap(n) = n
BY WordAssumption DEF Wrap, Unsigned

\* While sums stay below WORD the ledger's test is the comparison it looks
\* like.
LEMMA FitsIsExact ==
    ASSUME NEW l \in Ledger, NEW n \in Unsigned,
           InUse(l) <= l.available, l.available + n < WORD
    PROVE  Fits(l, n) <=> InUse(l) + n <= l.available
<1>1. /\ l.reserved \in Nat /\ l.borrowed \in Nat /\ l.available \in Nat /\ n \in Nat
      /\ WORD \in Nat
  BY WordAssumption DEF Ledger, Unsigned
<1>2. l.reserved + l.borrowed + n \in Unsigned
  BY <1>1 DEF InUse, Unsigned
<1>3. Wrap(l.reserved + l.borrowed + n) = l.reserved + l.borrowed + n
  BY <1>2, WrapSmall
<1> QED BY <1>3 DEF Fits, InUse

\* The deficit of a refused request is what is missing, neither more than was
\* asked for nor 0.
LEMMA DeficitIsExact ==
    ASSUME NEW l \in Ledger, NEW n \in Unsigned,
           InUse(l) <= l.available, l.available + n < WORD, ~Fits(l, n)
    PROVE  /\ Deficit(l, n) = InUse(l) + n - l.available
           /\ Deficit(l, n) \in 1 .. n
<1>1. /\ l.reserved \in Nat /\ l.borrowed \in Nat /\ l.available \in Nat /\ n \in Nat
      /\ WORD \in Nat
  BY WordAssumption DEF Ledger, Unsigned
<1>2. InUse(l) + n > l.available
  BY <1>1, FitsIsExact DEF InUse
<1>3. l.available - l.reserved - l.borrowed \in Unsigned
  BY <1>1 DEF InUse, Unsigned
<1>4. Wrap(l.available - l.reserved - l.borrowed) = l.available - l.reserved - l.borrowed
  BY <1>3, WrapSmall
<1>5. n - (l.available - l.reserved - l.borrowed) \in Unsigned
  BY <1>1, <1>2 DEF InUse, Unsigned
<1>6. Deficit(l, n) = n - (l.available - l.reserved - l.borrowed)
  BY <1>4, <1>5, WrapSmall DEF Deficit
<1> QED BY <1>1, <1>2, <1>6 DEF InUse

\* Asking again for what the deficit leaves of a refused request takes all
\* that is free, if nobody else asked in between.
THEOREM WhatIsLeftFits ==
    ASSUME NEW l \in Ledger, NEW n \in Unsigned,
           InUse(l) <= l.available, l.available + n < WORD, ~Fits(l, n)
    PROVE  LET rest == Wrap(n - Deficit(l, n)) IN
           /\ Fits(l, rest)
           /\ InUse(Reserve(l, rest)) = l.available
<1> DEFINE rest == Wrap(n - Deficit(l, n))
<1>1. /\ l.reserved \in Nat /\ l.borrowed \in Nat /\ l.available \in Nat /\ n \in Nat
      /\ WORD \in Nat
  BY WordAssumption DEF Ledger, Unsigned
<1>2. n - Deficit(l, n) = l.available - InUse(l) /\ InUse(l) \in Nat
  BY <1>1, DeficitIsExact DEF InUse
<1>3. l.available - InUse(l) \in Unsigned /\ l.available < WORD
  BY <1>1, <1>2 DEF Unsigned
<1>4. rest = l.available - InUse(l)
  BY <1>2, <1>3, WrapSmall
<1> HIDE DEF rest
<1>5. rest \in Unsigned /\ l.reserved + l.borrowed + rest = l.available /\ l.available \in Unsigned
  BY <1>1, <1>2, <1>3, <1>4 DEF InUse, Unsigned
<1>6. Fits(l, rest)
  BY <1>1, <1>5, WrapSmall DEF Fits
<1>7. l.reserved + rest \in Unsigned
  BY <1>1, <1>5 DEF Unsigned
<1>8. Wrap(l.reserved + rest) = l.reserved + rest
  BY <1>7, WrapSmall
<1>9. Reserve(l, rest) = [l EXCEPT !.reserved = l.reserved + rest]
  BY <1>6, <1>8 DEF Reserve
<1>10. Reserve(l, rest).reserved = l.reserved + rest /\ Reserve(l, rest).borrowed = l.borrowed
  BY <1>9 DEF Ledger
<1>11. rest \in Nat
  BY <1>5, WordAssumption DEF Unsigned
<1>12. InUse(Reserve(l, rest)) = l.available
  BY <1>1, <1>5, <1>10, <1>11 DEF InUse
<1> QED BY <1>6, <1>12 DEF rest

-----------------------------------------------------------------------------
(* What a step does to the ledger.                                         *)

\* p is between its refused request and its second one.
Settling(p) == spawner[p] \in {"shortfall", "lastTry"}

\* Its second request.
WhatIsLeft(p) == Wrap(AssignedMb[p] - shortfall[p])

\* A process that has not been forked has no memory before its spawning
\* thread gets to the fork.
NotReservedYet ==
    \A p \in Procs :
        mState[p] = "NotSpawned" /\ spawner[p] # "fork" => mReservedMb[p] = 0

\* The ledger is charged for a loan, the process is not yet.
Lending == oom.at = "lend"

\* The kinds of step: they leave all accounts as they are, reserve n, refuse
\* a second request, release, or do one half of a loan.
LeavesLedger ==
    /\ UNCHANGED <<mReservedMb, mBorrowedMb, mMemory>>
    /\ Lending' <=> Lending

Grants(p, n) ==
    /\ Fits(mMemory, n)
    /\ mReservedMb[p] = 0
    /\ mMemory' = Reserve(mMemory, n)
    /\ mReservedMb' = [mReservedMb EXCEPT ![p] = n]
    /\ UNCHANGED <<mBorrowedMb, oom>>

GrantsAll(p) == Grants(p, AssignedMb[p])

GrantsRest(p) == Settling(p) /\ Grants(p, WhatIsLeft(p))

RefusesRest(p) == Settling(p) /\ ~Fits(mMemory, WhatIsLeft(p))

Releases(p) == ReleaseMemory(p) /\ UNCHANGED <<mBorrowedMb, oom>>

ChargesLoan ==
    /\ mLoanMemory
    /\ Fits(mMemory, LoanMb)
    /\ mMemory' = Borrow(mMemory, LoanMb)
    /\ ~Lending /\ Lending'
    /\ UNCHANGED <<mReservedMb, mBorrowedMb>>

PaysLoan(p) ==
    /\ Lending /\ ~Lending'
    /\ mBorrowedMb' = [mBorrowedMb EXCEPT ![p] = Wrap(@ + LoanMb)]
    /\ UNCHANGED <<mReservedMb, mMemory>>

\* Every step is of one of these kinds.
LEMMA LedgerStep ==
    ASSUME TypeOK, IInv, NotReservedYet, [Next]_vars
    PROVE  \/ LeavesLedger
           \/ ChargesLoan
           \/ \E p \in Procs : \/ GrantsAll(p) \/ GrantsRest(p) \/ RefusesRest(p)
                               \/ Releases(p) \/ PaysLoan(p)
<1> DEFINE Kinds == \/ LeavesLedger
                    \/ ChargesLoan
                    \/ \E p \in Procs : \/ GrantsAll(p) \/ GrantsRest(p) \/ RefusesRest(p)
                                        \/ Releases(p) \/ PaysLoan(p)
<1>1. CASE UNCHANGED vars
  BY <1>1 DEF LeavesLedger, Lending, vars, memory
<1>2. ASSUME NEW p \in Procs, Step(p) PROVE Kinds
  <2>1. CASE ReserveMemory(p) \/ ReserveAgain(p)
    <3>1. mReservedMb[p] = 0
      BY <2>1 DEF ReserveMemory, ReserveAgain, IInv, SpawningIsBeforeSpawned, NotReservedYet
    <3>2. Deficit(mMemory, AssignedMb[p]) = 0 <=> Fits(mMemory, AssignedMb[p])
      BY ZeroMeansReserved, MemoryAssumption DEF TypeOK
    <3>3. CASE Fits(mMemory, AssignedMb[p])
      <4>1. GrantsAll(p)
        BY <2>1, <3>1, <3>2, <3>3 DEF ReserveMemory, ReserveAgain, GrantsAll, Grants
      <4> QED BY <4>1
    <3>4. CASE ~Fits(mMemory, AssignedMb[p])
      BY <2>1, <3>2, <3>4
      DEF ReserveMemory, ReserveAgain, Reserve, LeavesLedger, Lending
    <3> QED BY <3>3, <3>4
  <2>2. CASE ReserveWhatIsLeft(p)
    <3>1. mReservedMb[p] = 0
      BY <2>2 DEF ReserveWhatIsLeft, IInv, SpawningIsBeforeSpawned, NotReservedYet
    <3>2. Settling(p)
      BY <2>2 DEF ReserveWhatIsLeft, Settling
    <3>3. Fits(mMemory, WhatIsLeft(p)) => Grants(p, WhatIsLeft(p))
      BY <2>2, <3>1 DEF ReserveWhatIsLeft, WhatIsLeft, Grants
    <3> QED BY <3>2, <3>3 DEF GrantsRest, RefusesRest
  <2>3. CASE ForkFails(p) \/ HandleChildExit(p) \/ (MarkTerminated(p) /\ mState[p] # "Terminated")
    <3>1. Releases(p)
      BY <2>3 DEF ForkFails, HandleChildExit, MarkTerminated, Releases
    <3> QED BY <3>1
  <2>4. CASE MarkTerminated(p) /\ mState[p] = "Terminated"
    BY <2>4 DEF MarkTerminated, LeavesLedger, Lending
  <2>5. CASE OomBorrows(p)
    <3>1. Fits(mMemory, LoanMb)
      BY <2>5 DEF OomBorrows, Loan
    <3>2. ~Lending /\ Lending'
      <4>1. oom.at = "check" /\ oom' = [oom EXCEPT !.at = "lend"]
        BY <2>5 DEF OomBorrows
      <4> QED BY <4>1 DEF Lending, TypeOK
    <3> QED BY <2>5, <3>1, <3>2 DEF OomBorrows, ChargesLoan
  <2>6. CASE OomLends(p)
    <3>1. Lending /\ ~Lending'
      <4>1. oom.at = "lend" /\ oom' = Idle
        BY <2>6 DEF OomLends
      <4> QED BY <4>1 DEF Lending, Idle
    <3>2. PaysLoan(p)
      BY <2>6, <3>1 DEF OomLends, PaysLoan
    <3> QED BY <3>2
  <2>7. CASE OutOfMemory(p) \/ OomKills(p)
    <3>1. UNCHANGED memory
      BY <2>7 DEF OutOfMemory, OomKills
    <3>2. ~Lending /\ ~Lending'
      <4>1. CASE OutOfMemory(p)
        BY <4>1 DEF OutOfMemory, Lending
      <4>2. CASE OomKills(p)
        <5>1. oom.at = "check" /\ oom' = Idle
          BY <4>2 DEF OomKills
        <5> QED BY <5>1 DEF Lending, Idle
      <4> QED BY <2>7, <4>1, <4>2
    <3> QED BY <3>1, <3>2 DEF LeavesLedger, memory
  <2>8. CASE Call(p) \/ RemoveStep(p) \/ ChildExits(p) \/ ReapChild(p)
    <3>1. UNCHANGED memory /\ oom' = oom
      BY <2>8 DEF Call, AddProcess, Spawn, SpawnPipeFails, Terminate, RemoveProcess,
         RemoveStep, RemoveTerminates, RemoveErases, ChildExits, ReapChild
    <3> QED BY <3>1 DEF LeavesLedger, Lending, memory
  <2>9. CASE TerminationStep(p)
    <3>1. UNCHANGED memory /\ oom' = oom
      BY <2>9 DEF TerminationStep, CreateTerminationThread, TerminationNotNeeded,
         RequestStop, SendTerm, SendKill, SignalAndWait, GiveUp, TerminationSeesExit,
         Termination
    <3> QED BY <3>1 DEF LeavesLedger, Lending, memory
  <2>10. CASE \/ \E b \in Procs : FindBiggestBorrower(p, b)
              \/ NoMoreBorrowers(p) \/ KillBorrower(p) \/ Fork(p) \/ PostFork(p)
    <3>1. UNCHANGED memory /\ oom' = oom
      BY <2>10 DEF FindBiggestBorrower, NoMoreBorrowers, KillBorrower, Fork, PostFork
    <3> QED BY <3>1 DEF LeavesLedger, Lending, memory
  <2> QED BY <1>2, <2>1, <2>2, <2>3, <2>4, <2>5, <2>6, <2>7, <2>8, <2>9, <2>10
          DEF Step, SpawnStep, MonitorStep, OomStep
<1> QED BY <1>1, <1>2 DEF Next

LEMMA NotReservedStep ==
    ASSUME TypeOK, IInv, NotReservedYet, [Next]_vars
    PROVE  NotReservedYet'
<1>1. CASE UNCHANGED vars
  BY <1>1 DEF NotReservedYet, vars, lifecycle, memory, spawning
<1>2. ASSUME NEW p \in Procs, Step(p), NEW q \in Procs,
             mState'[q] = "NotSpawned", spawner'[q] # "fork"
      PROVE  mReservedMb'[q] = 0
  <2>1. mState[q] = "NotSpawned"
    BY <1>2, NeverNotSpawnedAgain
  <2>2. spawner[q] # "fork"
    <3>1. SUFFICES ASSUME spawner[q] = "fork" PROVE FALSE
      OBVIOUS
    <3>2. CASE Fork(p) \/ ForkFails(p)
      <4>1. p = q
        BY <1>2, <3>1, <3>2 DEF Fork, ForkFails, TypeOK
      <4> QED BY <1>2, <3>2, <4>1 DEF Fork, ForkFails, TerminatedInternal, TypeOK
    <3>3. CASE SpawnStep(p) /\ ~Fork(p) /\ ~ForkFails(p)
      <4>1. spawner[p] # "fork" /\ \A r \in Procs : r # p => spawner'[r] = spawner[r]
        BY <3>3 DEF SpawnStep, ReserveMemory, ReserveWhatIsLeft, FindBiggestBorrower,
           NoMoreBorrowers, AtLoopHead, KillBorrower, ReserveAgain, PostFork, TypeOK
      <4> QED BY <1>2, <3>1, <4>1
    <3>4. CASE Spawn(p)
      BY <1>2, <3>1, <3>4 DEF Spawn, StateLocked, TypeOK
    <3>5. ASSUME ~Spawn(p), ~SpawnStep(p) PROVE UNCHANGED spawner
      BY <1>2, <3>5 DEF Step, Call, AddProcess, SpawnPipeFails, Terminate, RemoveProcess,
         TerminationStep, CreateTerminationThread, TerminationNotNeeded, RequestStop,
         SendTerm, SendKill, SignalAndWait, GiveUp, TerminationSeesExit, Termination,
         RemoveStep, RemoveTerminates, RemoveErases, MonitorStep, ReapChild,
         HandleChildExit, MarkTerminated, OutOfMemory, OomStep, OomBorrows, OomLends,
         OomKills, ChildExits, spawning
    <3> QED BY <1>2, <3>1, <3>2, <3>3, <3>4, <3>5
  <2>3. mReservedMb[q] = 0
    BY <2>1, <2>2 DEF NotReservedYet
  <2>4. ASSUME mReservedMb'[q] # 0, mReservedMb' # mReservedMb
        PROVE  FALSE
    <3>1. CASE ReserveMemory(p) \/ ReserveAgain(p) \/ ReserveWhatIsLeft(p)
      <4>1. p = q
        BY <2>3, <2>4, <3>1 DEF ReserveMemory, ReserveAgain, ReserveWhatIsLeft, TypeOK
      <4> QED BY <1>2, <2>4, <3>1, <4>1
              DEF ReserveMemory, ReserveAgain, ReserveWhatIsLeft, TypeOK
    <3>2. CASE ReleaseMemory(p)
      BY <2>3, <2>4, <3>2 DEF ReleaseMemory, TypeOK
    <3>3. ASSUME ~(ReserveMemory(p) \/ ReserveAgain(p) \/ ReserveWhatIsLeft(p)),
                 ~ReleaseMemory(p)
          PROVE  UNCHANGED mReservedMb
      BY <1>2, <3>3 DEF Step, Call, AddProcess, Spawn, SpawnPipeFails, Terminate,
         RemoveProcess, SpawnStep, FindBiggestBorrower, NoMoreBorrowers,
         KillBorrower, ForkFails, Fork, PostFork, TerminationStep,
         CreateTerminationThread, TerminationNotNeeded, RequestStop, SendTerm,
         SendKill, SignalAndWait, GiveUp, TerminationSeesExit, Termination,
         RemoveStep, RemoveTerminates, RemoveErases, MonitorStep, ReapChild,
         HandleChildExit, MarkTerminated, OutOfMemory, OomStep, OomBorrows,
         OomLends, OomKills, ChildExits, memory
    <3> QED BY <2>4, <3>1, <3>2, <3>3
  <2> QED BY <2>3, <2>4
<1> QED BY <1>1, <1>2 DEF Next, NotReservedYet

\* A thread that is settling was refused in this step, or before it.
LEMMA SettlingStep ==
    ASSUME TypeOK, [Next]_vars, NEW q \in Procs, Settling(q)'
    PROVE  \/ Settling(q) /\ shortfall'[q] = shortfall[q]
           \/ /\ shortfall'[q] = Deficit(mMemory, AssignedMb[q])
              /\ ~Fits(mMemory, AssignedMb[q])
              /\ UNCHANGED mMemory
<1>1. CASE UNCHANGED vars
  BY <1>1 DEF Settling, vars, spawning
<1>2. ASSUME NEW p \in Procs, Step(p), spawner'[q] # spawner[q] \/ shortfall'[q] # shortfall[q]
      PROVE  /\ shortfall'[q] = Deficit(mMemory, AssignedMb[q])
             /\ ~Fits(mMemory, AssignedMb[q])
             /\ UNCHANGED mMemory
  <2>1. CASE ReserveMemory(p) \/ ReserveAgain(p)
    <3>1. p = q
      BY <1>2, <2>1 DEF ReserveMemory, ReserveAgain, TypeOK
    <3>2. shortfall'[q] = Deficit(mMemory, AssignedMb[q])
      BY <2>1, <3>1 DEF ReserveMemory, ReserveAgain, TypeOK
    <3>3. Deficit(mMemory, AssignedMb[q]) # 0
      BY <2>1, <3>1 DEF ReserveMemory, ReserveAgain, TypeOK, Settling
    <3>4. ~Fits(mMemory, AssignedMb[q])
      BY <3>3 DEF Deficit
    <3>5. mMemory' = Reserve(mMemory, AssignedMb[q])
      BY <2>1, <3>1 DEF ReserveMemory, ReserveAgain
    <3> QED BY <3>2, <3>4, <3>5 DEF Reserve
  <2>2. ASSUME ~(ReserveMemory(p) \/ ReserveAgain(p))
        PROVE  \/ spawner'[q] \notin {"shortfall", "lastTry"}
               \/ spawner'[q] = spawner[q] /\ shortfall'[q] = shortfall[q]
    BY <1>2, <2>2 DEF Step, Call, AddProcess, Spawn, SpawnPipeFails, Terminate,
       RemoveProcess, SpawnStep, ReserveWhatIsLeft, FindBiggestBorrower,
       NoMoreBorrowers, KillBorrower, ForkFails, Fork, PostFork, TerminationStep,
       CreateTerminationThread, TerminationNotNeeded, RequestStop, SendTerm,
       SendKill, SignalAndWait, GiveUp, TerminationSeesExit, Termination,
       RemoveStep, RemoveTerminates, RemoveErases, MonitorStep, ReapChild,
       HandleChildExit, MarkTerminated, OutOfMemory, OomStep, OomBorrows,
       OomLends, OomKills, ChildExits, spawning, TypeOK
  <2> QED BY <1>2, <2>1, <2>2 DEF Settling
<1> QED BY <1>1, <1>2 DEF Next, Settling, vars, spawning

-----------------------------------------------------------------------------
(* The ledger balances as long as nobody takes memory between the two      *)
(* requests of a spawning thread, whose second answer the code ignores.    *)

\* Amounts that an unsigned int adds up without wrapping, as megabytes of a
\* real node do.
SmallNumbers ==
    /\ IsFiniteSet(Procs)
    /\ \A p \in Procs : AvailableMb + AssignedMb[p] < WORD
    /\ AvailableMb + LoanMb < WORD

\* A step that leaves a thread between its two requests does not take memory.
NobodyOvertakes ==
    \A p \in Procs : Settling(p) /\ Settling(p)' => InUse(mMemory') <= InUse(mMemory)

\* No more is reserved and borrowed than there is.
WithinAvailable == mMemory.available = AvailableMb /\ InUse(mMemory) <= AvailableMb

\* What the first request's deficit leaves is still free.
WhatIsLeftIsKnown ==
    \A p \in Procs :
        Settling(p) =>
            /\ shortfall[p] \in 0 .. AssignedMb[p]
            /\ InUse(mMemory) + AssignedMb[p] - shortfall[p] <= AvailableMb

\* The amounts are numbers, which a ledger adds without wrapping.
LEMMA LedgerNumbers ==
    ASSUME TypeOK
    PROVE  /\ mMemory.reserved \in Nat /\ mMemory.borrowed \in Nat
           /\ mMemory.available \in Nat /\ InUse(mMemory) \in Nat
           /\ WORD \in Nat /\ AvailableMb \in Nat /\ LoanMb \in Nat
           /\ \A p \in Procs : /\ AssignedMb[p] \in Nat /\ mReservedMb[p] \in Nat
                               /\ mBorrowedMb[p] \in Nat
<1>1. \A n \in Unsigned : n \in Nat
  BY WordAssumption DEF Unsigned
<1>2. mMemory.reserved \in Nat /\ mMemory.borrowed \in Nat /\ mMemory.available \in Nat
  BY <1>1 DEF TypeOK, Ledger
<1> QED BY <1>1, <1>2, MemoryAssumption, WordAssumption DEF TypeOK, InUse

\* A granted request charges the ledger and one process with the same amount.
LEMMA GrantKeepsBalance ==
    ASSUME IsFiniteSet(Procs), TypeOK, LedgerBalances, WithinAvailable,
           NEW p \in Procs, NEW n \in Unsigned, Grants(p, n),
           InUse(mMemory) + n <= AvailableMb
    PROVE  LedgerBalances' /\ WithinAvailable'
<1>0. n \in Nat
  BY WordAssumption DEF Unsigned
<1>2. mMemory.reserved + n \in Unsigned
  BY <1>0, LedgerNumbers, MemoryAssumption DEF InUse, Unsigned
<1>3. mMemory' = [mMemory EXCEPT !.reserved = mMemory.reserved + n]
  BY <1>2, WrapSmall DEF Grants, Reserve
<1>4. /\ mMemory'.reserved = mMemory.reserved + n
      /\ mMemory'.borrowed = mMemory.borrowed /\ mMemory'.available = mMemory.available
  BY <1>3 DEF TypeOK, Ledger
<1>5. HeldMb(mReservedMb') = HeldMb(mReservedMb) + n
  <2>0. mReservedMb \in [Procs -> Unsigned]
    BY DEF TypeOK
  <2>1. HeldMb([mReservedMb EXCEPT ![p] = n]) = HeldMb(mReservedMb) - mReservedMb[p] + n
    BY <2>0, HeldChanges
  <2>2. HeldMb(mReservedMb) \in Nat
    BY HeldType
  <2> QED BY <1>0, <2>1, <2>2 DEF Grants
<1>6. LedgerBalances'
  <2>1. mBorrowedMb' = mBorrowedMb /\ oom' = oom
    BY DEF Grants
  <2>2. mMemory'.reserved = HeldMb(mReservedMb')
    BY <1>4, <1>5 DEF LedgerBalances
  <2>3. mMemory'.borrowed = HeldMb(mBorrowedMb') + (IF oom'.at = "lend" THEN LoanMb ELSE 0)
    BY <1>4, <2>1 DEF LedgerBalances
  <2> QED BY <2>2, <2>3 DEF LedgerBalances
<1>7. WithinAvailable'
  BY <1>0, <1>4, LedgerNumbers DEF WithinAvailable, InUse
<1> QED BY <1>6, <1>7

\* releaseMemory gives back what the process holds, which is never more than
\* the ledger has reserved.
LEMMA ReleaseKeepsBalance ==
    ASSUME IsFiniteSet(Procs), TypeOK, LedgerBalances, WithinAvailable,
           NEW p \in Procs, Releases(p)
    PROVE  LedgerBalances' /\ WithinAvailable'
<1>1. mReservedMb[p] <= mMemory.reserved
  BY HeldBound DEF LedgerBalances, TypeOK
<1>2. mMemory.reserved - mReservedMb[p] \in Unsigned
  BY <1>1, LedgerNumbers DEF TypeOK, Ledger, Unsigned
<1>3. mMemory' = [mMemory EXCEPT !.reserved = mMemory.reserved - mReservedMb[p]]
  BY <1>2, WrapSmall DEF Releases, ReleaseMemory, Release
<1>4. /\ mMemory'.reserved = mMemory.reserved - mReservedMb[p]
      /\ mMemory'.borrowed = mMemory.borrowed /\ mMemory'.available = mMemory.available
  BY <1>3 DEF TypeOK, Ledger
<1>5. HeldMb(mReservedMb') = HeldMb(mReservedMb) - mReservedMb[p]
  <2>1. 0 \in Unsigned /\ mReservedMb \in [Procs -> Unsigned]
    BY WordAssumption DEF Unsigned, TypeOK
  <2>2. HeldMb([mReservedMb EXCEPT ![p] = 0]) = HeldMb(mReservedMb) - mReservedMb[p] + 0
    BY <2>1, HeldChanges
  <2>3. HeldMb(mReservedMb) \in Nat
    BY HeldType
  <2> QED BY <2>2, <2>3, LedgerNumbers DEF Releases, ReleaseMemory
<1>6. LedgerBalances'
  <2>1. mBorrowedMb' = mBorrowedMb /\ oom' = oom
    BY DEF Releases
  <2>2. mMemory'.reserved = HeldMb(mReservedMb')
    BY <1>4, <1>5 DEF LedgerBalances
  <2>3. mMemory'.borrowed = HeldMb(mBorrowedMb') + (IF oom'.at = "lend" THEN LoanMb ELSE 0)
    BY <1>4, <2>1 DEF LedgerBalances
  <2> QED BY <2>2, <2>3 DEF LedgerBalances
<1>7. WithinAvailable'
  BY <1>1, <1>4, LedgerNumbers DEF WithinAvailable, InUse
<1> QED BY <1>6, <1>7

\* A loan is charged to the ledger first and to the process later; in between
\* the monitor stands for it.
LEMMA LoanKeepsBalance ==
    ASSUME IsFiniteSet(Procs), TypeOK, LedgerBalances, WithinAvailable,
           AvailableMb + LoanMb < WORD,
           ChargesLoan \/ \E p \in Procs : PaysLoan(p)
    PROVE  LedgerBalances' /\ WithinAvailable'
<1>1. CASE ChargesLoan
  <2>1. InUse(mMemory) + LoanMb <= AvailableMb
    BY <1>1, FitsIsExact, MemoryAssumption DEF ChargesLoan, WithinAvailable, TypeOK
  <2>2. mMemory.borrowed + LoanMb \in Unsigned
    BY <2>1, LedgerNumbers, MemoryAssumption DEF InUse, Unsigned
  <2>3. mMemory' = [mMemory EXCEPT !.borrowed = mMemory.borrowed + LoanMb]
    BY <1>1, <2>2, WrapSmall DEF ChargesLoan, Borrow, Loan
  <2>4. /\ mMemory'.reserved = mMemory.reserved
        /\ mMemory'.borrowed = mMemory.borrowed + LoanMb
        /\ mMemory'.available = mMemory.available
    BY <2>3 DEF TypeOK, Ledger
  <2>5. /\ mReservedMb' = mReservedMb /\ mBorrowedMb' = mBorrowedMb
        /\ oom.at # "lend" /\ oom'.at = "lend"
    BY <1>1 DEF ChargesLoan, Lending
  <2>6. HeldMb(mBorrowedMb) \in Nat
    BY HeldType
  <2>7. LedgerBalances'
    BY <2>4, <2>5, <2>6, LedgerNumbers DEF LedgerBalances
  <2>8. WithinAvailable'
    BY <2>1, <2>4, LedgerNumbers DEF WithinAvailable, InUse
  <2> QED BY <2>7, <2>8
<1>2. ASSUME NEW p \in Procs, PaysLoan(p) PROVE LedgerBalances' /\ WithinAvailable'
  <2>1. mMemory.borrowed = HeldMb(mBorrowedMb) + LoanMb
    BY <1>2 DEF PaysLoan, Lending, LedgerBalances
  <2>2. mBorrowedMb[p] <= HeldMb(mBorrowedMb) /\ HeldMb(mBorrowedMb) \in Nat
    BY HeldBound, HeldType DEF TypeOK
  <2>3. mBorrowedMb[p] + LoanMb \in Unsigned
    BY <2>1, <2>2, LedgerNumbers DEF TypeOK, Ledger, Unsigned
  <2>4. mBorrowedMb' = [mBorrowedMb EXCEPT ![p] = mBorrowedMb[p] + LoanMb]
    BY <1>2, <2>3, WrapSmall DEF PaysLoan
  <2>5. HeldMb(mBorrowedMb') = mMemory.borrowed
    <3>0. mBorrowedMb \in [Procs -> Unsigned]
      BY DEF TypeOK
    <3>1. HeldMb([mBorrowedMb EXCEPT ![p] = mBorrowedMb[p] + LoanMb])
            = HeldMb(mBorrowedMb) - mBorrowedMb[p] + (mBorrowedMb[p] + LoanMb)
      BY <2>3, <3>0, HeldChanges
    <3> QED BY <2>1, <2>2, <2>4, <3>1, LedgerNumbers
  <2>6. mReservedMb' = mReservedMb /\ mMemory' = mMemory /\ oom'.at # "lend"
    BY <1>2 DEF PaysLoan, Lending
  <2>7. LedgerBalances'
    BY <2>5, <2>6, LedgerNumbers DEF LedgerBalances
  <2>8. WithinAvailable'
    BY <2>6 DEF WithinAvailable
  <2> QED BY <2>7, <2>8
<1> QED BY <1>1, <1>2

\* A step that leaves the ledger and the accounts alone.
LEMMA BalanceFrame ==
    ASSUME LedgerBalances, WithinAvailable, LeavesLedger
    PROVE  LedgerBalances' /\ WithinAvailable'
BY DEF LedgerBalances, WithinAvailable, LeavesLedger, Lending

\* The second request of a thread that knows what is left.
LEMMA RestIsGranted ==
    ASSUME TypeOK, WithinAvailable, WhatIsLeftIsKnown, SmallNumbers,
           NEW p \in Procs, Settling(p)
    PROVE  /\ WhatIsLeft(p) \in Unsigned
           /\ InUse(mMemory) + WhatIsLeft(p) <= AvailableMb
           /\ Fits(mMemory, WhatIsLeft(p))
<1>1. /\ shortfall[p] \in 0 .. AssignedMb[p]
      /\ InUse(mMemory) + AssignedMb[p] - shortfall[p] <= AvailableMb
  BY DEF WhatIsLeftIsKnown
<1>2. AssignedMb[p] - shortfall[p] \in Unsigned
  BY <1>1, LedgerNumbers, MemoryAssumption DEF Unsigned
<1>3. WhatIsLeft(p) = AssignedMb[p] - shortfall[p]
  BY <1>2, WrapSmall DEF WhatIsLeft
<1>4. AvailableMb + WhatIsLeft(p) < WORD
  BY <1>1, <1>3, LedgerNumbers DEF SmallNumbers
<1>5. InUse(mMemory) + WhatIsLeft(p) <= AvailableMb
  BY <1>1, <1>3, LedgerNumbers
<1>6. Fits(mMemory, WhatIsLeft(p))
  BY <1>2, <1>3, <1>4, <1>5, FitsIsExact DEF WithinAvailable, TypeOK
<1> QED BY <1>2, <1>3, <1>5, <1>6

LEMMA KnownStep ==
    ASSUME TypeOK, WithinAvailable, WhatIsLeftIsKnown, SmallNumbers,
           [Next]_vars, [NobodyOvertakes]_vars, TypeOK'
    PROVE  WhatIsLeftIsKnown'
<1> SUFFICES ASSUME NEW q \in Procs, Settling(q)'
             PROVE  /\ shortfall'[q] \in 0 .. AssignedMb[q]
                    /\ InUse(mMemory') + AssignedMb[q] - shortfall'[q] <= AvailableMb
  BY DEF WhatIsLeftIsKnown
<1>1. InUse(mMemory) \in Nat /\ InUse(mMemory') \in Nat
  <2>1. InUse(mMemory') \in Nat
    <3>1. \A n \in Unsigned : n \in Nat
      BY WordAssumption DEF Unsigned
    <3> QED BY <3>1 DEF TypeOK, Ledger, InUse
  <2> QED BY <2>1, LedgerNumbers
<1>2. CASE Settling(q) /\ shortfall'[q] = shortfall[q]
  <2>1. InUse(mMemory') <= InUse(mMemory)
    <3>1. CASE NobodyOvertakes
      BY <1>2, <3>1 DEF NobodyOvertakes
    <3>2. CASE UNCHANGED vars
      BY <1>1, <3>2 DEF vars, memory
    <3> QED BY <3>1, <3>2
  <2>2. /\ shortfall[q] \in 0 .. AssignedMb[q]
        /\ InUse(mMemory) + AssignedMb[q] - shortfall[q] <= AvailableMb
    BY <1>2 DEF WhatIsLeftIsKnown
  <2> QED BY <1>1, <1>2, <2>1, <2>2, LedgerNumbers
<1>3. CASE /\ shortfall'[q] = Deficit(mMemory, AssignedMb[q])
           /\ ~Fits(mMemory, AssignedMb[q])
           /\ UNCHANGED mMemory
  <2>1. /\ Deficit(mMemory, AssignedMb[q]) = InUse(mMemory) + AssignedMb[q] - AvailableMb
        /\ Deficit(mMemory, AssignedMb[q]) \in 1 .. AssignedMb[q]
    BY <1>3, DeficitIsExact, MemoryAssumption DEF SmallNumbers, WithinAvailable, TypeOK
  <2> QED BY <1>1, <1>3, <2>1, LedgerNumbers
<1> QED BY <1>2, <1>3, SettlingStep

\* The inductive invariant.
LInv == NotReservedYet /\ LedgerBalances /\ WithinAvailable /\ WhatIsLeftIsKnown

LEMMA LedgerInvInit == Init => LInv
<1> SUFFICES ASSUME Init PROVE LInv
  OBVIOUS
<1>1. /\ mReservedMb = [p \in Procs |-> 0] /\ mBorrowedMb = [p \in Procs |-> 0]
      /\ mMemory.reserved = 0 /\ mMemory.borrowed = 0 /\ mMemory.available = AvailableMb
      /\ oom.at # "lend" /\ \A p \in Procs : spawner[p] = "idle"
  BY DEF Init, NewLedger, Idle
<1>2. LedgerBalances
  BY <1>1, HeldNothing DEF LedgerBalances
<1>3. WithinAvailable
  <2>1. AvailableMb \in Nat
    BY MemoryAssumption, WordAssumption DEF Unsigned
  <2> QED BY <1>1, <2>1 DEF WithinAvailable, InUse
<1> QED BY <1>1, <1>2, <1>3 DEF LInv, NotReservedYet, WhatIsLeftIsKnown, Settling

LEMMA LedgerInvStep ==
    ASSUME SmallNumbers, TypeOK, IInv, LInv, [Next]_vars, [NobodyOvertakes]_vars, TypeOK'
    PROVE  LInv'
<1>1. NotReservedYet /\ LedgerBalances /\ WithinAvailable /\ WhatIsLeftIsKnown
  BY DEF LInv
<1>2. IsFiniteSet(Procs) /\ AvailableMb + LoanMb < WORD
  BY DEF SmallNumbers
<1>3. LedgerBalances' /\ WithinAvailable'
  <2>1. CASE LeavesLedger
    BY <1>1, <2>1, BalanceFrame
  <2>2. CASE ChargesLoan
    BY <1>1, <1>2, <2>2, LoanKeepsBalance
  <2>3. ASSUME NEW p \in Procs, PaysLoan(p) PROVE LedgerBalances' /\ WithinAvailable'
    BY <1>1, <1>2, <2>3, LoanKeepsBalance
  <2>4. ASSUME NEW p \in Procs, GrantsAll(p) PROVE LedgerBalances' /\ WithinAvailable'
    <3>1. AssignedMb[p] \in Unsigned /\ AvailableMb + AssignedMb[p] < WORD
      BY MemoryAssumption DEF SmallNumbers
    <3>2. Grants(p, AssignedMb[p])
      BY <2>4 DEF GrantsAll
    <3>3. InUse(mMemory) + AssignedMb[p] <= AvailableMb
      BY <1>1, <3>1, <3>2, FitsIsExact DEF Grants, WithinAvailable, TypeOK
    <3> QED BY <1>1, <1>2, <3>1, <3>2, <3>3, GrantKeepsBalance
  <2>5. ASSUME NEW p \in Procs, GrantsRest(p) PROVE LedgerBalances' /\ WithinAvailable'
    <3>1. Settling(p) /\ Grants(p, WhatIsLeft(p))
      BY <2>5 DEF GrantsRest
    <3> QED BY <1>1, <1>2, <3>1, RestIsGranted, GrantKeepsBalance
  <2>6. ASSUME NEW p \in Procs, RefusesRest(p) PROVE FALSE
    BY <1>1, <2>6, RestIsGranted DEF RefusesRest
  <2>7. ASSUME NEW p \in Procs, Releases(p) PROVE LedgerBalances' /\ WithinAvailable'
    BY <1>1, <1>2, <2>7, ReleaseKeepsBalance
  <2> QED BY <1>1, <2>1, <2>2, <2>3, <2>4, <2>5, <2>6, <2>7, LedgerStep
<1>4. NotReservedYet'
  BY <1>1, NotReservedStep
<1>5. WhatIsLeftIsKnown'
  BY <1>1, KnownStep
<1> QED BY <1>3, <1>4, <1>5 DEF LInv

LEMMA LedgerInvariance ==
    ASSUME SmallNumbers
    PROVE  Spec /\ [][NobodyOvertakes]_vars => [](TypeOK /\ LInv)
<1>1. Init => LInv
  BY LedgerInvInit
<1>2. TypeOK /\ IInv /\ LInv /\ [Next]_vars /\ [NobodyOvertakes]_vars /\ TypeOK' => LInv'
  BY LedgerInvStep
<1> QED BY <1>1, <1>2, Invariance, PTL DEF Spec

\* Reservations, releases and loans of any number of threads keep the ledger
\* equal to what the processes hold, with one condition: nobody takes memory
\* while a spawning thread is between its refused request and its second one.
\* What then goes wrong is that reserveMemory does not look at the second
\* answer (ProcessManager.cc 530-536).
THEOREM LedgerBalancesUnlessOvertaken ==
    ASSUME SmallNumbers
    PROVE  Spec /\ [][NobodyOvertakes]_vars => []LedgerBalances
<1>1. LInv => LedgerBalances
  BY DEF LInv
<1> QED BY <1>1, LedgerInvariance, PTL

\* On the same condition the processes of a node never hold more memory
\* between them, lent memory included, than the node has.
THEOREM NodeIsNotOverbooked ==
    ASSUME SmallNumbers
    PROVE  Spec /\ [][NobodyOvertakes]_vars
             => [](HeldMb(mReservedMb) + HeldMb(mBorrowedMb) <= AvailableMb)
<1>1. TypeOK /\ LInv => HeldMb(mReservedMb) + HeldMb(mBorrowedMb) <= AvailableMb
  <2> SUFFICES ASSUME TypeOK, LInv
               PROVE  HeldMb(mReservedMb) + HeldMb(mBorrowedMb) <= AvailableMb
    OBVIOUS
  <2>1. HeldMb(mReservedMb) \in Nat /\ HeldMb(mBorrowedMb) \in Nat
    BY HeldType DEF SmallNumbers
  <2> QED BY <2>1, LedgerNumbers DEF LInv, LedgerBalances, WithinAvailable, InUse
<1> QED BY <1>1, LedgerInvariance, PTL

-----------------------------------------------------------------------------
(* What is lent stays lent, and so a spawn that kills a borrower never     *)
(* returns.                                                                *)

\* p's spawning thread kills a borrower, or waits for it to have repaid.
Collects(p) == spawner[p] \in {"kill", "reap"}

CollectsFromBorrower ==
    \A p \in Procs :
        Collects(p) => victim[p] \in Procs /\ mBorrowedMb[victim[p]] > 0

LEMMA LentStaysLent ==
    ASSUME SmallNumbers, TypeOK, IInv, LInv, [Next]_vars, NEW q \in Procs
    PROVE  mBorrowedMb'[q] >= mBorrowedMb[q]
<1>1. /\ NotReservedYet /\ LedgerBalances /\ WithinAvailable /\ WhatIsLeftIsKnown
      /\ IsFiniteSet(Procs) /\ mBorrowedMb \in [Procs -> Unsigned]
  BY DEF LInv, SmallNumbers, TypeOK
<1>2. CASE UNCHANGED mBorrowedMb
  BY <1>2, LedgerNumbers
<1>3. ASSUME NEW p \in Procs, PaysLoan(p) PROVE mBorrowedMb'[q] >= mBorrowedMb[q]
  <2>1. mBorrowedMb' = [mBorrowedMb EXCEPT ![p] = mBorrowedMb[p] + LoanMb]
    <3>1. mMemory.borrowed = HeldMb(mBorrowedMb) + LoanMb
      BY <1>1, <1>3 DEF PaysLoan, Lending, LedgerBalances
    <3>2. mBorrowedMb[p] <= HeldMb(mBorrowedMb) /\ HeldMb(mBorrowedMb) \in Nat
      BY <1>1, HeldBound, HeldType
    <3>3. mBorrowedMb[p] + LoanMb \in Unsigned
      BY <3>1, <3>2, LedgerNumbers DEF TypeOK, Ledger, Unsigned
    <3> QED BY <1>3, <3>3, WrapSmall DEF PaysLoan
  <2> QED BY <1>1, <2>1, LedgerNumbers
<1>4. ASSUME NEW p \in Procs, RefusesRest(p) PROVE FALSE
  BY <1>1, <1>4, RestIsGranted DEF RefusesRest
<1>5. CASE LeavesLedger \/ ChargesLoan \/ \E p \in Procs : GrantsAll(p) \/ GrantsRest(p) \/ Releases(p)
  <2>1. UNCHANGED mBorrowedMb
    BY <1>5 DEF LeavesLedger, ChargesLoan, GrantsAll, GrantsRest, Grants, Releases
  <2> QED BY <1>2, <2>1
<1> QED BY <1>1, <1>3, <1>4, <1>5, LedgerStep

\* A thread begins to collect from a process that has borrowed, and keeps to
\* it until it is repaid.
LEMMA CollectorStep ==
    ASSUME TypeOK, CollectsFromBorrower, NEW p \in Procs, Step(p), NEW q \in Procs
    PROVE  /\ Collects(q) => Collects(q)'
           /\ Collects(q)' =>
                \/ Collects(q) /\ victim'[q] = victim[q]
                \/ victim'[q] \in Procs /\ mBorrowedMb[victim'[q]] > 0
<1>0. Collects(q) => mBorrowedMb[victim[q]] # 0
  BY LedgerNumbers DEF CollectsFromBorrower
<1>1. ASSUME NEW b \in Procs, FindBiggestBorrower(p, b)
      PROVE  /\ Collects(q) => Collects(q)'
             /\ Collects(q)' =>
                  \/ Collects(q) /\ victim'[q] = victim[q]
                  \/ victim'[q] \in Procs /\ mBorrowedMb[victim'[q]] > 0
  <2>1. mBorrowedMb[b] > 0
    BY <1>1 DEF FindBiggestBorrower, BiggestBorrowers, Borrowers
  <2> QED BY <1>1, <2>1 DEF FindBiggestBorrower, Collects, TypeOK
<1>2. CASE KillBorrower(p)
  BY <1>2 DEF KillBorrower, Collects, TypeOK
<1>3. CASE NoMoreBorrowers(p)
  BY <1>0, <1>3 DEF NoMoreBorrowers, AtLoopHead, Collects, TypeOK
<1>4. ASSUME ~\E b \in Procs : FindBiggestBorrower(p, b), ~KillBorrower(p),
             ~NoMoreBorrowers(p)
      PROVE  /\ victim' = victim
             /\ \/ spawner'[q] = spawner[q]
                \/ /\ spawner[q] \notin {"kill", "reap"}
                   /\ spawner'[q] \notin {"kill", "reap"}
  BY <1>4 DEF Step, Call, AddProcess, Spawn, SpawnPipeFails, Terminate, StateLocked,
     RemoveProcess, SpawnStep, ReserveMemory, ReserveWhatIsLeft, ReserveAgain,
     ForkFails, Fork, PostFork, TerminationStep, CreateTerminationThread,
     TerminationNotNeeded, RequestStop, SendTerm, SendKill, SignalAndWait, GiveUp,
     TerminationSeesExit, Termination, RemoveStep, RemoveTerminates, RemoveErases,
     MonitorStep, ReapChild, HandleChildExit, MarkTerminated, OutOfMemory, OomStep,
     OomBorrows, OomLends, OomKills, ChildExits, spawning, TypeOK
<1> QED BY <1>1, <1>2, <1>3, <1>4 DEF Collects

LEMMA CollectorInvStep ==
    ASSUME SmallNumbers, TypeOK, IInv, LInv, CollectsFromBorrower, [Next]_vars
    PROVE  /\ CollectsFromBorrower'
           /\ \A q \in Procs : Collects(q) => Collects(q)'
<1>1. ASSUME NEW q \in Procs
      PROVE  /\ Collects(q) => Collects(q)'
             /\ Collects(q)' =>
                  \/ Collects(q) /\ victim'[q] = victim[q]
                  \/ victim'[q] \in Procs /\ mBorrowedMb[victim'[q]] > 0
  <2>1. CASE UNCHANGED vars
    BY <2>1 DEF Collects, vars, spawning
  <2>2. ASSUME NEW p \in Procs, Step(p)
        PROVE  /\ Collects(q) => Collects(q)'
               /\ Collects(q)' =>
                    \/ Collects(q) /\ victim'[q] = victim[q]
                    \/ victim'[q] \in Procs /\ mBorrowedMb[victim'[q]] > 0
    BY <2>2, CollectorStep
  <2> QED BY <2>1, <2>2 DEF Next
<1>2. ASSUME NEW q \in Procs, Collects(q)'
      PROVE  victim'[q] \in Procs /\ mBorrowedMb'[victim'[q]] > 0
  <2>1. victim'[q] \in Procs /\ mBorrowedMb[victim'[q]] > 0
    BY <1>1, <1>2 DEF CollectsFromBorrower
  <2>2. PICK b \in Procs : b = victim'[q]
    BY <2>1
  <2>3. mBorrowedMb'[b] >= mBorrowedMb[b] /\ mBorrowedMb[b] \in Nat
    BY LentStaysLent, LedgerNumbers
  <2>4. mBorrowedMb'[b] \in Int
    BY TypeStep, UnsignedIsInt DEF TypeOK
  <2> QED BY <2>1, <2>2, <2>3, <2>4
<1> QED BY <1>1, <1>2 DEF CollectsFromBorrower

\* A spawn that kills a borrower to get its memory waits for ever, with the
\* state mutex of its process locked: the loop around ProcessManager.cc 514
\* waits for a loan to be repaid that no code repays.
THEOREM CollectorNeverReturns ==
    ASSUME SmallNumbers, NEW p \in Procs
    PROVE  Spec /\ [][NobodyOvertakes]_vars
             => [](Collects(p) => [](Collects(p) /\ StateLocked(p)))
<1>1. Init => CollectsFromBorrower
  BY DEF Init, CollectsFromBorrower, Collects
<1>2. TypeOK /\ IInv /\ LInv /\ CollectsFromBorrower /\ [Next]_vars
        => CollectsFromBorrower' /\ (Collects(p) => Collects(p)')
  BY CollectorInvStep
<1>3. Collects(p) => StateLocked(p)
  BY DEF Collects, StateLocked
<1> QED BY <1>1, <1>2, <1>3, Invariance, LedgerInvariance, PTL DEF Spec

-----------------------------------------------------------------------------
(* Where memory covers all assignments the ledger balances without further *)
(* conditions: no request is ever refused.                                 *)

\* What all processes are assigned fits, and nothing is lent.
EnoughMemory ==
    /\ IsFiniteSet(Procs)
    /\ HeldMb(AssignedMb) <= AvailableMb
    /\ ~mLoanMemory

\* p's first request was refused and its spawning thread has not forked yet.
Short(p) == spawner[p] \in {"shortfall", "borrowers", "kill", "reap", "again", "lastTry"}

LEMMA ShortStep ==
    ASSUME TypeOK, IInv, NotReservedYet, [Next]_vars, NEW q \in Procs, Short(q)'
    PROVE  Short(q) \/ (~Fits(mMemory, AssignedMb[q]) /\ mReservedMb[q] = 0)
<1>1. CASE UNCHANGED vars
  BY <1>1 DEF Short, vars, spawning
<1>2. ASSUME NEW p \in Procs, Step(p), ~Short(q)
      PROVE  ~Fits(mMemory, AssignedMb[q]) /\ mReservedMb[q] = 0
  <2>1. CASE ReserveMemory(p)
    <3>1. p = q
      BY <1>2, <2>1 DEF ReserveMemory, Short, TypeOK
    <3>2. Deficit(mMemory, AssignedMb[q]) # 0
      BY <2>1, <3>1 DEF ReserveMemory, Short, TypeOK
    <3>3. ~Fits(mMemory, AssignedMb[q])
      BY <3>2 DEF Deficit
    <3>4. mReservedMb[q] = 0
      BY <2>1, <3>1 DEF ReserveMemory, IInv, SpawningIsBeforeSpawned, NotReservedYet
    <3> QED BY <3>3, <3>4
  <2>2. ASSUME NEW b \in Procs, FindBiggestBorrower(p, b) PROVE FALSE
    BY <1>2, <2>2 DEF FindBiggestBorrower, AtLoopHead, Short, TypeOK
  <2>3. CASE \/ NoMoreBorrowers(p) \/ KillBorrower(p) \/ ReserveAgain(p)
             \/ ReserveWhatIsLeft(p) \/ ForkFails(p) \/ Fork(p) \/ PostFork(p)
             \/ Spawn(p)
    BY <1>2, <2>3 DEF NoMoreBorrowers, AtLoopHead, KillBorrower, ReserveAgain,
       ReserveWhatIsLeft, ForkFails, Fork, PostFork, Spawn, Short, TypeOK
  <2>4. ASSUME ~Spawn(p), ~SpawnStep(p) PROVE UNCHANGED spawner
    BY <1>2, <2>4 DEF Step, Call, AddProcess, SpawnPipeFails, Terminate, RemoveProcess,
       TerminationStep, CreateTerminationThread, TerminationNotNeeded, RequestStop,
       SendTerm, SendKill, SignalAndWait, GiveUp, TerminationSeesExit, Termination,
       RemoveStep, RemoveTerminates, RemoveErases, MonitorStep, ReapChild,
       HandleChildExit, MarkTerminated, OutOfMemory, OomStep, OomBorrows, OomLends,
       OomKills, ChildExits, spawning
  <2> QED BY <1>2, <2>1, <2>2, <2>3, <2>4 DEF SpawnStep, Short
<1> QED BY <1>1, <1>2 DEF Next

\* Nobody is short, nothing is lent, and a process has all it was assigned or
\* nothing.
NobodyIsShort ==
    /\ \A p \in Procs : ~Short(p) /\ mReservedMb[p] \in {0, AssignedMb[p]}
    /\ ~Lending
    /\ mMemory.borrowed = 0

LEMMA AssignmentFits ==
    ASSUME EnoughMemory, TypeOK, LedgerBalances, WithinAvailable, NobodyIsShort,
           NEW p \in Procs, mReservedMb[p] = 0
    PROVE  /\ InUse(mMemory) + AssignedMb[p] <= AvailableMb
           /\ Fits(mMemory, AssignedMb[p])
<1> DEFINE more == [mReservedMb EXCEPT ![p] = AssignedMb[p]]
<1>1. mReservedMb \in [Procs -> Unsigned] /\ AssignedMb \in [Procs -> Unsigned]
  BY MemoryAssumption DEF TypeOK
<1>2. more \in [Procs -> Unsigned] /\ \A q \in Procs : more[q] \in {0, AssignedMb[q]}
  BY <1>1 DEF NobodyIsShort
<1>3. HeldMb(more) = HeldMb(mReservedMb) - mReservedMb[p] + AssignedMb[p]
  BY <1>1, HeldChanges DEF EnoughMemory
<1> HIDE DEF more
<1>4. \A q \in Procs : more[q] <= AssignedMb[q]
  BY <1>2, LedgerNumbers
<1>5. HeldMb(more) <= HeldMb(AssignedMb)
  BY <1>1, <1>2, <1>4, HeldGrows DEF EnoughMemory
<1>6. HeldMb(more) \in Nat /\ HeldMb(AssignedMb) \in Nat /\ HeldMb(mReservedMb) \in Nat
  BY HeldType DEF EnoughMemory
<1>7. InUse(mMemory) = HeldMb(mReservedMb)
  BY <1>6 DEF InUse, LedgerBalances, NobodyIsShort
<1>8. InUse(mMemory) + AssignedMb[p] <= AvailableMb
  BY <1>3, <1>5, <1>6, <1>7, LedgerNumbers DEF EnoughMemory
<1>9. mMemory.reserved + mMemory.borrowed + AssignedMb[p] \in Unsigned
  BY <1>8, LedgerNumbers, MemoryAssumption DEF InUse, Unsigned
<1>10. Wrap(mMemory.reserved + mMemory.borrowed + AssignedMb[p])
         = mMemory.reserved + mMemory.borrowed + AssignedMb[p]
  BY <1>9, WrapSmall
<1>11. Fits(mMemory, AssignedMb[p])
  BY <1>8, <1>10 DEF Fits, InUse, WithinAvailable
<1> QED BY <1>8, <1>11

\* The inductive invariant.
AmpleInv == NotReservedYet /\ LedgerBalances /\ WithinAvailable /\ NobodyIsShort

LEMMA AmpleInit == EnoughMemory /\ Init => AmpleInv
<1> SUFFICES ASSUME Init PROVE AmpleInv
  OBVIOUS
<1>1. LInv
  BY LedgerInvInit
<1>2. NobodyIsShort
  BY DEF Init, NewLedger, Idle, NobodyIsShort, Short, Lending
<1> QED BY <1>1, <1>2 DEF LInv, AmpleInv

LEMMA AmpleStep ==
    ASSUME EnoughMemory, TypeOK, IInv, AmpleInv, [Next]_vars
    PROVE  AmpleInv'
<1>1. NotReservedYet /\ LedgerBalances /\ WithinAvailable /\ NobodyIsShort
  BY DEF AmpleInv
<1>2. IsFiniteSet(Procs) /\ ~mLoanMemory
  BY DEF EnoughMemory
<1>3. \A q \in Procs : ~Short(q)'
  <2> SUFFICES ASSUME NEW q \in Procs, Short(q)' PROVE FALSE
    OBVIOUS
  <2>1. ~Fits(mMemory, AssignedMb[q]) /\ mReservedMb[q] = 0
    BY <1>1, ShortStep DEF NobodyIsShort
  <2> QED BY <1>1, <2>1, AssignmentFits
<1>4. NotReservedYet'
  BY <1>1, NotReservedStep
<1> DEFINE Kept ==
      /\ LedgerBalances' /\ WithinAvailable' /\ ~Lending' /\ mMemory'.borrowed = 0
      /\ \A q \in Procs : mReservedMb'[q] \in {0, AssignedMb[q]}
<1>5. Kept
  <2>0. /\ ~Lending /\ mMemory.borrowed = 0 /\ mReservedMb \in [Procs -> Unsigned]
        /\ \A q \in Procs : mReservedMb[q] \in {0, AssignedMb[q]}
    BY <1>1 DEF NobodyIsShort, TypeOK
  <2>1. CASE LeavesLedger
    <3>1. LedgerBalances' /\ WithinAvailable'
      BY <1>1, <2>1, BalanceFrame
    <3> QED BY <2>0, <2>1, <3>1 DEF LeavesLedger
  <2>2. ~ChargesLoan
    BY <1>2 DEF ChargesLoan
  <2>3. ASSUME NEW p \in Procs PROVE ~GrantsRest(p) /\ ~RefusesRest(p) /\ ~PaysLoan(p)
    BY <1>1 DEF GrantsRest, RefusesRest, PaysLoan, NobodyIsShort, Short, Settling
  <2>4. ASSUME NEW p \in Procs, GrantsAll(p) PROVE Kept
    <3>1. Grants(p, AssignedMb[p]) /\ mReservedMb[p] = 0 /\ AssignedMb[p] \in Unsigned
      BY <2>4, MemoryAssumption DEF GrantsAll, Grants
    <3>2. InUse(mMemory) + AssignedMb[p] <= AvailableMb
      BY <1>1, <3>1, AssignmentFits
    <3>3. LedgerBalances' /\ WithinAvailable'
      BY <1>1, <1>2, <3>1, <3>2, GrantKeepsBalance
    <3>4. mMemory'.borrowed = 0
      BY <2>0, <3>1 DEF Grants, Reserve, TypeOK, Ledger
    <3>5. oom' = oom /\ mReservedMb' = [mReservedMb EXCEPT ![p] = AssignedMb[p]]
      BY <3>1 DEF Grants
    <3>6. ~Lending'
      BY <2>0, <3>5 DEF Lending
    <3>7. \A q \in Procs : mReservedMb'[q] \in {0, AssignedMb[q]}
      BY <2>0, <3>5
    <3> QED BY <3>3, <3>4, <3>6, <3>7
  <2>5. ASSUME NEW p \in Procs, Releases(p) PROVE Kept
    <3>1. LedgerBalances' /\ WithinAvailable'
      BY <1>1, <1>2, <2>5, ReleaseKeepsBalance
    <3>2. mMemory'.borrowed = 0
      BY <2>0, <2>5 DEF Releases, ReleaseMemory, Release, TypeOK, Ledger
    <3>3. oom' = oom /\ mReservedMb' = [mReservedMb EXCEPT ![p] = 0]
      BY <2>5 DEF Releases, ReleaseMemory
    <3>4. ~Lending'
      BY <2>0, <3>3 DEF Lending
    <3>5. \A q \in Procs : mReservedMb'[q] \in {0, AssignedMb[q]}
      BY <2>0, <3>3
    <3> QED BY <3>1, <3>2, <3>4, <3>5
  <2> QED BY <1>1, <2>1, <2>2, <2>3, <2>4, <2>5, LedgerStep
<1> QED BY <1>3, <1>4, <1>5 DEF AmpleInv, NobodyIsShort

LEMMA AmpleInvariance == EnoughMemory => (Spec => []AmpleInv)
<1> SUFFICES ASSUME EnoughMemory PROVE Spec => []AmpleInv
  OBVIOUS
<1>1. Init => AmpleInv
  BY AmpleInit
<1>2. TypeOK /\ IInv /\ AmpleInv /\ [Next]_vars => AmpleInv'
  BY AmpleStep
<1> QED BY <1>1, <1>2, Invariance, PTL DEF Spec

\* Where the node's memory covers all its processes and none is lent, as the
\* coordinator's booking intends, the ledger balances in every interleaving.
THEOREM LedgerBalancesWithEnoughMemory ==
    ASSUME EnoughMemory
    PROVE  Spec => []LedgerBalances
<1>1. AmpleInv => LedgerBalances
  BY DEF AmpleInv
<1> QED BY <1>1, AmpleInvariance, PTL

\* On the same condition no process is started with less memory than it was
\* assigned: reserveMemory never finds a deficit.
THEOREM NobodyStartsShort ==
    ASSUME EnoughMemory
    PROVE  Spec => []NobodyIsShort
<1>1. AmpleInv => NobodyIsShort
  BY DEF AmpleInv
<1> QED BY <1>1, AmpleInvariance, PTL
=============================================================================
