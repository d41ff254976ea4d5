--------------------------- MODULE ProcessManager ---------------------------
(***************************************************************************)
(* classes Process and ProcessManager (arras4_core_impl/lib/execute): the  *)
(* child processes a node service runs, and the threads that act on them:  *)
(*                                                                         *)
(*   - spawning threads, one per process, inside Process::spawn;           *)
(*   - any thread calling Process::terminate or removeProcess;             *)
(*   - a termination thread per process, Process::terminationProc;         *)
(*   - the exit monitor thread, ProcessManager::exitMonitorProc;           *)
(*   - the out-of-memory monitor thread, ProcessManager::oomMonitorProc;   *)
(*   - the operating system, which ends child processes when it likes.     *)
(*                                                                         *)
(* A step is what a thread does between two points where another thread    *)
(* can get in.  Two mutexes matter.  Process::mStateMutex of p is held     *)
(* across steps only by p's spawning thread (StateLocked).                 *)
(* ProcessManager::mProcessesMutex is held across steps only by the exit   *)
(* monitor while it waits for a state mutex (ProcessesLocked).             *)
(*                                                                         *)
(* Process::reset has no caller in the repository, so a process is forked  *)
(* at most once and p stands for its own pid.                              *)
(***************************************************************************)
EXTENDS MemoryTracking, FiniteSets

CONSTANTS
    Procs,              \* ids given to addProcess
    NoPid,              \* pid 0
    AvailableMb,        \* computations' memory on this node
    AssignedMb,         \* [Procs -> Nat]: SpawnArgs.assignedMb
    LoanMb,             \* what the oom monitor lends at a time (128)
    mLoanMemory,        \* --loan-memory
    OomMonitor,         \* control groups in use: the oom thread runs
    Controlled          \* setProcessController was called

ASSUME ProcsAssumption == NoPid \notin Procs
ASSUME MemoryAssumption ==
    /\ AvailableMb \in Unsigned
    /\ AssignedMb \in [Procs -> Unsigned]
    /\ LoanMb \in Unsigned
ASSUME OptionAssumption ==
    /\ mLoanMemory \in BOOLEAN
    /\ OomMonitor \in BOOLEAN
    /\ Controlled \in BOOLEAN
    /\ mLoanMemory => OomMonitor    \* initControlGroups clears mLoanMemory

VARIABLES
    mState,             \* [Procs -> ProcessState]
    mPid,               \* [Procs -> pid]
    mStatus,            \* [Procs -> ExitStatus]
    mReservedMb,        \* [Procs -> Unsigned], per process
    mBorrowedMb,        \* [Procs -> Unsigned], per process
    mMemory,            \* the ledger
    mProcesses,         \* ids registered with the manager
    mPidToProcess,      \* pids the exit monitor polls
    os,                 \* [Procs -> state of the operating system process]
    spawner,            \* [Procs -> where its spawning thread is]
    shortfall,          \* [Procs -> local "deficit" of reserveMemory]
    victim,             \* [Procs -> local "borrowerPtr" of reserveMemory]
    terminator,         \* [Procs -> where its termination thread is]
    fast,               \* [Procs -> the "fast" argument of that thread]
    remover,            \* [Procs -> where a removeProcess call is]
    monitor,            \* where the exit monitor is, and for which process
    oom,                \* where the oom monitor is, and for which process
    signalled,          \* <<process group, signal>> pairs passed to kill()
    told                \* [Procs -> statuses passed to onTerminate]

lifecycle == <<mState, mPid, mStatus, told>>
memory == <<mReservedMb, mBorrowedMb, mMemory>>
tables == <<mProcesses, mPidToProcess>>
spawning == <<spawner, shortfall, victim>>
terminating == <<terminator, fast, signalled>>
vars == <<lifecycle, memory, tables, os, spawning, terminating,
          remover, monitor, oom>>

ProcessState == {"NotSpawned", "Spawned", "Terminating", "Terminated"}

ExitStatus == {"NO_EXIT", "Exit", "FORK_FAILED", "NOT_SPAWNED",
               "UNINTERRUPTABLE"}

OsState == {"none", "running", "zombie", "reaped"}

\* The places where the spawning thread can be found by another thread.
SpawnerState == {"idle", "reserve", "shortfall", "borrowers", "kill", "reap",
                 "again", "lastTry", "fork", "postFork"}

TerminatorState == {"none", "create", "start", "stopWait", "termWait",
                    "killWait", "done"}

Waits == {"stopWait", "termWait", "killWait"}

Idle == [at |-> "idle", proc |-> NoPid]

TypeOK ==
    /\ mState \in [Procs -> ProcessState]
    /\ mPid \in [Procs -> Procs \cup {NoPid}]
    /\ mStatus \in [Procs -> ExitStatus]
    /\ told \in [Procs -> SUBSET ExitStatus]
    /\ mReservedMb \in [Procs -> Unsigned]
    /\ mBorrowedMb \in [Procs -> Unsigned]
    /\ mMemory \in Ledger
    /\ mProcesses \in SUBSET Procs
    /\ mPidToProcess \in SUBSET Procs
    /\ os \in [Procs -> OsState]
    /\ spawner \in [Procs -> SpawnerState]
    /\ shortfall \in [Procs -> Int]
    /\ victim \in [Procs -> Procs \cup {NoPid}]
    /\ \A p \in Procs : spawner[p] \in {"kill", "reap"} => victim[p] \in Procs
    /\ terminator \in [Procs -> TerminatorState]
    /\ fast \in [Procs -> BOOLEAN]
    /\ remover \in [Procs -> {"idle", "terminate", "wait", "erased"}]
    /\ monitor \in [at : {"idle", "reaped", "locked"}, proc : Procs \cup {NoPid}]
    /\ oom \in [at : {"idle", "check", "lend"}, proc : Procs \cup {NoPid}]
    /\ signalled \in SUBSET ((Procs \cup {NoPid}) \X {"TERM", "KILL"})

Init ==
    /\ mState = [p \in Procs |-> "NotSpawned"]
    /\ mPid = [p \in Procs |-> NoPid]
    /\ mStatus = [p \in Procs |-> "NO_EXIT"]
    /\ told = [p \in Procs |-> {}]
    /\ mReservedMb = [p \in Procs |-> 0]
    /\ mBorrowedMb = [p \in Procs |-> 0]
    /\ mMemory = NewLedger(AvailableMb)
    /\ mProcesses = {}
    /\ mPidToProcess = {}
    /\ os = [p \in Procs |-> "none"]
    /\ spawner = [p \in Procs |-> "idle"]
    /\ shortfall = [p \in Procs |-> 0]
    /\ victim = [p \in Procs |-> NoPid]
    /\ terminator = [p \in Procs |-> "none"]
    /\ fast = [p \in Procs |-> FALSE]
    /\ remover = [p \in Procs |-> "idle"]
    /\ monitor = Idle
    /\ oom = Idle
    /\ signalled = {}

-----------------------------------------------------------------------------
(* Mutexes.                                                                *)

StateLocked(p) == spawner[p] # "idle"

ProcessesLocked == monitor.at = "locked"

\* kill(-0, SIGKILL) goes to the caller's own group: the node is gone.
NodeKilled == <<NoPid, "KILL">> \in signalled

-----------------------------------------------------------------------------
(* Leaving for Terminated, always with p's state mutex held.               *)

\* Process::terminated_internal: no operating system process to reap.
TerminatedInternal(p, status) ==
    LET final == IF mState[p] = "Terminated" THEN mStatus[p] ELSE status IN
    /\ mStatus' = [mStatus EXCEPT ![p] = final]
    /\ mState' = [mState EXCEPT ![p] = "Terminated"]
    /\ mPid' = [mPid EXCEPT ![p] = NoPid]
    /\ told' = [told EXCEPT ![p] = @ \cup {final}]

\* Mutant of ReleaseMemory: mReservedMb is not reset.
ReleaseTwice(p) ==
    /\ mMemory' = Release(mMemory, mReservedMb[p])
    /\ UNCHANGED mReservedMb

\* ProcessManager::releaseMemory.
ReleaseMemory(p) ==
    /\ mMemory' = Release(mMemory, mReservedMb[p])
    /\ mReservedMb' = [mReservedMb EXCEPT ![p] = 0]

-----------------------------------------------------------------------------
(* addProcess, and Process::spawn with its callbacks into the manager.     *)

AddProcess(p) ==
    /\ p \notin mProcesses
    /\ remover[p] = "idle"              \* ids are never used again
    /\ ~ProcessesLocked
    /\ mProcesses' = mProcesses \cup {p}
    /\ UNCHANGED <<lifecycle, memory, mPidToProcess, os, spawning,
                   terminating, remover, monitor, oom>>

\* spawn from NotSpawned takes the state mutex and creates the pipes.  From
\* any other state it returns at once and changes nothing.
Spawn(p) ==
    /\ p \in mProcesses
    /\ ~StateLocked(p)
    /\ mState[p] = "NotSpawned"
    /\ spawner' = [spawner EXCEPT ![p] = "reserve"]
    /\ UNCHANGED <<lifecycle, memory, tables, os, shortfall, victim,
                   terminating, remover, monitor, oom>>

\* pipe() fails: straight to Terminated, nothing was reserved.
SpawnPipeFails(p) ==
    /\ p \in mProcesses
    /\ ~StateLocked(p)
    /\ mState[p] = "NotSpawned"
    /\ TerminatedInternal(p, "FORK_FAILED")
    /\ UNCHANGED <<memory, tables, os, spawning, terminating, remover,
                   monitor, oom>>

\* reserveMemory, first attempt.
ReserveMemory(p) ==
    LET deficit == Deficit(mMemory, AssignedMb[p]) IN
    /\ spawner[p] = "reserve"
    /\ mMemory' = Reserve(mMemory, AssignedMb[p])
    /\ mReservedMb' = IF deficit = 0
                      THEN [mReservedMb EXCEPT ![p] = AssignedMb[p]]
                      ELSE mReservedMb
    /\ shortfall' = [shortfall EXCEPT ![p] = deficit]
    /\ spawner' = [spawner EXCEPT ![p] =
                     IF deficit = 0 THEN "fork"
                     ELSE IF mLoanMemory THEN "borrowers" ELSE "shortfall"]
    /\ UNCHANGED <<lifecycle, mBorrowedMb, tables, os, victim, terminating,
                   remover, monitor, oom>>

\* reserveMemory settles for what was free a moment ago.  The ledger's
\* answer to this second request is not looked at.
ReserveWhatIsLeft(p) ==
    LET reservation == Wrap(AssignedMb[p] - shortfall[p]) IN
    /\ spawner[p] \in {"shortfall", "lastTry"}
    /\ mMemory' = Reserve(mMemory, reservation)
    /\ mReservedMb' = [mReservedMb EXCEPT ![p] = reservation]
    /\ spawner' = [spawner EXCEPT ![p] = "fork"]
    /\ UNCHANGED <<lifecycle, mBorrowedMb, tables, os, shortfall, victim,
                   terminating, remover, monitor, oom>>

\* The head of the "while (deficit > 0)" loop is reached from before the
\* loop, or from the inner loop that polls the borrower's mBorrowedMb.
AtLoopHead(p) ==
    \/ spawner[p] = "borrowers"
    \/ spawner[p] = "reap" /\ mBorrowedMb[victim[p]] = 0

\* Mutant of Borrowers: who has borrowed nothing counts.
AnyProcess == mProcesses

Borrowers == {b \in mProcesses : mBorrowedMb[b] > 0}

BiggestBorrowers ==
    {b \in Borrowers : \A c \in Borrowers : mBorrowedMb[c] <= mBorrowedMb[b]}

\* findBiggestBorrower reads every mBorrowedMb under mProcessesMutex only.
FindBiggestBorrower(p, b) ==
    /\ AtLoopHead(p)
    /\ shortfall[p] > 0
    /\ ~ProcessesLocked
    /\ b \in BiggestBorrowers
    /\ victim' = [victim EXCEPT ![p] = b]
    /\ shortfall' = [shortfall EXCEPT ![p] = @ - mBorrowedMb[b]]
    /\ spawner' = [spawner EXCEPT ![p] = "kill"]
    /\ UNCHANGED <<lifecycle, memory, tables, os, terminating, remover,
                   monitor, oom>>

\* The loop ends: enough borrowers were killed, or there are no more.
NoMoreBorrowers(p) ==
    /\ AtLoopHead(p)
    /\ shortfall[p] > 0 => ~ProcessesLocked /\ Borrowers = {}
    /\ spawner' = [spawner EXCEPT ![p] = "again"]
    /\ UNCHANGED <<lifecycle, memory, tables, os, shortfall, victim,
                   terminating, remover, monitor, oom>>

\* reserveMemory, second attempt, after the loop.
ReserveAgain(p) ==
    LET deficit == Deficit(mMemory, AssignedMb[p]) IN
    /\ spawner[p] = "again"
    /\ mMemory' = Reserve(mMemory, AssignedMb[p])
    /\ mReservedMb' = IF deficit = 0
                      THEN [mReservedMb EXCEPT ![p] = AssignedMb[p]]
                      ELSE mReservedMb
    /\ shortfall' = [shortfall EXCEPT ![p] = deficit]
    /\ spawner' = [spawner EXCEPT ![p] =
                     IF deficit = 0 THEN "fork" ELSE "lastTry"]
    /\ UNCHANGED <<lifecycle, mBorrowedMb, tables, os, victim, terminating,
                   remover, monitor, oom>>

\* Mutant of ForkFails: fork's result is not tested.
ForkUnchecked(p) ==
    /\ spawner[p] = "fork"
    /\ mPid' = [mPid EXCEPT ![p] = -1]
    /\ mState' = [mState EXCEPT ![p] = "Spawned"]
    /\ spawner' = [spawner EXCEPT ![p] = "idle"]
    /\ UNCHANGED <<mStatus, told, memory, tables, os, shortfall, victim,
                   terminating, remover, monitor, oom>>

ForkFails(p) ==
    /\ spawner[p] = "fork"
    /\ TerminatedInternal(p, "FORK_FAILED")
    /\ ReleaseMemory(p)
    /\ spawner' = [spawner EXCEPT ![p] = "idle"]
    /\ UNCHANGED <<mBorrowedMb, tables, os, shortfall, victim, terminating,
                   remover, monitor, oom>>

\* Mutant of Fork: the pid is registered before spawn is done with it.
ForkRegisters(p) ==
    /\ spawner[p] = "fork"
    /\ os' = [os EXCEPT ![p] = "running"]
    /\ mPid' = [mPid EXCEPT ![p] = p]
    /\ mState' = [mState EXCEPT ![p] = "Spawned"]
    /\ mPidToProcess' = mPidToProcess \cup {p}
    /\ spawner' = [spawner EXCEPT ![p] = "postFork"]
    /\ UNCHANGED <<mStatus, told, memory, mProcesses, shortfall, victim,
                   terminating, remover, monitor, oom>>

Fork(p) ==
    /\ spawner[p] = "fork"
    /\ os' = [os EXCEPT ![p] = "running"]
    /\ mPid' = [mPid EXCEPT ![p] = p]
    /\ mState' = [mState EXCEPT ![p] = "Spawned"]
    /\ spawner' = [spawner EXCEPT ![p] = "postFork"]
    /\ UNCHANGED <<mStatus, told, memory, tables, shortfall, victim,
                   terminating, remover, monitor, oom>>

\* postFork_cb: only now can the exit monitor see the pid.  spawn returns.
PostFork(p) ==
    /\ spawner[p] = "postFork"
    /\ ~ProcessesLocked
    /\ mPidToProcess' = IF p \in mProcesses THEN mPidToProcess \cup {p}
                        ELSE mPidToProcess
    /\ spawner' = [spawner EXCEPT ![p] = "idle"]
    /\ UNCHANGED <<lifecycle, memory, mProcesses, os, shortfall, victim,
                   terminating, remover, monitor, oom>>

-----------------------------------------------------------------------------
(* Process::terminate, its callers, and Process::terminationProc.          *)

\* Mutant of StartTermination: a Terminated process is terminated again.
TerminateAnyway(p, isFast) ==
    /\ mState' = [mState EXCEPT ![p] = "Terminating"]
    /\ terminator' = [terminator EXCEPT ![p] = "create"]
    /\ fast' = [fast EXCEPT ![p] = isFast]
    /\ UNCHANGED <<mPid, mStatus, told>>

\* What terminate does under the state mutex.  The thread is created after
\* the mutex is released, hence "create".
StartTermination(p, isFast) ==
    \/ /\ mState[p] = "NotSpawned"
       /\ TerminatedInternal(p, "NOT_SPAWNED")
       /\ UNCHANGED <<terminator, fast>>
    \/ /\ mState[p] = "Spawned"
       /\ mState' = [mState EXCEPT ![p] = "Terminating"]
       /\ terminator' = [terminator EXCEPT ![p] = "create"]
       /\ fast' = [fast EXCEPT ![p] = isFast]
       /\ UNCHANGED <<mPid, mStatus, told>>
    \/ /\ mState[p] \in {"Terminating", "Terminated"}
       /\ UNCHANGED <<lifecycle, terminator, fast>>

\* A session stops one of its computations: terminate(false).
Terminate(p) ==
    /\ p \in mProcesses
    /\ ~StateLocked(p)
    /\ StartTermination(p, FALSE)
    /\ UNCHANGED <<memory, tables, os, spawning, signalled, remover,
                   monitor, oom>>

\* reserveMemory kills the borrower it found, then polls its mBorrowedMb.
KillBorrower(p) ==
    /\ spawner[p] = "kill"
    /\ ~StateLocked(victim[p])
    /\ StartTermination(victim[p], TRUE)
    /\ spawner' = [spawner EXCEPT ![p] = "reap"]
    /\ UNCHANGED <<memory, tables, os, shortfall, victim, signalled,
                   remover, monitor, oom>>

CreateTerminationThread(p) ==
    /\ terminator[p] = "create"
    /\ terminator' = [terminator EXCEPT ![p] = "start"]
    /\ UNCHANGED <<lifecycle, memory, tables, os, spawning, fast, signalled,
                   remover, monitor, oom>>

Termination(p, from, to) ==
    /\ terminator[p] \in from
    /\ ~StateLocked(p)
    /\ terminator' = [terminator EXCEPT ![p] = to]
    /\ UNCHANGED <<memory, tables, os, spawning, fast, remover, monitor, oom>>

\* On entry: somebody else has already seen the process exit.
TerminationNotNeeded(p) ==
    /\ mState[p] # "Terminating"
    /\ Termination(p, {"start"}, "done")
    /\ UNCHANGED <<lifecycle, signalled>>

\* controlledStop: the controller sends a "stop" message, which always
\* counts as sent.
RequestStop(p) ==
    /\ mState[p] = "Terminating" /\ ~fast[p] /\ Controlled
    /\ Termination(p, {"start"}, "stopWait")
    /\ UNCHANGED <<lifecycle, signalled>>

\* kill(-mPid, sig) followed by waitForExit_wlock, which returns at once if
\* the process is already Terminated.
SignalAndWait(p, from, sig, wait) ==
    /\ signalled' = signalled \cup {<<mPid[p], sig>>}
    /\ Termination(p, from, IF mState[p] = "Terminated" THEN "done" ELSE wait)
    /\ UNCHANGED lifecycle

\* STOP_WAIT is over, or there was no controller to ask.  A wait that times
\* out returns false without looking at mState again, whatever happened
\* while the thread was getting its mutex back.
SendTerm(p) ==
    \/ SignalAndWait(p, {"stopWait"}, "TERM", "termWait")
    \/ /\ mState[p] = "Terminating" /\ ~fast[p] /\ ~Controlled
       /\ SignalAndWait(p, {"start"}, "TERM", "termWait")

\* SIGTERM_WAIT is over, or termination is fast.
SendKill(p) ==
    \/ SignalAndWait(p, {"termWait"}, "KILL", "killWait")
    \/ /\ mState[p] = "Terminating" /\ fast[p]
       /\ SignalAndWait(p, {"start"}, "KILL", "killWait")

\* Mutants of GiveUp: the process counts as exited; its memory is released.
GiveUpAsExit(p) ==
    /\ TerminatedInternal(p, "Exit")
    /\ Termination(p, {"killWait"}, "done")
    /\ UNCHANGED signalled

GiveUpAndRelease(p) ==
    /\ TerminatedInternal(p, "UNINTERRUPTABLE")
    /\ ReleaseMemory(p)
    /\ terminator[p] = "killWait"
    /\ ~StateLocked(p)
    /\ terminator' = [terminator EXCEPT ![p] = "done"]
    /\ UNCHANGED <<mBorrowedMb, tables, os, spawning, fast, signalled, remover,
                   monitor, oom>>

\* SIGKILL_WAIT is over.
GiveUp(p) ==
    /\ TerminatedInternal(p, "UNINTERRUPTABLE")
    /\ Termination(p, {"killWait"}, "done")
    /\ UNCHANGED signalled

\* A wait is woken up in time by the exit.
TerminationSeesExit(p) ==
    /\ mState[p] = "Terminated"
    /\ Termination(p, Waits, "done")
    /\ UNCHANGED <<lifecycle, signalled>>

-----------------------------------------------------------------------------
(* removeProcess, called when a shell or a computation is disposed of.     *)

RemoveProcess(p) ==
    /\ remover[p] = "idle"
    /\ ~ProcessesLocked
    /\ p \in mProcesses
    /\ remover' = [remover EXCEPT ![p] = "terminate"]
    /\ UNCHANGED <<lifecycle, memory, tables, os, spawning, terminating,
                   monitor, oom>>

RemoveTerminates(p) ==
    /\ remover[p] = "terminate"
    /\ ~StateLocked(p)
    /\ StartTermination(p, TRUE)
    /\ remover' = [remover EXCEPT ![p] = "wait"]
    /\ UNCHANGED <<memory, tables, os, spawning, signalled, monitor, oom>>

\* Mutant of RemoveErases: the pid is forgotten too.
RemoveForgetsPid(p) ==
    /\ remover[p] = "wait"
    /\ ~StateLocked(p)
    /\ mState[p] = "Terminated"
    /\ ~ProcessesLocked
    /\ mProcesses' = mProcesses \ {p}
    /\ mPidToProcess' = mPidToProcess \ {p}
    /\ remover' = [remover EXCEPT ![p] = "erased"]
    /\ UNCHANGED <<lifecycle, memory, os, spawning, terminating, monitor, oom>>

RemoveErases(p) ==
    /\ remover[p] = "wait"
    /\ ~StateLocked(p)
    /\ mState[p] = "Terminated"
    /\ ~ProcessesLocked
    /\ mProcesses' = mProcesses \ {p}
    /\ remover' = [remover EXCEPT ![p] = "erased"]
    /\ UNCHANGED <<lifecycle, memory, mPidToProcess, os, spawning,
                   terminating, monitor, oom>>

-----------------------------------------------------------------------------
(* The exit monitor: waitpid without a mutex, then handleChildExit.        *)

ReapChild(p) ==
    /\ monitor.at = "idle"
    /\ p \in mPidToProcess
    /\ os[p] = "zombie"
    /\ os' = [os EXCEPT ![p] = "reaped"]
    /\ monitor' = [at |-> "reaped", proc |-> p]
    /\ UNCHANGED <<lifecycle, memory, tables, spawning, terminating,
                   remover, oom>>

\* mProcessesMutex is taken; exit_cb and the map need no state mutex.
HandleChildExit(p) ==
    /\ monitor = [at |-> "reaped", proc |-> p]
    /\ ReleaseMemory(p)
    /\ mPidToProcess' = mPidToProcess \ {p}
    /\ monitor' = [monitor EXCEPT !.at = "locked"]
    /\ UNCHANGED <<lifecycle, mBorrowedMb, mProcesses, os, spawning,
                   terminating, remover, oom>>

\* Process::terminated, under mProcessesMutex and then the state mutex.  A
\* process marked Terminated before keeps its status; the observer is told
\* in any case.
MarkTerminated(p) ==
    /\ monitor = [at |-> "locked", proc |-> p]
    /\ ~StateLocked(p)
    /\ TerminatedInternal(p, "Exit")
    /\ IF mState[p] = "Terminated" THEN UNCHANGED <<mReservedMb, mMemory>>
       ELSE ReleaseMemory(p)
    /\ monitor' = Idle
    /\ UNCHANGED <<mBorrowedMb, tables, os, spawning, terminating, remover,
                   oom>>

-----------------------------------------------------------------------------
(* The out-of-memory monitor: handleOomCondition for one group at a time.  *)
(* Groups still out of memory are found again by the next scan.            *)

\* p's group is out of memory and p is still Spawned.
OutOfMemory(p) ==
    /\ OomMonitor
    /\ oom.at = "idle"
    /\ os[p] = "running"
    /\ p \in mProcesses
    /\ ~ProcessesLocked
    /\ ~StateLocked(p)
    /\ mState[p] = "Spawned"
    /\ oom' = [at |-> "check", proc |-> p]
    /\ UNCHANGED <<lifecycle, memory, tables, os, spawning, terminating,
                   remover, monitor>>

\* There is memory to lend: the ledger is charged first.
OomBorrows(p) ==
    /\ oom = [at |-> "check", proc |-> p]
    /\ mLoanMemory
    /\ Loan(mMemory, LoanMb) > 0
    /\ mMemory' = Borrow(mMemory, LoanMb)
    /\ oom' = [oom EXCEPT !.at = "lend"]
    /\ UNCHANGED <<lifecycle, mReservedMb, mBorrowedMb, tables, os, spawning,
                   terminating, remover, monitor>>

\* Then the process, under its mutex but without another look at its state.
OomLends(p) ==
    /\ oom = [at |-> "lend", proc |-> p]
    /\ ~StateLocked(p)
    /\ mBorrowedMb' = [mBorrowedMb EXCEPT ![p] = Wrap(@ + LoanMb)]
    /\ oom' = Idle
    /\ UNCHANGED <<lifecycle, mReservedMb, mMemory, tables, os, spawning,
                   terminating, remover, monitor>>

\* Nothing to lend, or lending is off: SIGKILL.
OomKills(p) ==
    /\ oom = [at |-> "check", proc |-> p]
    /\ mLoanMemory => Loan(mMemory, LoanMb) = 0
    /\ ~StateLocked(p)
    /\ StartTermination(p, TRUE)
    /\ oom' = Idle
    /\ UNCHANGED <<memory, tables, os, spawning, signalled, remover, monitor>>

-----------------------------------------------------------------------------
(* The operating system: a child may exit at any time, signalled or not.   *)

ChildExits(p) ==
    /\ os[p] = "running"
    /\ os' = [os EXCEPT ![p] = "zombie"]
    /\ UNCHANGED <<lifecycle, memory, tables, spawning, terminating,
                   remover, monitor, oom>>

-----------------------------------------------------------------------------

SpawnStep(p) ==
    \/ ReserveMemory(p) \/ ReserveWhatIsLeft(p)
    \/ \E b \in Procs : FindBiggestBorrower(p, b)
    \/ NoMoreBorrowers(p) \/ KillBorrower(p) \/ ReserveAgain(p)
    \/ ForkFails(p) \/ Fork(p) \/ PostFork(p)

TerminationStep(p) ==
    \/ CreateTerminationThread(p) \/ TerminationNotNeeded(p)
    \/ RequestStop(p) \/ SendTerm(p) \/ SendKill(p) \/ GiveUp(p)
    \/ TerminationSeesExit(p)

RemoveStep(p) == RemoveTerminates(p) \/ RemoveErases(p)

MonitorStep(p) == ReapChild(p) \/ HandleChildExit(p) \/ MarkTerminated(p)

OomStep(p) == OomBorrows(p) \/ OomLends(p) \/ OomKills(p)

\* Calls from outside.
Call(p) ==
    \/ AddProcess(p) \/ Spawn(p) \/ SpawnPipeFails(p)
    \/ Terminate(p) \/ RemoveProcess(p)

Step(p) ==
    \/ Call(p) \/ SpawnStep(p) \/ TerminationStep(p) \/ RemoveStep(p)
    \/ MonitorStep(p) \/ OutOfMemory(p) \/ OomStep(p) \/ ChildExits(p)

\* Every process was removed and every thread is back at rest.
AllRemoved ==
    /\ \A p \in Procs : remover[p] = "erased" /\ os[p] \in {"none", "reaped"}
    /\ \A p \in Procs : terminator[p] \in {"none", "done"}
    /\ monitor = Idle /\ oom = Idle

Next ==
    \/ ~NodeKilled /\ \E p \in Procs : Step(p)
    \/ (NodeKilled \/ AllRemoved) /\ UNCHANGED vars

Spec == Init /\ [][Next]_vars

\* Threads are scheduled and timeouts run out; no fairness is assumed of the
\* operating system ending a child, nor of calls being made.
ThreadFairness ==
    \A p \in Procs :
        /\ WF_vars(~NodeKilled /\ SpawnStep(p))
        /\ WF_vars(~NodeKilled /\ TerminationStep(p))
        /\ WF_vars(~NodeKilled /\ RemoveStep(p))
        /\ WF_vars(~NodeKilled /\ MonitorStep(p))
        /\ WF_vars(~NodeKilled /\ OomStep(p))

FairSpec == Spec /\ ThreadFairness

-----------------------------------------------------------------------------
(* Properties.                                                             *)

\* A process reported as terminated has no operating system process left,
\* unless its status says that it could not be interrupted.  At stake: the
\* order of fork, postFork_cb, waitpid and terminated() (Process.cc 126-199,
\* ProcessManager.cc 268-296).
TerminatedIsGone ==
    \A p \in Procs :
        mState[p] = "Terminated" /\ mStatus[p] # "UNINTERRUPTABLE"
            => os[p] \in {"none", "reaped"}

\* Every living or unreaped child is polled by the exit monitor, or its
\* spawning thread is about to register it: whatever callers do, also
\* removeProcess, no child is lost (postFork_cb, removeProcess).
ChildIsWatched ==
    \A p \in Procs :
        os[p] \in {"running", "zombie"} =>
            p \in mPidToProcess \/ spawner[p] = "postFork"

\* The exit monitor, which takes mProcessesMutex and then a state mutex,
\* never waits for a process whose spawning thread holds that state mutex
\* and wants mProcessesMutex (spawn takes the two in the opposite order).
NoLockCycle == ProcessesLocked => ~StateLocked(monitor.proc)

\* However often the observer is called for a process (a late exit of an
\* uninterruptable process calls it again), it hears the one status that
\* waitForExit and status() report.
OneExitStatus ==
    \A p \in Procs :
        told[p] = IF mState[p] = "Terminated" THEN {mStatus[p]} ELSE {}

\* The inductive invariant behind the properties above.  A spawning thread
\* that has not forked yet works for a registered process that is still
\* NotSpawned, since it holds the state mutex all the way.
SpawningIsBeforeSpawned ==
    \A p \in Procs :
        /\ spawner[p] # "idle" => p \in mProcesses
        /\ spawner[p] \notin {"idle", "postFork"} => mState[p] = "NotSpawned"
        /\ spawner[p] = "postFork" =>
              mState[p] = "Spawned" /\ os[p] \in {"running", "zombie"}

\* A process has a child from its fork on.
ChildIsKnown ==
    \A p \in Procs :
        /\ mState[p] = "NotSpawned" => os[p] = "none"
        /\ mState[p] \in {"Spawned", "Terminating"} => os[p] # "none"

\* The pid table holds children whose spawn is over and whose exit the
\* monitor has not handled yet.
TableIsExact ==
    \A p \in mPidToProcess :
        /\ p \in Procs /\ spawner[p] = "idle" /\ mState[p] # "NotSpawned"
        /\ os[p] = "reaped" => monitor = [at |-> "reaped", proc |-> p]

\* The monitor handles a child it has reaped.
MonitorIsExact ==
    monitor.at # "idle" =>
        /\ monitor.proc \in Procs
        /\ os[monitor.proc] = "reaped"
        /\ spawner[monitor.proc] = "idle"
        /\ mState[monitor.proc] # "NotSpawned"

IInv ==
    /\ SpawningIsBeforeSpawned /\ ChildIsKnown /\ TableIsExact
    /\ MonitorIsExact /\ TerminatedIsGone /\ ChildIsWatched /\ OneExitStatus

\* The part of the invariant that concerns pids and signals: a process has a
\* pid while it is Spawned or Terminating, and a thread that waits for
\* SIGKILL to work has sent it.
PidIsExact ==
    \A p \in Procs :
        /\ mPid[p] = IF mState[p] \in {"Spawned", "Terminating"} THEN p ELSE NoPid
        /\ terminator[p] # "none" => mState[p] \in {"Terminating", "Terminated"}
        /\ terminator[p] = "killWait" => <<p, "KILL">> \in signalled

\* p's spawn is over, for good: it left NotSpawned and its spawning thread
\* returned.
SpawnIsOver(p) == p \in Procs /\ mState[p] # "NotSpawned" /\ spawner[p] = "idle"

\* The part of the invariant that concerns loans: only a process whose spawn
\* is over borrows, is looked at by the out-of-memory monitor, or is chosen
\* as a borrower to kill.
LoanIsAfterSpawn ==
    /\ \A p \in Procs : mBorrowedMb[p] > 0 => SpawnIsOver(p)
    /\ oom.at # "idle" => SpawnIsOver(oom.proc)
    /\ \A p \in Procs : spawner[p] = "kill" => SpawnIsOver(victim[p])

\* The megabytes that the processes hold, where f says how many each of them
\* holds.  Counting them adds f up without an order of addition.
Megabytes(f) == {h \in Procs \X Unsigned : h[2] < f[h[1]]}

HeldMb(f) == Cardinality(Megabytes(f))

\* The ledger's total is the sum of what the processes hold, whatever the
\* interleaving of reservations, releases and loans (MemoryTracking.h 74-77).
LedgerBalances ==
    /\ mMemory.reserved = HeldMb(mReservedMb)
    /\ mMemory.borrowed =
          HeldMb(mBorrowedMb) + (IF oom.at = "lend" THEN LoanMb ELSE 0)

\* A spawning thread that wants the state mutex of a borrower, holding its
\* own, never waits for another spawning thread, nor for itself: borrowers
\* were Spawned long before (findBiggestBorrower, reserveMemory).
BorrowerIsNotSpawning ==
    \A p \in Procs : spawner[p] = "kill" => ~StateLocked(victim[p])

\* Memory is given back only when the child that uses it is gone: marking
\* a process UNINTERRUPTABLE does not release its reservation.
ReservationOutlivesChild ==
    [][\A p \in Procs :
         mReservedMb'[p] < mReservedMb[p] => os[p] \in {"none", "reaped"}]_vars

\* Signals go to the process group of a child: kill(-mPid, ...) is never
\* called with mPid = 0, which would signal the node's own group
\* (terminationProc, Process.cc 476 and 486).
SignalsStayInGroup == \A s \in signalled : s[1] # NoPid

\* "process will always eventually achieve Terminated" (Process.cc 240),
\* even if the operating system never ends the child.
TerminationCompletes ==
    \A p \in Procs :
        mState[p] = "Terminating" ~> mState[p] = "Terminated" \/ NodeKilled

\* removeProcess "may block for a while", not forever.
RemoveReturns ==
    \A p \in Procs :
        remover[p] = "wait" ~> remover[p] = "erased" \/ NodeKilled

\* A child that ends is reaped and its process is Terminated.
ExitIsNoticed ==
    \A p \in Procs :
        os[p] = "zombie" ~>
            (os[p] = "reaped" /\ mState[p] = "Terminated") \/ NodeKilled

\* spawn returns: the wait for borrowers to be reaped (ProcessManager.cc
\* 513) comes to an end.
SpawnReturns ==
    \A p \in Procs : StateLocked(p) ~> ~StateLocked(p) \/ NodeKilled

\* No wait of the manager's threads or of its callers is for ever, as long as
\* memory is not lent.
EveryWaitEnds == TerminationCompletes /\ RemoveReturns /\ ExitIsNoticed /\ SpawnReturns

\* The abstract lifecycle.
childOf(p) == IF os[p] = "none" THEN "none"
              ELSE IF os[p] = "running" THEN "alive" ELSE "gone"

Lifecycle == INSTANCE ProcessLifecycle WITH
    state <- mState,
    child <- [p \in Procs |-> childOf(p)],
    killed <- {p \in Procs : <<p, "KILL">> \in signalled}

\* The manager with its threads implements the lifecycle.
ImplementsLifecycle == Lifecycle!Spec
=============================================================================
