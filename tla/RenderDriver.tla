----------------------------- MODULE RenderDriver -----------------------------
(***************************************************************************)
(* class RenderDriver (moonray rendering/rndr) with the calls RenderContext*)
(* makes of it: the application thread that starts and stops frames, the   *)
(* persistent render thread, and the threads it starts for each call of    *)
(* renderPasses, which take tile groups from the TileWorkQueue.            *)
(*                                                                         *)
(* Render modes BATCH and PROGRESSIVE, uniform sampling, scalar execution  *)
(* (a ray is traced to its end where it is made: no queues to drain).      *)
(* A step of a thread is what it does between two accesses to a variable   *)
(* that another thread writes.                                             *)
(***************************************************************************)
EXTENDS TileWorkQueue, FiniteSets

CONSTANTS
    Threads,                \* fs.mNumRenderThreads of them
    Settings,               \* FrameState: [mode, nodes, filters]
    SamplesPerTile,         \* [mode -> [pass -> samples of a tile in that pass]]
    mLastCoarsePassIdx,     \* [mode -> pass, or MaxRenderPasses if all are fine]
    MaxFrames               \* bound: frames an application starts

MaxRenderPasses == 64

\* There is a thread (TileWorkQueue.cc:62).  initPasses: at least one pass, each
\* with samples; all of them are fine, or the last coarse one is among them.
ASSUME RenderAssumption ==
    /\ IsFiniteSet(Threads) /\ Threads # {}
    /\ MaxFrames \in Nat
    /\ \A s \in Settings :
          /\ s.mode \in {"BATCH", "PROGRESSIVE"}
          /\ s.nodes \in Nat \ {0}
          /\ \E n \in 1 .. MaxRenderPasses :
                /\ SamplesPerTile[s.mode] \in [0 .. n - 1 -> Nat \ {0}]
                /\ mLastCoarsePassIdx[s.mode] \in 0 .. n - 1 \cup {MaxRenderPasses}

NoGroup == [pass |-> 0, from |-> 0, to |-> 0, size |-> 0]

VARIABLES
    app,                    \* "idle", "rendering" (mRendering), "stopping", "gone"
    frames,                 \* frames started
    mFs,                    \* FrameState of the frame
    gCancelFlag,
    mReadyForDisplay,
    mCoarsePassesComplete,
    mFrameComplete,
    mStopAtFrameReadyForDisplay,
    mRenderStopAtPassBoundary,
    mRenderThreadState,
    at,                     \* where the render thread is
    clampPass,              \* its local: passes the workers may work on
    canceled,               \* renderPasses: some thread was canceled
    numTBBThreads,          \* renderPasses: threads that are awake
    finishedTilesCount,     \* renderPasses: tiles of the finished groups
    mPrimaryRaysSubmitted,  \* [pass -> tiles whose rays were submitted]
    worker,                 \* [Threads -> where it is]
    seenIdx,                \* [Threads -> mGlobalGroupIdx as it was read]
    seenOffset,             \* [Threads -> mOffset as it was read]
    group,                  \* [Threads -> its group, "from" the next tile]
    mCancellationState,     \* [Threads -> TLState::mCancellationState]
    mCurrentPassIdx,        \* [Threads -> TLState::mCurrentPassIdx]
    film                    \* [pass, tile -> times it was rendered]

appVars == <<app, frames, mFs>>
flags == <<gCancelFlag, mReadyForDisplay, mCoarsePassesComplete, mFrameComplete,
           mStopAtFrameReadyForDisplay, mRenderStopAtPassBoundary>>
driverVars == <<mRenderThreadState, at, clampPass>>
callVars == <<canceled, numTBBThreads, finishedTilesCount, mPrimaryRaysSubmitted>>
workerVars == <<worker, seenIdx, seenOffset, group, mCancellationState, mCurrentPassIdx>>
vars == <<queueVars, appVars, flags, driverVars, callVars, workerVars, film>>

RenderThreadState == {"READY_TO_RENDER", "REQUEST_RENDER", "RENDERING", "RENDERING_DONE",
                      "KILL_RENDER_THREAD", "DEAD"}
RenderThreadAt == {"waiting", "firstPass", "nextPass", "allPasses",
                   "firstPassTaken", "nextPassTaken", "allPassesTaken",
                   "displayable", "over"}
WorkerState == {"off", "started", "awake", "betweenGroups", "taking", "letThrough",
                "reserving", "rendering", "finishedGroup", "counted", "showing", "leaving"}
CancellationState == {"DISABLED", "CANCELED", "WAITING_FOR_SAMPLE_PER_PIXEL", "WAITING_FOR_CANCEL"}

Passes(s) == DOMAIN SamplesPerTile[s.mode]
Samples(s) == Passes(s) \X Tiles
HasFinePasses == mLastCoarsePassIdx[mFs.mode] + 1 \in Passes(mFs)
Parallel == mFs.nodes > 1           \* mParallelInitFrameUpdate
MinTileTotal == LET share == NumTiles \div mFs.nodes IN IF share = 0 THEN 1 ELSE share

Init ==
    /\ InitQueue
    /\ app = "idle"
    /\ frames = 0
    /\ mFs \in Settings
    /\ gCancelFlag = FALSE
    /\ mReadyForDisplay = FALSE
    /\ mCoarsePassesComplete = FALSE
    /\ mFrameComplete = FALSE
    /\ mStopAtFrameReadyForDisplay = FALSE
    /\ mRenderStopAtPassBoundary = FALSE
    /\ mRenderThreadState = "READY_TO_RENDER"
    /\ at = "waiting"
    /\ clampPass = 0
    /\ canceled = FALSE
    /\ numTBBThreads = 0
    /\ finishedTilesCount = 0
    /\ mPrimaryRaysSubmitted = [p \in Passes(mFs) |-> 0]
    /\ worker = [t \in Threads |-> "off"]
    /\ seenIdx = [t \in Threads |-> 0]
    /\ seenOffset = [t \in Threads |-> Start]
    /\ group = [t \in Threads |-> NoGroup]
    /\ mCancellationState = [t \in Threads |-> "DISABLED"]
    /\ mCurrentPassIdx = [t \in Threads |-> 0]
    /\ film = [x \in Samples(mFs) |-> 0]

-----------------------------------------------------------------------------
(* The application thread.                                                 *)

StartFrame(s) ==
    /\ app = "idle"
    /\ frames < MaxFrames
    /\ app' = "rendering"
    /\ frames' = frames + 1
    /\ mFs' = s
    /\ mReadyForDisplay' = FALSE
    /\ mCoarsePassesComplete' = FALSE
    /\ mFrameComplete' = FALSE
    /\ mPrimaryRaysSubmitted' = [p \in Passes(s) |-> 0]
    /\ gCancelFlag' = FALSE
    /\ mStopAtFrameReadyForDisplay' = FALSE
    /\ mRenderStopAtPassBoundary' = FALSE
    /\ mPassInfos' = PassInfos(SamplesPerTile[s.mode])
    /\ Reset(mPassInfos')
    /\ mRenderThreadState' = "REQUEST_RENDER"
    /\ UNCHANGED <<at, clampPass, canceled, numTBBThreads, finishedTilesCount, workerVars, film>>

\* requestStop, or a signal handler calling requestStopAsyncSignalSafe, which
\* does not ask whether a frame is being rendered.
RequestStop ==
    /\ app # "gone"
    /\ gCancelFlag' = TRUE
    /\ UNCHANGED <<queueVars, appVars, mReadyForDisplay, mCoarsePassesComplete, mFrameComplete,
                   mStopAtFrameReadyForDisplay, mRenderStopAtPassBoundary,
                   driverVars, callVars, workerVars, film>>

RequestStopAtFrameReadyForDisplay ==
    /\ app = "rendering"
    /\ mStopAtFrameReadyForDisplay' = TRUE
    /\ UNCHANGED <<queueVars, appVars, gCancelFlag, mReadyForDisplay, mCoarsePassesComplete,
                   mFrameComplete, mRenderStopAtPassBoundary,
                   driverVars, callVars, workerVars, film>>

RequestStopRenderAtPassBoundary ==
    /\ app = "rendering"
    /\ ~mFrameComplete
    /\ mRenderStopAtPassBoundary' = TRUE
    /\ UNCHANGED <<queueVars, appVars, gCancelFlag, mReadyForDisplay, mCoarsePassesComplete,
                   mFrameComplete, mStopAtFrameReadyForDisplay,
                   driverVars, callVars, workerVars, film>>

StopFrame ==
    /\ app = "rendering"
    /\ app' = "stopping"
    /\ gCancelFlag' = TRUE
    /\ UNCHANGED <<queueVars, frames, mFs, mReadyForDisplay, mCoarsePassesComplete, mFrameComplete,
                   mStopAtFrameReadyForDisplay, mRenderStopAtPassBoundary,
                   driverVars, callVars, workerVars, film>>

Stopped ==
    /\ app = "stopping"
    /\ mRenderThreadState = "RENDERING_DONE"
    /\ app' = "idle"
    /\ mRenderThreadState' = "READY_TO_RENDER"
    /\ UNCHANGED <<queueVars, frames, mFs, flags, at, clampPass, callVars, workerVars, film>>

Destroy ==
    /\ app = "idle"
    /\ app' = "gone"
    /\ mRenderThreadState' = "KILL_RENDER_THREAD"
    /\ UNCHANGED <<queueVars, frames, mFs, flags, at, clampPass, callVars, workerVars, film>>

Application ==
    \/ \E s \in Settings : StartFrame(s)
    \/ RequestStop \/ RequestStopAtFrameReadyForDisplay \/ RequestStopRenderAtPassBoundary
    \/ StopFrame \/ Stopped \/ Destroy

-----------------------------------------------------------------------------
(* The render thread.                                                      *)

BeginFrame ==
    /\ at = "waiting"
    /\ mRenderThreadState = "REQUEST_RENDER"
    /\ mRenderThreadState' = "RENDERING"
    /\ film' = [x \in Samples(mFs) |-> 0]
    /\ mGlobalGroupIdx' = 0
    /\ mOffset' = Start
    /\ IF mFs.mode = "BATCH"
       THEN /\ at' = "allPasses"
            /\ clampPass' = Cardinality(Passes(mFs)) - 1
            /\ UnclampPasses(mPassInfos)
       ELSE /\ at' = "firstPass"
            /\ clampPass' = 0
            /\ ClampToPass(mPassInfos, 0)
    /\ mCoarsePassesComplete' = (mLastCoarsePassIdx[mFs.mode] = MaxRenderPasses)
    /\ UNCHANGED <<mPassInfos, appVars, gCancelFlag, mReadyForDisplay, mFrameComplete,
                   mStopAtFrameReadyForDisplay, mRenderStopAtPassBoundary, callVars, workerVars>>

Taken(place) ==
    CASE place = "firstPass" -> "firstPassTaken"
      [] place = "nextPass"  -> "nextPassTaken"
      [] place = "allPasses" -> "allPassesTaken"

\* renderPasses: start the threads.
RenderPasses ==
    /\ at \in {"firstPass", "nextPass", "allPasses"}
    /\ ~mRenderStopAtPassBoundary
    /\ at' = Taken(at)
    /\ worker' = [t \in Threads |-> "started"]
    /\ canceled' = FALSE
    /\ numTBBThreads' = 0
    /\ finishedTilesCount' = 0
    /\ UNCHANGED <<queueVars, appVars, flags, mRenderThreadState, clampPass, mPrimaryRaysSubmitted,
                   seenIdx, seenOffset, group, mCancellationState, mCurrentPassIdx, film>>

\* What follows the first pass of a PROGRESSIVE frame.
ShowFirstPass ==
    /\ at' = "displayable"
    /\ mReadyForDisplay' = TRUE
    /\ mCoarsePassesComplete' = (mCoarsePassesComplete \/ mLastCoarsePassIdx[mFs.mode] < 1)
    /\ UNCHANGED <<queueVars, mFrameComplete, clampPass>>

\* Nothing is left to render.
CompleteFrame ==
    /\ at' = "over"
    /\ mReadyForDisplay' = (mReadyForDisplay \/ mFs.mode = "BATCH")
    /\ mFrameComplete' = TRUE
    /\ UNCHANGED <<queueVars, mCoarsePassesComplete, clampPass>>

GiveUp ==
    /\ at' = "over"
    /\ UNCHANGED <<queueVars, mReadyForDisplay, mCoarsePassesComplete, mFrameComplete, clampPass>>

\* With display filters the passes that are left are rendered one by one.
NextPass ==
    /\ at' = "nextPass"
    /\ clampPass' = clampPass + 1
    /\ ClampToPass(mPassInfos, clampPass')
    /\ UNCHANGED <<mPassInfos, mGlobalGroupIdx, mOffset, mReadyForDisplay, mCoarsePassesComplete,
                   mFrameComplete>>

AllPasses ==
    /\ at' = "allPasses"
    /\ clampPass' = Cardinality(Passes(mFs)) - 1
    /\ UnclampPasses(mPassInfos)
    /\ UNCHANGED <<mPassInfos, mGlobalGroupIdx, mOffset, mReadyForDisplay, mCoarsePassesComplete,
                   mFrameComplete>>

MorePasses == clampPass + 1 \in Passes(mFs)

\* renderPasses returns STOP_AT_PASS_BOUNDARY at once.
StopAtPassBoundary ==
    /\ mRenderStopAtPassBoundary
    /\ \/ at = "firstPass" /\ ShowFirstPass
       \/ at \in {"nextPass", "allPasses"} /\ CompleteFrame
    /\ UNCHANGED <<appVars, gCancelFlag, mStopAtFrameReadyForDisplay, mRenderStopAtPassBoundary,
                   mRenderThreadState, callVars, workerVars, film>>

\* renderPasses returns when its threads have; canceled is ERROR_OR_CANCEL.
PassesTaken ==
    /\ \A t \in Threads : worker[t] = "off"
    /\ \/ at = "firstPassTaken" /\ ShowFirstPass
       \/ at \in {"nextPassTaken", "allPassesTaken"} /\ canceled /\ GiveUp
       \/ at = "nextPassTaken" /\ ~canceled /\ IF MorePasses THEN NextPass ELSE CompleteFrame
       \/ at = "allPassesTaken" /\ ~canceled /\ CompleteFrame
    /\ UNCHANGED <<appVars, gCancelFlag, mStopAtFrameReadyForDisplay, mRenderStopAtPassBoundary,
                   mRenderThreadState, callVars, workerVars, film>>

AfterFirstPass ==
    /\ at = "displayable"
    /\ IF mStopAtFrameReadyForDisplay THEN GiveUp
       ELSE IF mFs.filters /\ ~mCoarsePassesComplete THEN NextPass
       ELSE AllPasses
    /\ UNCHANGED <<appVars, gCancelFlag, mStopAtFrameReadyForDisplay, mRenderStopAtPassBoundary,
                   mRenderThreadState, callVars, workerVars, film>>

EndFrame ==
    /\ at = "over"
    /\ at' = "waiting"
    /\ mReadyForDisplay' = TRUE
    /\ mRenderThreadState' = "RENDERING_DONE"
    /\ UNCHANGED <<queueVars, appVars, gCancelFlag, mCoarsePassesComplete, mFrameComplete,
                   mStopAtFrameReadyForDisplay, mRenderStopAtPassBoundary, clampPass,
                   callVars, workerVars, film>>

Die ==
    /\ at = "waiting"
    /\ mRenderThreadState = "KILL_RENDER_THREAD"
    /\ mRenderThreadState' = "DEAD"
    /\ UNCHANGED <<queueVars, appVars, flags, at, clampPass, callVars, workerVars, film>>

RenderThread ==
    \/ BeginFrame \/ RenderPasses \/ StopAtPassBoundary \/ PassesTaken
    \/ AfterFirstPass \/ EndFrame \/ Die

-----------------------------------------------------------------------------
(* The threads of renderPasses.                                            *)

\* TLState::isCanceled changes the state: a thread that was canceled stays so.
CancelCheck(t) ==
    CASE \/ mCancellationState[t] = "WAITING_FOR_CANCEL"
         \/ (mCancellationState[t] = "WAITING_FOR_SAMPLE_PER_PIXEL" /\ mCurrentPassIdx[t] > 0)
            -> IF gCancelFlag THEN "CANCELED" ELSE "WAITING_FOR_CANCEL"
      [] OTHER -> mCancellationState[t]

\* Mutant of AllAwake: waits for one thread more.
MoreAwake == numTBBThreads > Cardinality(Threads)
AllAwake == numTBBThreads = Cardinality(Threads)

Move(t, from, to) ==
    /\ worker[t] = from
    /\ worker' = [worker EXCEPT ![t] = to]

SetCancellation(t, state) ==
    /\ mCancellationState' = [mCancellationState EXCEPT ![t] = state]
    /\ mCurrentPassIdx' = [mCurrentPassIdx EXCEPT ![t] = 0]

\* The thread returns; its locals are gone.
Return(t) ==
    /\ seenIdx' = [seenIdx EXCEPT ![t] = 0]
    /\ seenOffset' = [seenOffset EXCEPT ![t] = Start]
    /\ group' = [group EXCEPT ![t] = NoGroup]

WakeUp(t) ==
    /\ Move(t, "started", "awake")
    /\ numTBBThreads' = numTBBThreads + 1
    /\ UNCHANGED <<queueVars, appVars, flags, driverVars, canceled, finishedTilesCount,
                   mPrimaryRaysSubmitted, seenIdx, seenOffset, group, mCancellationState,
                   mCurrentPassIdx, film>>

\* The first pass of a PROGRESSIVE frame cannot be canceled.
PassBarrier(t) ==
    /\ AllAwake
    /\ Move(t, "awake", "betweenGroups")
    /\ SetCancellation(t, CASE at = "firstPassTaken" -> "DISABLED"
                            [] mFs.mode = "BATCH"      -> "WAITING_FOR_CANCEL"
                            [] OTHER                   -> "WAITING_FOR_SAMPLE_PER_PIXEL")
    /\ UNCHANGED <<queueVars, appVars, flags, driverVars, callVars, seenIdx, seenOffset, group, film>>

\* Mutant of MayLeaveBarrier: cancellation is looked at first.
LeaveBarrierAlways == TRUE
MayLeaveBarrier == ~AllAwake

\* Not even that pass keeps a thread at the barrier.
CancelAtBarrier(t) ==
    /\ MayLeaveBarrier
    /\ gCancelFlag
    /\ Move(t, "awake", "off")
    /\ canceled' = TRUE
    /\ UNCHANGED <<queueVars, appVars, flags, driverVars, numTBBThreads, finishedTilesCount,
                   mPrimaryRaysSubmitted, seenIdx, seenOffset, group, mCancellationState,
                   mCurrentPassIdx, film>>

LookForWork(t) ==
    /\ mCancellationState' = [mCancellationState EXCEPT ![t] = CancelCheck(t)]
    /\ IF CancelCheck(t) = "CANCELED"
       THEN Move(t, "betweenGroups", "leaving") /\ UNCHANGED seenIdx
       ELSE /\ Move(t, "betweenGroups", "taking")
            /\ seenIdx' = [seenIdx EXCEPT ![t] = mGlobalGroupIdx]
    /\ UNCHANGED <<queueVars, appVars, flags, driverVars, callVars, seenOffset, group,
                   mCurrentPassIdx, film>>

\* Mutant of UsedUp: one group too many.
UsedUpAfterNext(i) == i > mGroupClampIdx
UsedUp(i) == i >= mGroupClampIdx

NoGroupLeft(t) ==
    /\ UsedUp(seenIdx[t])
    /\ Move(t, "taking", "leaving")
    /\ UNCHANGED <<queueVars, appVars, flags, driverVars, callVars, seenIdx, seenOffset, group,
                   mCancellationState, mCurrentPassIdx, film>>

\* compare_exchange_weak: another thread may have been let through meanwhile.
LetThrough(t) ==
    /\ worker[t] = "taking"
    /\ ~UsedUp(seenIdx[t])
    /\ IF mGlobalGroupIdx = seenIdx[t]
       THEN /\ mGlobalGroupIdx' = seenIdx[t] + 1
            /\ Move(t, "taking", "letThrough")
            /\ UNCHANGED seenIdx
       ELSE /\ seenIdx' = [seenIdx EXCEPT ![t] = mGlobalGroupIdx]
            /\ UNCHANGED <<mGlobalGroupIdx, worker>>
    /\ UNCHANGED <<mPassInfos, mGroupClampIdx, mOffset, appVars, flags, driverVars, callVars,
                   seenOffset, group, mCancellationState, mCurrentPassIdx, film>>

ReadOffset(t) ==
    /\ Move(t, "letThrough", "reserving")
    /\ seenOffset' = [seenOffset EXCEPT ![t] = mOffset]
    /\ UNCHANGED <<queueVars, appVars, flags, driverVars, callVars, seenIdx, group,
                   mCancellationState, mCurrentPassIdx, film>>

\* compare_exchange_strong, which reads the offset again if it fails.
ReserveNextTileGroup(t) ==
    /\ worker[t] = "reserving"
    /\ IF mOffset = seenOffset[t]
       THEN /\ mOffset' = NextOffset(mOffset, TilesPerGroupOf(mOffset.pass))
            /\ LET g == GroupBetween(mOffset, mOffset')
               IN  group' = [group EXCEPT ![t] = [pass |-> g.pass, from |-> g.from, to |-> g.to,
                                                  size |-> g.to - g.from]]
            /\ mCurrentPassIdx' = [mCurrentPassIdx EXCEPT ![t] = mOffset.pass]
            /\ Move(t, "reserving", "rendering")
            /\ UNCHANGED seenOffset
       ELSE /\ seenOffset' = [seenOffset EXCEPT ![t] = mOffset]
            /\ UNCHANGED <<mOffset, group, mCurrentPassIdx, worker>>
    /\ UNCHANGED <<mPassInfos, mGroupClampIdx, mGlobalGroupIdx, appVars, flags, driverVars, callVars,
                   seenIdx, mCancellationState, film>>

\* The next tile of the group, or the group is abandoned.
RenderTile(t) ==
    /\ worker[t] = "rendering"
    /\ mCancellationState' = [mCancellationState EXCEPT ![t] = CancelCheck(t)]
    /\ IF CancelCheck(t) = "CANCELED"
       THEN Move(t, "rendering", "finishedGroup") /\ UNCHANGED <<group, film>>
       ELSE /\ film' = [film EXCEPT ![<<group[t].pass, group[t].from>>] = @ + 1]
            /\ group' = [group EXCEPT ![t].from = @ + 1]
            /\ Move(t, "rendering",
                    IF group[t].from + 1 = group[t].to THEN "finishedGroup" ELSE "rendering")
    /\ UNCHANGED <<queueVars, appVars, flags, driverVars, callVars, seenIdx, seenOffset, mCurrentPassIdx>>

\* transferAllProgressFromSingleTLS: the rays of the tiles that were rendered.
TransferProgress(t) ==
    LET p == group[t].pass
        last == mLastCoarsePassIdx[mFs.mode]
    IN  /\ mPrimaryRaysSubmitted' = [mPrimaryRaysSubmitted EXCEPT
                                        ![p] = @ + group[t].size - (group[t].to - group[t].from)]
        /\ mCoarsePassesComplete' =
              (mCoarsePassesComplete \/ (HasFinePasses /\ mPrimaryRaysSubmitted'[last] >= NumTiles))

FinishGroup(t) ==
    /\ IF Parallel
       THEN /\ Move(t, "finishedGroup", "counted")
            /\ finishedTilesCount' = finishedTilesCount + group[t].size
            /\ UNCHANGED <<mPrimaryRaysSubmitted, mCoarsePassesComplete>>
       ELSE /\ Move(t, "finishedGroup", "betweenGroups")
            /\ TransferProgress(t)
            /\ UNCHANGED finishedTilesCount
    /\ UNCHANGED <<queueVars, appVars, gCancelFlag, mReadyForDisplay, mFrameComplete,
                   mStopAtFrameReadyForDisplay, mRenderStopAtPassBoundary, driverVars, canceled,
                   numTBBThreads, seenIdx, seenOffset, group, mCancellationState, mCurrentPassIdx, film>>

\* Several machines: this machine's share of the tiles may be enough to show.
Count(t) ==
    /\ IF finishedTilesCount >= MinTileTotal /\ ~mReadyForDisplay
       THEN Move(t, "counted", "showing") /\ UNCHANGED <<mPrimaryRaysSubmitted, mCoarsePassesComplete>>
       ELSE Move(t, "counted", "betweenGroups") /\ TransferProgress(t)
    /\ UNCHANGED <<queueVars, appVars, gCancelFlag, mReadyForDisplay, mFrameComplete,
                   mStopAtFrameReadyForDisplay, mRenderStopAtPassBoundary, driverVars, canceled,
                   numTBBThreads, finishedTilesCount, seenIdx, seenOffset, group,
                   mCancellationState, mCurrentPassIdx, film>>

ShowShare(t) ==
    /\ Move(t, "showing", "betweenGroups")
    /\ mReadyForDisplay' = TRUE
    /\ SetCancellation(t, "WAITING_FOR_SAMPLE_PER_PIXEL")
    /\ TransferProgress(t)
    /\ UNCHANGED <<queueVars, appVars, gCancelFlag, mFrameComplete, mStopAtFrameReadyForDisplay,
                   mRenderStopAtPassBoundary, driverVars, canceled, numTBBThreads,
                   finishedTilesCount, seenIdx, seenOffset, group, film>>

Leave(t) ==
    /\ Move(t, "leaving", "off")
    /\ canceled' = (canceled \/ CancelCheck(t) = "CANCELED")
    /\ SetCancellation(t, "DISABLED")
    /\ Return(t)
    /\ UNCHANGED <<queueVars, appVars, flags, driverVars, numTBBThreads, finishedTilesCount,
                   mPrimaryRaysSubmitted, film>>

Worker(t) ==
    \/ WakeUp(t) \/ PassBarrier(t) \/ CancelAtBarrier(t)
    \/ LookForWork(t) \/ NoGroupLeft(t) \/ LetThrough(t) \/ ReadOffset(t)
    \/ ReserveNextTileGroup(t) \/ RenderTile(t)
    \/ FinishGroup(t) \/ Count(t) \/ ShowShare(t) \/ Leave(t)

-----------------------------------------------------------------------------
Next == Application \/ RenderThread \/ \E t \in Threads : Worker(t)

Spec == Init /\ [][Next]_vars

(* The render thread and the threads it starts are never held up by        *)
(* another thread of the process; the application may do nothing.          *)
FairSpec ==
    /\ Spec
    /\ WF_vars(RenderThread)
    /\ \A t \in Threads : WF_vars(Worker(t))

-----------------------------------------------------------------------------
TypeOK ==
    /\ app \in {"idle", "rendering", "stopping", "gone"}
    /\ frames \in 0 .. MaxFrames
    /\ mFs \in Settings
    /\ {gCancelFlag, mReadyForDisplay, mCoarsePassesComplete, mFrameComplete,
        mStopAtFrameReadyForDisplay, mRenderStopAtPassBoundary, canceled} \subseteq BOOLEAN
    /\ mRenderThreadState \in RenderThreadState
    /\ at \in RenderThreadAt
    /\ clampPass \in Nat
    /\ numTBBThreads \in 0 .. Cardinality(Threads)
    /\ finishedTilesCount \in Nat
    /\ worker \in [Threads -> WorkerState]
    /\ seenIdx \in [Threads -> Nat]
    /\ \A t \in Threads : seenOffset[t].tile \in Tiles
    /\ \A t \in Threads : group[t].from \in Nat /\ group[t].to \in 0 .. NumTiles
    /\ mCancellationState \in [Threads -> CancellationState]
    /\ mCurrentPassIdx \in [Threads -> Nat]
    /\ mGlobalGroupIdx \in 0 .. mGroupClampIdx
    /\ mOffset.tile \in Tiles

\* The two atomics of the work queue agree: a group that is let through
\* belongs to a pass up to the clamped one, so no tile of a later pass is
\* rendered before the passes until then are joined, and the groups that are
\* let through run out exactly where the clamped pass ends.
ClampHolds ==
    at \in {"firstPassTaken", "nextPassTaken", "allPassesTaken"} =>
        /\ \A x \in DOMAIN film : x[1] > clampPass => film[x] = 0
        /\ \A t \in Threads : worker[t] = "rendering" => group[t].pass <= clampPass
        /\ (/\ mGlobalGroupIdx = mGroupClampIdx
            /\ \A t \in Threads : worker[t] \notin {"letThrough", "reserving"})
               => mOffset = [pass |-> clampPass + 1, tile |-> 0]

\* A frame ends, whether or not the application asks it to: no thread waits
\* for ever at the barrier or for work.
FrameEnds == mRenderThreadState = "REQUEST_RENDER" ~> mRenderThreadState = "RENDERING_DONE"

\* What a frame promises the application.
Promise == INSTANCE RenderedFrame WITH
    NumPasses <- LAMBDA s : Cardinality(Passes(s)),
    frame <- CASE mRenderThreadState = "REQUEST_RENDER" -> "requested"
               [] mRenderThreadState = "RENDERING"      -> "rendering"
               [] mRenderThreadState = "RENDERING_DONE" -> "over"
               [] OTHER                                 -> "idle",
    fs <- mFs,
    ready <- mReadyForDisplay,
    complete <- mFrameComplete,
    asked <- (IF gCancelFlag \/ mStopAtFrameReadyForDisplay THEN {"stop"} ELSE {})
             \cup (IF mRenderStopAtPassBoundary THEN {"boundary"} ELSE {})

\* Whatever the threads do, the application sees a frame that keeps the
\* promises of RenderContext.h: each sample taken once, none after the frame
\* is over, shown when every tile has one and called complete with all.
ImplementsFrame == Promise!Spec

\* areCoarsePassesComplete: "something rendered at each pixel" (RenderContext.h).
CoarseIsEveryPixel ==
    mCoarsePassesComplete /\ mFs.mode = "PROGRESSIVE" /\ mRenderThreadState = "RENDERING" =>
        \A p \in 0 .. mLastCoarsePassIdx[mFs.mode] : \A i \in Tiles : film[p, i] > 0

\* isFrameComplete: "the current frame has completed rendering fully"
\* (RenderContext.h), unless it was asked to stop at the end of a pass.
CompleteIsEverySample ==
    mFrameComplete /\ ~mRenderStopAtPassBoundary /\ mRenderThreadState = "RENDERING" =>
        \A x \in DOMAIN film : film[x] = 1
=============================================================================
