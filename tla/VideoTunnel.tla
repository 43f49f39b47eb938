---------------------------- MODULE VideoTunnel ----------------------------
(***************************************************************************)
(* The videotunnel plugin: VideoTunnelImpl, whose player-side calls hand   *)
(* buffers to the video tunnel driver and whose thread takes back those    *)
(* the compositor has finished with, after their fence.                    *)
(*                                                                         *)
(* mQueueRenderBufferMap is keyed by the buffer's dma fd: a buffer names   *)
(* its key.  The player makes one call at a time.                          *)
(***************************************************************************)
EXTENDS Integers, FiniteSets

CONSTANTS
    Buffers,    \* the player's RenderBuffers
    NoBuffer,
    MaxCount,   \* bound on mQueueFrameCnt: no frame is submitted beyond it
    Faults      \* what may go wrong, see AllFaults

AllFaults == {"connect",    \* the driver cannot be opened
              "thread",     \* pthread_create fails
              "queue",      \* the driver refuses a buffer
              "instant"}    \* the driver returns a buffer before displayFrame has recorded it

ASSUME NoBufferAssumption == NoBuffer \notin Buffers
ASSUME CountAssumption == MaxCount \in Nat
ASSUME FaultsAssumption == Faults \subseteq AllFaults

VARIABLES
    phase,      \* the player: "closed", "open", in displayFrame ("insert"); in disconnect,
                \* mRequestStop is set ("asked") and the thread was found running ("joining")
                \* or not ("joined")
    inserting,  \* the buffer displayFrame has queued and not recorded yet
    connected,  \* mIsVideoTunnelConnected
    started,    \* mStarted
    map,        \* the keys of mQueueRenderBufferMap
    count,      \* mQueueFrameCnt
    underflow,  \* mUnderFlowDetect
    flushing,   \* mPoll's mFlushing
    thread,     \* where the thread is: "none" while mRunning is false
    got,        \* the buffer the thread has dequeued
    fence,      \* external: the fence being waited for, "pending" or "ready"
    cut,        \* the fence wait ended because of flushing, the fence pending
    consumer,   \* external: the buffers the driver has
    holder,     \* history of the callbacks, as in RenderContract
    fate,
    late,       \* history: at "expired", the frames recorded since the thread found none
    twice,      \* history: the buffers queued while the driver had them, or the thread
                \* had one taken out before a flush
    orphan,     \* history: the buffers recorded that the driver will not return
    lost        \* history: mStarted says there is a thread and there is none for good

playerVars == <<phase, inserting, connected, started, flushing>>
mapVars    == <<map, count>>
threadVars == <<thread, got, fence, cut>>
reportVars == <<holder, fate>>
histVars   == <<late, twice, orphan, lost>>
vars == <<playerVars, mapVars, underflow, threadVars, consumer, reportVars, histVars>>

ThreadPCs == {"none", "top", "count", "expired", "dequeue", "fence", "lookup", "release", "ending"}

\* mRequestStop, while a thread can see it.
Stopping == phase \in {"asked", "joining", "joined"}

TypeOK ==
    /\ phase \in {"closed", "open", "insert", "asked", "joining", "joined"}
    /\ inserting \in Buffers \cup {NoBuffer}
    /\ connected \in BOOLEAN /\ started \in BOOLEAN
    /\ map \in SUBSET Buffers
    /\ count \in 0..MaxCount
    /\ underflow \in BOOLEAN /\ flushing \in BOOLEAN
    /\ thread \in ThreadPCs
    /\ got \in Buffers \cup {NoBuffer}
    /\ fence \in {"pending", "ready"} /\ cut \in BOOLEAN
    /\ consumer \in SUBSET Buffers
    /\ holder \in [Buffers -> {"player", "plugin"}]
    /\ fate \in [Buffers -> {"none", "displayed", "dropped"}]
    /\ late \in SUBSET Buffers /\ twice \in SUBSET Buffers /\ orphan \in SUBSET Buffers
    /\ lost \in BOOLEAN

Init ==
    /\ phase = "closed" /\ inserting = NoBuffer
    /\ connected = FALSE /\ started = FALSE
    /\ map = {} /\ count = 0
    /\ underflow = FALSE /\ flushing = FALSE
    /\ thread = "none" /\ got = NoBuffer
    /\ fence = "ready" /\ cut = FALSE
    /\ consumer = {}
    /\ holder = [b \in Buffers |-> "player"]
    /\ fate = [b \in Buffers |-> "none"]
    /\ late = {} /\ twice = {} /\ orphan = {} /\ lost = FALSE

-----------------------------------------------------------------------------
(* The player's calls. *)

\* connect.  VideoTunnelPlugin::openWindow ignores its result.
OpenWindow ==
    /\ phase = "closed"
    /\ phase' = "open"
    /\ connected' \in {TRUE} \cup {FALSE : x \in Faults \cap {"connect"}}
    /\ UNCHANGED <<inserting, started, flushing, mapVars, underflow, threadVars, consumer, reportVars, histVars>>

\* The first displayFrame starts the thread, and every other while mStarted is false.
StartThread ==
    /\ started' = TRUE
    /\ \/ started /\ UNCHANGED <<thread, lost>>
       \/ ~started /\ thread' = "top" /\ UNCHANGED lost
       \/ ~started /\ "thread" \in Faults /\ lost' = TRUE /\ UNCHANGED thread

\* vtQueueBuffer, whose result is ignored.
DriverTakes(b) ==
    /\ \/ /\ connected
          /\ consumer' = consumer \cup {b} /\ orphan' = orphan \ {b}
       \/ /\ ~connected \/ "queue" \in Faults
          /\ orphan' = orphan \cup {b}
          /\ UNCHANGED consumer
    /\ twice' = IF b = got \/ b \in consumer THEN twice \cup {b} ELSE twice

\* Mutant: the buffer is recorded before it is queued, outside mMutex.
QueueFrame_RecordFirst(b) ==
    /\ phase = "open" /\ count < MaxCount
    /\ holder[b] = "player"
    /\ holder' = [holder EXCEPT ![b] = "plugin"]
    /\ fate' = [fate EXCEPT ![b] = "none"]
    /\ StartThread
    /\ DriverTakes(b)
    /\ underflow' = FALSE
    /\ phase' = "insert" /\ inserting' = b
    /\ map' = map \cup {b}
    /\ UNCHANGED <<connected, flushing, count, got, fence, cut, late>>

\* displayFrame up to mMutex: the driver has the buffer, the map has not.
QueueFrame(b) ==
    /\ phase = "open" /\ count < MaxCount
    /\ holder[b] = "player"
    /\ holder' = [holder EXCEPT ![b] = "plugin"]
    /\ fate' = [fate EXCEPT ![b] = "none"]
    /\ StartThread
    /\ DriverTakes(b)
    /\ underflow' = FALSE
    /\ phase' = "insert" /\ inserting' = b
    /\ UNCHANGED <<connected, flushing, mapVars, got, fence, cut, late>>

\* Mutant: the frame is recorded but not counted.
InsertFrame_NoCount ==
    /\ phase = "insert"
    /\ map' = map \cup {inserting}
    /\ late' = IF thread = "expired" THEN late \cup {inserting} ELSE late
    /\ fate' = [fate EXCEPT ![inserting] = "displayed"]
    /\ phase' = "open" /\ inserting' = NoBuffer
    /\ UNCHANGED <<connected, started, flushing, count, underflow, threadVars, consumer, holder,
                   twice, orphan, lost>>

\* The rest of displayFrame, under mMutex.
InsertFrame ==
    /\ phase = "insert"
    /\ map' = map \cup {inserting}
    /\ count' = count + 1
    /\ late' = IF thread = "expired" THEN late \cup {inserting} ELSE late
    /\ fate' = [fate EXCEPT ![inserting] = "displayed"]
    /\ phase' = "open" /\ inserting' = NoBuffer
    /\ UNCHANGED <<connected, started, flushing, underflow, threadVars, consumer, holder,
                   twice, orphan, lost>>

\* Every recorded buffer is dropped and released; the driver has none any more.
DropAll ==
    /\ map' = {} /\ consumer' = {}
    /\ holder' = [b \in Buffers |-> IF b \in map THEN "player" ELSE holder[b]]
    /\ fate' = [b \in Buffers |-> IF b \in map THEN "dropped" ELSE fate[b]]
    /\ twice' = {} /\ orphan' = {}

Flush ==
    /\ phase = "open"
    /\ DropAll
    /\ count' = 0
    /\ UNCHANGED <<playerVars, underflow, threadVars, late, lost>>

\* disconnect sets mRequestStop before it looks whether there is a thread.
CloseWindow ==
    /\ phase = "open"
    /\ phase' = "asked"
    /\ UNCHANGED <<inserting, connected, started, flushing, mapVars, underflow, threadVars, consumer,
                   reportVars, histVars>>

\* Mutant: disconnect does not flush the poll of the fence wait.
AskRunning_NoFlush ==
    /\ phase = "asked"
    /\ phase' = IF thread # "none" THEN "joining" ELSE "joined"
    /\ lost' = (started /\ thread = "none")
    /\ UNCHANGED <<inserting, connected, started, flushing, mapVars, underflow, threadVars, consumer,
                   reportVars, late, twice, orphan>>

\* isRunning: only a running thread is flushed and waited for.  One that has seen
\* mRequestStop and ended before is not, and mStarted stays as it is.
AskRunning ==
    /\ phase = "asked"
    /\ phase' = IF thread # "none" THEN "joining" ELSE "joined"
    /\ flushing' = (flushing \/ thread # "none")
    /\ lost' = (started /\ thread = "none")
    /\ UNCHANGED <<inserting, connected, started, mapVars, underflow, threadVars, consumer,
                   reportVars, late, twice, orphan>>

\* requestExitAndWait.
JoinThread ==
    /\ phase = "joining" /\ thread = "none"
    /\ started' = FALSE
    /\ phase' = "joined"
    /\ UNCHANGED <<inserting, connected, flushing, mapVars, underflow, threadVars, consumer,
                   reportVars, histVars>>

\* The driver is closed and every recorded buffer given back.  mQueueFrameCnt and
\* the poll's flushing stay as they are.
Disconnect ==
    /\ phase = "joined"
    /\ connected' = FALSE
    /\ DropAll
    /\ phase' = "closed"
    /\ UNCHANGED <<inserting, started, flushing, count, underflow, threadVars, late, lost>>

-----------------------------------------------------------------------------
(* The thread. *)

ThreadStop ==
    /\ thread = "top" /\ Stopping
    /\ thread' = "ending"
    /\ UNCHANGED <<playerVars, mapVars, underflow, got, fence, cut, consumer, reportVars, histVars>>

ThreadTop ==
    /\ thread = "top" /\ ~Stopping
    /\ thread' = "count"
    /\ UNCHANGED <<playerVars, mapVars, underflow, got, fence, cut, consumer, reportVars, histVars>>

\* mQueueFrameCnt is read without mMutex: no frame is counted and the last one was
\* sent more than UNDER_FLOW_EXPIRED_TIME_MS ago.
FindsNone ==
    /\ thread = "count"
    /\ count < 1
    /\ thread' = "expired"
    /\ UNCHANGED <<playerVars, mapVars, underflow, got, fence, cut, consumer, reportVars, histVars>>

\* There are frames, or the last one was sent a short time ago.
FindsSome ==
    /\ thread = "count"
    /\ thread' = "dequeue"
    /\ UNCHANGED <<playerVars, mapVars, underflow, got, fence, cut, consumer, reportVars, histVars>>

\* MSG_UNDER_FLOW, unless it was sent since the last frame.
Underflow ==
    /\ thread = "expired"
    /\ underflow' = TRUE
    /\ thread' = "dequeue"
    /\ late' = {}
    /\ UNCHANGED <<playerVars, mapVars, got, fence, cut, consumer, reportVars, twice, orphan, lost>>

DequeueNothing ==
    /\ thread = "dequeue"
    /\ thread' = IF Stopping THEN "ending" ELSE "top"
    /\ UNCHANGED <<playerVars, mapVars, underflow, got, fence, cut, consumer, reportVars, histVars>>

\* vtDequeueBuffer returns b and its fence.
Dequeue(b) ==
    /\ thread = "dequeue"
    /\ b \in consumer
    /\ b # inserting \/ "instant" \in Faults
    /\ consumer' = consumer \ {b}
    /\ \/ /\ Stopping
          /\ thread' = "ending"
          /\ UNCHANGED <<got, fence>>
       \/ /\ ~Stopping
          /\ thread' = "fence" /\ got' = b
          /\ fence' \in {"pending", "ready"}
    /\ UNCHANGED <<playerVars, mapVars, underflow, cut, reportVars, histVars>>

\* External: the compositor is done with the buffer.
FenceSignals ==
    /\ thread = "fence" /\ fence = "pending"
    /\ fence' = "ready"
    /\ UNCHANGED <<playerVars, mapVars, underflow, thread, got, cut, consumer, reportVars, histVars>>

\* waitFence: Poll::wait fails at once while it is flushing.
WaitFence ==
    /\ thread = "fence"
    /\ fence = "ready" \/ flushing
    /\ cut' = (fence = "pending")
    /\ thread' = "lookup" /\ fence' = "ready"
    /\ UNCHANGED <<playerVars, mapVars, underflow, got, consumer, reportVars, histVars>>

\* waitFence gives up after three seconds.
WaitTimeout ==
    /\ thread = "fence" /\ fence = "pending"
    /\ thread' = "lookup" /\ fence' = "ready"
    /\ UNCHANGED <<playerVars, mapVars, underflow, got, cut, consumer, reportVars, histVars>>

\* Mutant: the buffer stays in the map.
Lookup_NoErase ==
    /\ thread = "lookup"
    /\ cut' = FALSE
    /\ \/ /\ got \in map
          /\ count' = count - 1
          /\ thread' = "release"
          /\ orphan' = orphan \ {got}
          /\ UNCHANGED got
       \/ /\ got \notin map
          /\ thread' = "top" /\ got' = NoBuffer
          /\ orphan' = orphan \cup ({got} \cap {inserting})
          /\ UNCHANGED count
    /\ UNCHANGED <<playerVars, map, underflow, fence, consumer, reportVars, late, twice, lost>>

\* The section of threadLoop under mMutex.
Lookup ==
    /\ thread = "lookup"
    /\ cut' = FALSE
    /\ \/ /\ got \in map
          /\ map' = map \ {got} /\ count' = count - 1
          /\ thread' = "release"
          /\ orphan' = orphan \ {got}
          /\ UNCHANGED got
       \/ /\ got \notin map
          /\ thread' = "top" /\ got' = NoBuffer
          /\ orphan' = orphan \cup ({got} \cap {inserting})
          /\ UNCHANGED mapVars
    /\ UNCHANGED <<playerVars, underflow, fence, consumer, reportVars, late, twice, lost>>

\* The release callback, mMutex no longer held.
Release ==
    /\ thread = "release"
    /\ holder' = [holder EXCEPT ![got] = "player"]
    /\ thread' = "top" /\ got' = NoBuffer
    /\ UNCHANGED <<playerVars, mapVars, underflow, fence, cut, consumer, fate, histVars>>

\* Thread::_threadLoop is left: mRunning becomes false.
ThreadEnds ==
    /\ thread = "ending"
    /\ thread' = "none"
    /\ UNCHANGED <<playerVars, mapVars, underflow, got, fence, cut, consumer, reportVars, histVars>>

-----------------------------------------------------------------------------
ThreadStep ==
    \/ ThreadStop \/ ThreadTop \/ FindsNone \/ FindsSome \/ Underflow
    \/ DequeueNothing \/ \E b \in Buffers : Dequeue(b)
    \/ WaitFence \/ WaitTimeout \/ Lookup \/ Release \/ ThreadEnds

Next ==
    \/ OpenWindow
    \/ \E b \in Buffers : QueueFrame(b)
    \/ InsertFrame \/ Flush
    \/ CloseWindow \/ AskRunning \/ JoinThread \/ Disconnect
    \/ FenceSignals
    \/ ThreadStep

Spec == Init /\ [][Next]_vars

\* The thread runs and a call once made goes on; a fence may never signal and
\* three seconds may be too long.
RunningThread ==
    /\ WF_vars(ThreadStop) /\ WF_vars(ThreadTop) /\ WF_vars(FindsSome)
    /\ WF_vars(Underflow) /\ WF_vars(DequeueNothing) /\ WF_vars(WaitFence)
    /\ WF_vars(Lookup) /\ WF_vars(Release) /\ WF_vars(ThreadEnds)
    /\ WF_vars(InsertFrame) /\ WF_vars(AskRunning) /\ WF_vars(JoinThread) /\ WF_vars(Disconnect)

ClosingSpec == Spec /\ RunningThread

\* What may be expected of the compositor: it returns every buffer, and fences
\* signal.
FairCompositor ==
    /\ \A b \in Buffers : SF_vars(Dequeue(b))
    /\ WF_vars(FenceSignals)

-----------------------------------------------------------------------------
(* Properties. *)

InsertSet  == IF phase = "insert" THEN {inserting} ELSE {}
ReleaseSet == IF thread = "release" THEN {got} ELSE {}

\* A buffer the plugin holds is recorded, or on its way into the map, or just
\* taken out of it by the thread, and in one of these only: however late a
\* dequeued buffer is looked up, it is released once.
HeldOnce ==
    /\ \A b \in Buffers :
          holder[b] = "plugin" <=> b \in map \cup InsertSet \cup ReleaseSet
    /\ map \cap InsertSet = {}
    /\ map \cap ReleaseSet = {}
    /\ InsertSet \cap ReleaseSet = {}

\* A buffer goes back only after it was reported, though the driver may return it at
\* once, and only when the driver has done with it, unless it was queued again over a
\* flush while the thread had it from before.
ReleasedWhenDue ==
    [][\A b \in Buffers : holder[b] = "plugin" /\ holder'[b] = "player" =>
          /\ fate[b] = "displayed"
          /\ b \in consumer' => b \in twice]_vars

\* When underflow is announced, no recorded frame is there but those that displayFrame
\* recorded since the thread looked.
UnderflowWasEmpty == [][~underflow /\ underflow' => map \subseteq late]_vars

\* closeWindow returns even if the fence being waited for never signals, and whether
\* the thread ends before or after it is looked for.
CloseReturns == Stopping ~> phase = "closed"

\* A recorded frame leaves the map once the compositor is done with it, over flushes,
\* resubmissions and reopenings, but for two cases: the driver has refused it or
\* returned it before displayFrame recorded it, or there is no thread because none
\* could be made or a disconnect did not see it run.
FramesComeBack ==
    FairCompositor =>
        \A b \in Buffers : b \in map ~> b \notin map \/ b \in orphan \/ lost

(* What comments of the code say and the code does not do. *)

\* "send uvm fd to driver after getted fence": only stopping cuts the wait short.
FenceAwaited == cut => Stopping
=============================================================================
