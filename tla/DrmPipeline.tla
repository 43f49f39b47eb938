---------------------------- MODULE DrmPipeline ----------------------------
(***************************************************************************)
(* The drm plugin: DrmDisplay and its two threads.                         *)
(*                                                                         *)
(*   player thread   openWindow, displayFrame, flush, pause, resume, set,  *)
(*                   closeWindow, one call at a time (the documented       *)
(*                   sequence of render_plugin.h)                          *)
(*   DrmFramePost    waits for a vblank and posts the newest expired frame *)
(*                   of its queue, under its mMutex                        *)
(*   DrmFrameRecycle waits for the fence of the oldest posted frame and    *)
(*                   releases it, while a newer one has been posted        *)
(*                                                                         *)
(* A frame entity lives exactly as long as the plugin holds its buffer, so *)
(* the model names both by the buffer.  The steps of a thread are its      *)
(* critical sections and its blocking calls.                               *)
(***************************************************************************)
EXTENDS Integers, Sequences, FiniteSets

CONSTANTS
    Buffers,        \* the player's RenderBuffers
    NoBuffer,       \* no frame entity
    BlackFrame,     \* the 64x64 frame of showBlackFrame
    MaxDelay,       \* bound: a frame is due at most MaxDelay vblanks after its submission
    ThreadCreation  \* the outcomes of pthread_create: TRUE is success

ASSUME BuffersAssumption ==
    /\ NoBuffer \notin Buffers
    /\ BlackFrame \notin Buffers
    /\ NoBuffer # BlackFrame
ASSUME DelayAssumption == MaxDelay \in Nat
ASSUME ThreadAssumption == ThreadCreation \subseteq BOOLEAN

VARIABLES
    phase,      \* where the player thread is: "closed", "open", or inside closeWindow
    holder,     \* history of the callbacks: who owns each buffer
    fate,       \* history of the callbacks: what was reported of each buffer
    due,        \* due[b]: vblanks to go until displayTime is reached
    postQueue,  \* DrmFramePost::mQueue
    post,       \* where the post thread is
    posted,     \* expiredFrameEntity between handlePosted and handleDisplayed
    paused,     \* DrmFramePost::mPaused
    immediate,  \* DrmFramePost::mImmediatelyOutput
    recQueue,   \* DrmFrameRecycle::mQueue
    rec,        \* where the recycle thread is
    fencing,    \* the frame the recycle thread has popped and waits for
    waitFence,  \* DrmFrameRecycle::mWaitVideoFence
    onScreen    \* external: the buffer last committed to the plane

playerVars  == <<phase, paused, immediate>>
postVars    == <<postQueue, post, posted, due>>
recVars     == <<recQueue, rec, fencing, waitFence>>
reportVars  == <<holder, fate>>
vars == <<playerVars, postVars, recVars, reportVars, onScreen>>

Phases   == {"closed", "open", "stopPost", "stopRecycle"}
PostPCs  == {"none", "top", "vblank", "lock", "report", "done"}
RecPCs   == {"none", "top", "pop", "fence", "done"}
Contract == INSTANCE RenderContract WITH
                window <- IF phase = "closed" THEN "closed" ELSE "open"

Elements(s) == {s[i] : i \in 1..Len(s)}
Newest(s)   == s[Len(s)]
Distinct(s) == \A i, j \in 1..Len(s) : s[i] = s[j] => i = j

TypeOK ==
    /\ phase \in Phases
    /\ holder \in [Buffers -> Contract!Holders]
    /\ fate \in [Buffers -> Contract!Fates]
    /\ due \in [Buffers -> 0..MaxDelay]
    /\ postQueue \in Seq(Buffers)
    /\ post \in PostPCs
    /\ posted \in Buffers \cup {NoBuffer}
    /\ paused \in BOOLEAN
    /\ immediate \in BOOLEAN
    /\ recQueue \in Seq(Buffers)
    /\ rec \in RecPCs
    /\ fencing \in Buffers \cup {NoBuffer}
    /\ waitFence \in BOOLEAN
    /\ onScreen \in Buffers \cup {NoBuffer, BlackFrame}

Init ==
    /\ phase = "closed"
    /\ holder = [b \in Buffers |-> "player"]
    /\ fate = [b \in Buffers |-> "none"]
    /\ due = [b \in Buffers |-> 0]
    /\ postQueue = <<>> /\ post = "none" /\ posted = NoBuffer
    /\ paused = FALSE /\ immediate = FALSE
    /\ recQueue = <<>> /\ rec = "none" /\ fencing = NoBuffer
    /\ waitFence = FALSE
    /\ onScreen = NoBuffer

-----------------------------------------------------------------------------
(* The callbacks into the player. *)

\* handleDropedFrameEntity then handleReleaseFrameEntity of the buffers of
\* dropped, handleReleaseFrameEntity alone of those of released.
GiveBack(dropped, released) ==
    /\ holder' = [b \in Buffers |->
                     IF b \in dropped \cup released THEN "player" ELSE holder[b]]
    /\ fate' = [b \in Buffers |-> IF b \in dropped THEN "dropped" ELSE fate[b]]

\* DrmFramePost::mMutex is held by the post thread between its steps.
PostLocked == post = "report"

-----------------------------------------------------------------------------
(* The player thread. *)

\* DrmDisplay::start.  A failing display init changes nothing.  The threads'
\* run() may fail, which start does not notice.
OpenWindow ==
    /\ phase = "closed"
    /\ phase' = "open"
    /\ \E created \in ThreadCreation : post' = IF created THEN "top" ELSE "none"
    /\ \E created \in ThreadCreation : rec' = IF created THEN "top" ELSE "none"
    /\ paused' = FALSE /\ immediate' = FALSE
    /\ waitFence' = FALSE
    /\ UNCHANGED <<reportVars, due, postQueue, posted, recQueue, fencing, onScreen>>

\* DrmDisplay::displayFrame, the buffer imported: it joins the post queue.
DisplayFrame(b) ==
    /\ phase = "open" /\ ~PostLocked
    /\ holder[b] = "player"
    /\ holder' = [holder EXCEPT ![b] = "plugin"]
    /\ fate' = [fate EXCEPT ![b] = "none"]
    /\ \E d \in 0..MaxDelay : due' = [due EXCEPT ![b] = d]
    /\ postQueue' = Append(postQueue, b)
    /\ UNCHANGED <<playerVars, post, posted, recVars, onScreen>>

\* DrmDisplay::displayFrame, the import failing (there is no handle, or drm
\* refuses the buffer): dropped and released before the call returns.
RefuseFrame(b) ==
    /\ phase \in {"closed", "open"}
    /\ holder[b] = "player"
    /\ GiveBack({b}, {})
    /\ UNCHANGED <<playerVars, postVars, recVars, onScreen>>

\* Mutant: the flushed frames are released but not reported dropped.
Flush_Unreported ==
    /\ phase = "open" /\ ~PostLocked
    /\ postQueue # <<>>
    /\ GiveBack({}, Elements(postQueue))
    /\ postQueue' = <<>>
    /\ UNCHANGED <<playerVars, post, posted, due, recVars, onScreen>>

Flush ==
    /\ phase = "open" /\ ~PostLocked
    /\ postQueue # <<>>
    /\ GiveBack(Elements(postQueue), {})
    /\ postQueue' = <<>>
    /\ UNCHANGED <<playerVars, post, posted, due, recVars, onScreen>>

SetPaused(on) ==
    /\ phase = "open"
    /\ paused' = on
    /\ UNCHANGED <<phase, immediate, postVars, recVars, reportVars, onScreen>>

SetImmediate(on) ==
    /\ phase = "open"
    /\ immediate' = on
    /\ UNCHANGED <<phase, paused, postVars, recVars, reportVars, onScreen>>

\* setKeepLastFrame(false) posts a black frame that disables the plane.
ShowBlackFrame ==
    /\ phase = "open"
    /\ onScreen' = BlackFrame
    /\ UNCHANGED <<playerVars, postVars, recVars, reportVars>>

\* closeWindow -> DrmDisplay::stop -> DrmFramePost::stop sets mStop.
CloseWindow ==
    /\ phase = "open"
    /\ phase' = "stopPost"
    /\ UNCHANGED <<paused, immediate, postVars, recVars, reportVars, onScreen>>

\* Mutant: stop does not wait for the post thread.
JoinPost_NoWait ==
    /\ phase = "stopPost"
    /\ GiveBack(Elements(postQueue), {})
    /\ postQueue' = <<>>
    /\ phase' = "stopRecycle"
    /\ UNCHANGED <<paused, immediate, post, posted, due, recVars, onScreen>>

\* The post thread is joined, its queue flushed and the object deleted;
\* then DrmFrameRecycle::stop sets mStop.
JoinPost ==
    /\ phase = "stopPost"
    /\ post \in {"none", "done"}
    /\ GiveBack(Elements(postQueue), {})
    /\ postQueue' = <<>>
    /\ post' = "none"
    /\ phase' = "stopRecycle"
    /\ UNCHANGED <<paused, immediate, posted, due, recVars, onScreen>>

\* The recycle thread is joined, every frame it still owns is released and
\* the drm handle is destroyed.
JoinRecycle ==
    /\ phase = "stopRecycle"
    /\ rec \in {"none", "done"}
    /\ GiveBack({}, Elements(recQueue))
    /\ recQueue' = <<>>
    /\ rec' = "none"
    /\ waitFence' = FALSE
    /\ onScreen' = NoBuffer
    /\ phase' = "closed"
    /\ UNCHANGED <<paused, immediate, postVars, fencing>>

-----------------------------------------------------------------------------
(* DrmFramePost::threadLoop. *)

PostTop ==
    /\ post = "top"
    /\ post' = IF phase = "stopPost" THEN "done" ELSE "vblank"
    /\ UNCHANGED <<playerVars, postQueue, posted, due, recVars, reportVars, onScreen>>

\* drmWaitVBlank returns at the next vblank: every queued frame is one nearer.
PostVBlank ==
    /\ post = "vblank"
    /\ post' = "lock"
    /\ due' = [b \in Buffers |-> IF due[b] > 0 THEN due[b] - 1 ELSE 0]
    /\ UNCHANGED <<playerVars, postQueue, posted, recVars, reportVars, onScreen>>

\* drmWaitVBlank fails: sleep and start over.
PostVBlankError ==
    /\ post = "vblank"
    /\ post' = "top"
    /\ UNCHANGED <<playerVars, postQueue, posted, due, recVars, reportVars, onScreen>>

Expired(b) == immediate \/ due[b] = 0

\* The post thread takes the first n frames of its queue: the longest expired
\* prefix, or just the head in immediate mode.
Takes(n) ==
    /\ \A i \in 1..n : Expired(postQueue[i])
    /\ \/ immediate /\ n = 1
       \/ ~immediate /\ (n < Len(postQueue) => ~Expired(postQueue[n + 1]))

\* Mutant: the queue is taken for empty when one frame is left.
CanPost_OffByOne ==
    Len(postQueue) > 1 /\ ~paused /\ Expired(Head(postQueue))

CanPost ==
    postQueue # <<>> /\ ~paused /\ Expired(Head(postQueue))

PostIdle ==
    /\ post = "lock"
    /\ ~CanPost
    /\ post' = "top"
    /\ UNCHANGED <<playerVars, postQueue, posted, due, recVars, reportVars, onScreen>>

\* DrmFrameRecycle::mStop
RecycleStopped == phase = "stopRecycle" /\ rec # "none"

\* Mutant: fences are waited for one frame later.
RecycleFrame_LateFence(b, dropped) ==
    \/ /\ RecycleStopped
       /\ GiveBack(dropped, {b})
       /\ UNCHANGED recVars
    \/ /\ ~RecycleStopped
       /\ GiveBack(dropped, {})
       /\ recQueue' = Append(recQueue, b)
       /\ waitFence' = (waitFence \/ Len(recQueue) + 1 > 3)
       /\ UNCHANGED <<rec, fencing>>

\* handlePostedFrameEntity -> DrmFrameRecycle::recycleFrame, with the callbacks
\* of the frames dropped before it.
RecycleFrame(b, dropped) ==
    \/ /\ RecycleStopped
       /\ GiveBack(dropped, {b})
       /\ UNCHANGED recVars
    \/ /\ ~RecycleStopped
       /\ GiveBack(dropped, {})
       /\ recQueue' = Append(recQueue, b)
       /\ waitFence' = (waitFence \/ Len(recQueue) + 1 > 2)
       /\ UNCHANGED <<rec, fencing>>

\* The older expired frames are dropped, the newest is committed to the plane
\* and handed to the recycle thread.  mMutex stays held.
PostNewest ==
    /\ post = "lock"
    /\ CanPost
    /\ \E n \in 1..Len(postQueue) :
          /\ Takes(n)
          /\ RecycleFrame(postQueue[n], {postQueue[i] : i \in 1..(n - 1)})
          /\ posted' = postQueue[n]
          /\ onScreen' = postQueue[n]
          /\ postQueue' = SubSeq(postQueue, n + 1, Len(postQueue))
    /\ post' = "report"
    /\ UNCHANGED <<playerVars, due>>

\* drm_post_buf fails: the newest expired frame is dropped too.
PostError ==
    /\ post = "lock"
    /\ CanPost
    /\ \E n \in 1..Len(postQueue) :
          /\ Takes(n)
          /\ GiveBack({postQueue[i] : i \in 1..n}, {})
          /\ postQueue' = SubSeq(postQueue, n + 1, Len(postQueue))
    /\ post' = "top"
    /\ UNCHANGED <<playerVars, posted, due, recVars, onScreen>>

\* handleDisplayedFrameEntity on the entity the recycle thread already owns.
PostReport ==
    /\ post = "report"
    /\ fate' = [fate EXCEPT ![posted] = "displayed"]
    /\ posted' = NoBuffer
    /\ post' = "top"
    /\ UNCHANGED <<playerVars, postQueue, due, recVars, holder, onScreen>>

-----------------------------------------------------------------------------
(* DrmFrameRecycle::threadLoop. *)

\* Mutant: one posted frame is enough to wait for its fence.
RecycleTop_OneFrame ==
    /\ rec = "top"
    /\ \/ /\ RecycleStopped
          /\ rec' = "done"
       \/ /\ ~RecycleStopped
          /\ waitFence /\ Len(recQueue) >= 1
          /\ rec' = "pop"
    /\ UNCHANGED <<playerVars, postVars, recQueue, fencing, waitFence, reportVars, onScreen>>

\* mWaitVideoFence and getCnt are read without DrmFrameRecycle::mMutex.
RecycleTop ==
    /\ rec = "top"
    /\ \/ /\ RecycleStopped
          /\ rec' = "done"
       \/ /\ ~RecycleStopped
          /\ waitFence /\ Len(recQueue) >= 2
          /\ rec' = "pop"
    /\ UNCHANGED <<playerVars, postVars, recQueue, fencing, waitFence, reportVars, onScreen>>

RecyclePop ==
    /\ rec = "pop"
    /\ recQueue # <<>>
    /\ fencing' = Head(recQueue)
    /\ recQueue' = Tail(recQueue)
    /\ rec' = "fence"
    /\ UNCHANGED <<playerVars, postVars, waitFence, reportVars, onScreen>>

ReleaseFenced ==
    /\ rec = "fence"
    /\ GiveBack({}, {fencing})
    /\ fencing' = NoBuffer
    /\ rec' = "top"
    /\ UNCHANGED <<playerVars, postVars, recQueue, waitFence, onScreen>>

\* External: the fence of a buffer signals when the plane shows another one.
RecycleSignalled == fencing # onScreen /\ ReleaseFenced

\* libDrmWaitVideoFence fails, which is only logged.
RecycleFenceError == ReleaseFenced

-----------------------------------------------------------------------------
PlayerStep ==
    \/ OpenWindow
    \/ \E b \in Buffers : DisplayFrame(b) \/ RefuseFrame(b)
    \/ Flush
    \/ \E on \in BOOLEAN : SetPaused(on) \/ SetImmediate(on)
    \/ ShowBlackFrame
    \/ CloseWindow
    \/ JoinPost
    \/ JoinRecycle

PostStep ==
    \/ PostTop \/ PostVBlank \/ PostVBlankError
    \/ PostIdle \/ PostNewest \/ PostError \/ PostReport

RecycleStep ==
    RecycleTop \/ RecyclePop \/ RecycleSignalled \/ RecycleFenceError

Next == PlayerStep \/ PostStep \/ RecycleStep

Spec == Init /\ [][Next]_vars

\* Both threads run, a vblank wait does not fail for ever, a fence that can
\* signal does, and closeWindow, once called, goes on.  Nothing is assumed of
\* the player otherwise.
Fairness ==
    /\ WF_vars(PostTop) /\ SF_vars(PostVBlank)
    /\ WF_vars(PostIdle \/ PostNewest \/ PostError) /\ WF_vars(PostReport)
    /\ WF_vars(RecycleTop) /\ WF_vars(RecyclePop) /\ WF_vars(RecycleSignalled)
    /\ WF_vars(JoinPost) /\ WF_vars(JoinRecycle)

FairSpec == Spec /\ Fairness

-----------------------------------------------------------------------------
(* Properties. *)

\* Every buffer the plugin holds is in exactly one place, and what is in a
\* place is held: no entity is leaked, none is released or freed twice.
Ownership ==
    /\ Distinct(postQueue)
    /\ Distinct(recQueue)
    /\ Elements(postQueue) \cap Elements(recQueue) = {}
    /\ fencing \notin Elements(postQueue) \cup Elements(recQueue)
    /\ \A b \in Buffers :
          holder[b] = "plugin" <=>
              b \in Elements(postQueue) \cup Elements(recQueue) \cup {fencing}

\* handleDisplayedFrameEntity dereferences an entity that was already handed to
\* the recycle thread: it must not have been released and freed in between.
ReportedEntityIsAlive ==
    post = "report" => posted \in Elements(recQueue)

\* The buffer the plane scans out is not given back to the player, who would
\* decode into it: it stays the newest of the recycle queue until the threads
\* are gone, and the recycle thread never waits for its fence.
ScreenBufferHeld ==
    onScreen \in Buffers =>
        /\ onScreen \in Elements(recQueue)
        /\ fencing # onScreen

\* The pipeline keeps the player's contract.
KeepsContract == Contract!ContractSpec

\* closeWindow returns: neither thread can be stuck in a wait when it is joined.
CloseReturns == phase \in {"stopPost", "stopRecycle"} ~> phase = "closed"

\* The window is open and the threads could be created.
BothRun == phase = "open" /\ post # "none" /\ rec # "none"

\* While it plays, the player gets a buffer back: the recycle thread's
\* thresholds do not keep the whole pool (of three buffers or more).
PlayerIsFed ==
    (BothRun /\ \A b \in Buffers : holder[b] = "plugin")
        ~> (paused \/ phase # "open" \/ \E b \in Buffers : holder[b] = "player")

\* Every frame taken is reported, unless the player pauses.
FramesAreReported ==
    \A b \in Buffers :
        (BothRun /\ holder[b] = "plugin" /\ fate[b] = "none") ~> (fate[b] # "none" \/ paused)
=============================================================================
