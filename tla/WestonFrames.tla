---------------------------- MODULE WestonFrames ----------------------------
(***************************************************************************)
(* Frames in the weston plugin: WaylandPlugin's queue and post thread,     *)
(* WaylandDisplay's committed buffers and dispatch thread, and the         *)
(* WaylandBuffer kept for each dma buffer.                                 *)
(*                                                                         *)
(* A compositor with set_pts gets each frame at once, from the player's    *)
(* thread (direct); otherwise the post thread sends it when it is due and  *)
(* the last one has been drawn.  A RenderBuffer and the WaylandBuffer      *)
(* found by its hash share a name.  The player makes one call at a time.   *)
(***************************************************************************)
EXTENDS Naturals, Sequences, SequencesExt, FiniteSets, Functions

CONSTANTS
    Buffers,        \* the player's RenderBuffers
    NoBuffer,
    Pts,            \* the pts of each: the key of mCommittedBufferMap
    SetPts,         \* the values enableSetPts may have
    MaxCallbacks,   \* bound on the frame callbacks pending for a buffer
    Twice           \* the buffers weston may release twice

ASSUME NoBufferAssumption == NoBuffer \notin Buffers
ASSUME SetPtsAssumption == SetPts \in (SUBSET BOOLEAN) \ {{}}
ASSUME TwiceAssumption == Twice \subseteq Buffers
ASSUME CallbackAssumption == MaxCallbacks \in Nat \ {0}

VARIABLES
    phase,      \* the player: "closed", "open" (display), "window", "ending" (closeWindow), "closing" (closeDisplay)
    direct,     \* enableSetPts
    paused,     \* mPaused
    queue,      \* mQueue
    poster,     \* where the thread that runs displayFrameBuffer is
    cur,        \* the buffer it has
    dispatch,   \* where the dispatch thread is
    event,      \* the buffer whose release event it handles
    output,     \* mCurrentDisplayOutput->wlOutput is not NULL
    redrawing,  \* WaylandDisplay::mRedrawingPending
    committed,  \* mCommittedBufferMap, from pts to buffer
    made,       \* the WaylandBuffers of mWaylandBuffersMap
    bound,      \* those with an mRenderBuffer
    used,       \* those with mUsedByCompositor
    fresh,      \* those with mRedrawingPending
    callbacks,  \* external: how many frame callbacks each is owed
    screen,     \* external: the buffer attached last
    lent,       \* external: the buffers weston has
    repeats,    \* external: those it released and may tell of once more
    holder,     \* history of the callbacks: who has the buffer
    fate,       \* history: what was reported of it last, of those the plugin has; it is overtaken
                \* if it was bound again before its last release event was done with
    repeated,   \* history: those bound again, or used, when their last release event came once more
    rushed      \* history: a set redrawing flag was passed over or reset because an output came
                \* or went, and a frame from before then may be undrawn

playerVars   == <<phase, direct, paused>>
posterVars   == <<poster, cur>>
dispatchVars == <<dispatch, event>>
displayVars  == <<output, redrawing>>
bufferVars   == <<made, bound, used, fresh>>
serverVars   == <<callbacks, screen, lent, repeats>>
pastVars     == <<repeated, rushed>>
reportVars   == <<holder, fate, pastVars>>
vars == <<playerVars, queue, posterVars, dispatchVars, displayVars, committed, bufferVars,
          serverVars, reportVars>>

TypeOK ==
    /\ phase \in {"closed", "open", "window", "ending", "closing"}
    /\ direct \in BOOLEAN /\ paused \in BOOLEAN
    /\ queue \in Seq(Buffers)
    /\ poster \in {"off", "idle", "pop", "scan", "take", "find", "commit"}
    /\ cur \in Buffers \cup {NoBuffer}
    /\ dispatch \in {"off", "idle", "release", "clear", "added", "removed"}
    /\ event \in Buffers \cup {NoBuffer}
    /\ output \in BOOLEAN /\ redrawing \in BOOLEAN
    /\ committed \in [DOMAIN committed -> Buffers]
    /\ \A p \in DOMAIN committed : Pts[committed[p]] = p
    /\ made \subseteq Buffers /\ bound \subseteq Buffers
    /\ used \subseteq Buffers /\ fresh \subseteq Buffers
    /\ callbacks \in [Buffers -> 0..MaxCallbacks]
    /\ screen \in Buffers \cup {NoBuffer}
    /\ lent \subseteq Buffers /\ repeats \subseteq Buffers
    /\ holder \in [Buffers -> {"player", "plugin", "twice"}]
    /\ fate \in [Buffers -> {"none", "displayed", "dropped", "overtaken"}]
    /\ repeated \subseteq Buffers
    /\ rushed \in BOOLEAN

NoEntries == [p \in {} |-> NoBuffer]

\* A new plugin object: WaylandPlugin's and WaylandDisplay's constructors.
Constructed ==
    /\ phase = "closed" /\ direct = FALSE /\ paused = FALSE
    /\ queue = <<>>
    /\ poster = "off" /\ cur = NoBuffer
    /\ dispatch = "off" /\ event = NoBuffer
    /\ output = FALSE /\ redrawing = FALSE
    /\ committed = NoEntries
    /\ made = {} /\ bound = {} /\ used = {} /\ fresh = {}
    /\ callbacks = [b \in Buffers |-> 0] /\ screen = NoBuffer
    /\ lent = {} /\ repeats = {}
    /\ repeated = {} /\ rushed = FALSE

Init ==
    /\ Constructed
    /\ holder = [b \in Buffers |-> "player"]
    /\ fate = [b \in Buffers |-> "none"]

-----------------------------------------------------------------------------
(* The callbacks to the player. *)

Returned(S) == [b \in Buffers |-> IF b \notin S THEN holder[b]
                                  ELSE IF holder[b] = "plugin" THEN "player" ELSE "twice"]
Fates(S, T, what) == [b \in Buffers |-> IF Returned(S)[b] # "plugin" THEN "none"
                                        ELSE IF b \in T THEN what ELSE fate[b]]

\* S goes back to the player, and "what" is reported of T.
Callbacks(S, T, what) == holder' = Returned(S) /\ fate' = Fates(S, T, what)
GiveBack(S) == Callbacks(S, {}, "none")
Report(T, what) == Callbacks({}, T, what)

Entries == Range(committed)
Without(p) == Restrict(committed, DOMAIN committed \ {p})
\* std::map::insert keeps the entry there is.
With(b) == [p \in DOMAIN committed \cup {Pts[b]} |->
               IF p \in DOMAIN committed THEN committed[p] ELSE b]

\* What the destructors of the WaylandBuffers D release, S: of those with an
\* mRenderBuffer, the first of each committed pts.
Deleted(D, S) ==
    /\ S \subseteq D \cap bound
    /\ \A b \in S : Pts[b] \in DOMAIN committed
    /\ \A b \in D \cap bound : Pts[b] \in DOMAIN committed => \E c \in S : Pts[c] = Pts[b]
    /\ \A b, c \in S : Pts[b] = Pts[c] => b = c
    /\ committed' = Restrict(committed, {p \in DOMAIN committed : \A b \in S : Pts[b] # p})

-----------------------------------------------------------------------------
(* The player's calls. *)

\* openDisplay binds the globals, the outputs among them, and starts the
\* dispatch thread.  A plugin is opened once: the next display is that of a
\* new one, for which the player allocates its buffers anew.
OpenDisplay ==
    /\ phase = "closed"
    /\ phase' = "open"
    /\ direct' \in SetPts
    /\ output' \in BOOLEAN
    /\ dispatch' = "idle"
    /\ redrawing' = FALSE
    /\ committed' = NoEntries
    /\ holder' = [b \in Buffers |-> "player"]
    /\ fate' = [b \in Buffers |-> "none"]
    /\ repeated' = {} /\ rushed' = FALSE
    /\ paused' = FALSE
    /\ UNCHANGED <<queue, posterVars, event, bufferVars, serverVars>>

\* The post thread may fail to be created: nobody asks.
OpenWindow ==
    /\ phase = "open"
    /\ phase' = "window"
    /\ poster' \in IF direct THEN {"off"} ELSE {"off", "idle"}
    /\ UNCHANGED <<direct, paused, queue, cur, dispatchVars, displayVars, committed, bufferVars,
                   serverVars, reportVars>>

\* In direct mode the player's own thread may be in displayFrameBuffer.
PlayerIsFree == phase = "window" /\ (direct => poster = "off")

\* What a new WaylandBuffer has deleted: those of another size, whatever that is,
\* unless weston uses them.  One that a thread or a frame callback yet to come still
\* points to is not taken: what the code does then is undefined.
Unused(b) == {c \in made \ (used \cup {b, cur, event}) : callbacks[c] = 0}

\* prepareFrame finds the WaylandBuffer, or makes it and deletes D, or fails to:
\* what it deletes then erases an entry of the same pts.
Prepare(b, D, S) ==
    \/ b \in made /\ D = {} /\ S = {} /\ UNCHANGED <<made, bound, fresh, committed>>
    \/ /\ b \notin made /\ Deleted(D, S)
       /\ made' = (made \ D) \cup {b} /\ bound' = (bound \ D) \cup {b} /\ fresh' = fresh \ D
    \/ b \notin made /\ D = {} /\ S = {} /\ committed' = Without(Pts[b]) /\ UNCHANGED <<made, bound, fresh>>

\* prepareFrame and displayFrame.
Display(b) ==
    /\ PlayerIsFree
    /\ holder[b] = "player"
    /\ callbacks[b] < MaxCallbacks
    /\ \E D \in SUBSET Unused(b), S \in SUBSET Unused(b) :
          /\ Prepare(b, D, S)
          /\ lent' = lent \ D /\ repeats' = repeats \ D
          /\ holder' = [Returned(S) EXCEPT ![b] = "plugin"] /\ fate' = Fates(S, {}, "none")
    /\ IF direct THEN cur' = b /\ poster' = "find" /\ UNCHANGED queue
                 ELSE queue' = Append(queue, b) /\ UNCHANGED posterVars
    /\ UNCHANGED <<playerVars, dispatchVars, displayVars, used, callbacks, screen, pastVars>>

\* Mutant: with the flags of the committed buffers the display's own is reset.
Flush_NoneAwaited ==
    /\ PlayerIsFree
    /\ queue' = <<>>
    /\ Callbacks(Range(queue), Entries \cap bound, "displayed")
    /\ fresh' = fresh \ Entries /\ redrawing' = FALSE
    /\ UNCHANGED <<playerVars, posterVars, dispatchVars, output, committed, made, bound, used,
                   serverVars, pastVars>>

\* flush: the queued frames are dropped, the committed ones reported displayed.
\* One without an mRenderBuffer is reported as a null pointer.
Flush ==
    /\ PlayerIsFree
    /\ queue' = <<>>
    /\ Callbacks(Range(queue), Entries \cap bound, "displayed")
    /\ fresh' = fresh \ Entries
    /\ UNCHANGED <<playerVars, posterVars, dispatchVars, displayVars, committed, made, bound, used,
                   serverVars, pastVars>>

\* pause and resume: only the post thread reads mPaused.
SetPaused ==
    /\ PlayerIsFree /\ ~direct
    /\ paused' = ~paused
    /\ UNCHANGED <<phase, direct, queue, posterVars, dispatchVars, displayVars, committed, bufferVars,
                   serverVars, reportVars>>

CloseWindow ==
    /\ PlayerIsFree
    /\ phase' = IF poster = "off" THEN "open" ELSE "ending"
    /\ UNCHANGED <<direct, paused, queue, posterVars, dispatchVars, displayVars, committed, bufferVars,
                   serverVars, reportVars>>

\* Mutant: the thread first sends what is queued.
PostThreadEnds_Drained ==
    /\ phase = "ending" /\ poster = "idle" /\ queue = <<>>
    /\ poster' = "off" /\ phase' = "open"
    /\ UNCHANGED <<direct, paused, queue, cur, dispatchVars, displayVars, committed, bufferVars,
                   serverVars, reportVars>>

\* The thread sees the exit request between two loops.
PostThreadEnds ==
    /\ phase = "ending" /\ poster = "idle"
    /\ poster' = "off" /\ phase' = "open"
    /\ UNCHANGED <<direct, paused, queue, cur, dispatchVars, displayVars, committed, bufferVars,
                   serverVars, reportVars>>

CloseDisplay ==
    /\ phase = "open"
    /\ phase' = "closing"
    /\ UNCHANGED <<direct, paused, queue, posterVars, dispatchVars, displayVars, committed, bufferVars,
                   serverVars, reportVars>>

\* The poll returns because it flushes, and the loop ends.
DispatchStops ==
    /\ phase = "closing" /\ dispatch = "idle"
    /\ dispatch' = "off"
    /\ UNCHANGED <<playerVars, queue, posterVars, event, displayVars, committed, bufferVars, serverVars,
                   reportVars>>

\* Mutant: what is still queued is forgotten.
DisplayClosed_NoQueue ==
    /\ phase = "closing" /\ dispatch = "off"
    /\ \E S \in SUBSET bound : Deleted(made, S) /\ GiveBack(S)
    /\ queue' = <<>>
    /\ made' = {} /\ bound' = {} /\ used' = {} /\ fresh' = {}
    /\ callbacks' = [b \in Buffers |-> 0] /\ screen' = NoBuffer /\ lent' = {} /\ repeats' = {}
    /\ phase' = "closed"
    /\ UNCHANGED <<direct, paused, posterVars, dispatchVars, displayVars, pastVars>>

\* The rest of closeDisplay, once the dispatch thread has ended.
DisplayClosed ==
    /\ phase = "closing" /\ dispatch = "off"
    /\ \E S \in SUBSET bound : Deleted(made, S) /\ GiveBack(S \cup Range(queue))
    /\ queue' = <<>>
    /\ made' = {} /\ bound' = {} /\ used' = {} /\ fresh' = {}
    /\ callbacks' = [b \in Buffers |-> 0] /\ screen' = NoBuffer /\ lent' = {} /\ repeats' = {}
    /\ phase' = "closed"
    /\ UNCHANGED <<direct, paused, posterVars, dispatchVars, displayVars, pastVars>>

-----------------------------------------------------------------------------
(* The post thread, and displayFrameBuffer whoever runs it. *)

\* Mutant: the redrawing flag is looked at before the output.
PostStart_GateFirst ==
    /\ poster = "idle" /\ phase = "window"
    /\ queue # <<>> /\ ~paused /\ ~redrawing
    /\ poster' = IF output THEN "scan" ELSE "pop"
    /\ UNCHANGED <<playerVars, queue, cur, dispatchVars, displayVars, committed, bufferVars, serverVars,
                   reportVars>>

\* threadLoop's first tests: without an output the frame is taken to be dropped.
PostStart ==
    /\ poster = "idle" /\ phase = "window"
    /\ queue # <<>> /\ ~paused
    /\ \/ output /\ ~redrawing /\ poster' = "scan" /\ UNCHANGED rushed
       \/ ~output /\ poster' = "pop" /\ rushed' = (rushed \/ redrawing)
    /\ UNCHANGED <<playerVars, queue, cur, dispatchVars, displayVars, committed, bufferVars, serverVars,
                   holder, fate, repeated>>

\* handleFrameDropped and handleBufferRelease of the frame at hand.
DropCur == Callbacks({cur}, {cur}, "dropped")

\* Queue::pop: a flush may have emptied the queue since it was looked at.
Pop == IF queue = <<>> THEN cur' = NoBuffer /\ UNCHANGED queue
                       ELSE cur' = Head(queue) /\ queue' = Tail(queue)

PostPop ==
    /\ poster = "pop"
    /\ Pop
    /\ poster' = IF queue = <<>> THEN "idle" ELSE "find"
    /\ UNCHANGED <<playerVars, dispatchVars, displayVars, committed, bufferVars, serverVars, reportVars>>

\* The frame at the head has expired.
PostPeek ==
    /\ poster = "scan" /\ queue # <<>>
    /\ poster' = "take"
    /\ UNCHANGED <<playerVars, queue, cur, dispatchVars, displayVars, committed, bufferVars, serverVars,
                   reportVars>>

\* What is at the head by now is taken, and what was taken before is dropped.
PostTake ==
    /\ poster = "take"
    /\ Pop
    /\ DropCur
    /\ poster' = "scan"
    /\ UNCHANGED <<playerVars, dispatchVars, displayVars, committed, bufferVars, serverVars, pastVars>>

\* No other frame has expired.
PostShow ==
    /\ poster = "scan"
    /\ poster' = IF cur = NoBuffer THEN "idle" ELSE "find"
    /\ UNCHANGED <<playerVars, queue, cur, dispatchVars, displayVars, committed, bufferVars, serverVars,
                   reportVars>>

Posted == cur' = NoBuffer /\ poster' = IF direct THEN "off" ELSE "idle"

\* findWaylandBuffer and constructWlBuffer.
Construct ==
    /\ poster = "find"
    /\ \/ /\ cur \in made
          /\ bound' = bound \cup {cur}
          /\ poster' = "commit"
          /\ UNCHANGED <<cur, holder, fate>>
       \/ /\ cur \notin made
          /\ DropCur /\ Posted
          /\ UNCHANGED bound
    /\ UNCHANGED <<playerVars, queue, dispatchVars, displayVars, committed, made, used, fresh, serverVars,
                   pastVars>>

\* WaylandBuffer::attach.
Attach ==
    \/ cur \in used /\ UNCHANGED <<used, fresh, redrawing, serverVars>>
    \/ /\ cur \notin used
       /\ callbacks' = [callbacks EXCEPT ![cur] = @ + 1]
       /\ redrawing' = TRUE
       /\ screen' = cur /\ lent' = lent \cup {cur} /\ UNCHANGED repeats
       /\ used' = used \cup {cur}
       /\ fresh' = fresh \cup {cur}

\* The rest of displayFrameBuffer.
Commit ==
    /\ poster = "commit"
    /\ Posted
    /\ \/ /\ ~output
          /\ DropCur
          /\ UNCHANGED <<committed, used, fresh, redrawing, serverVars>>
       \/ /\ output
          /\ Attach
          /\ committed' = With(cur)
          /\ UNCHANGED <<holder, fate>>
    /\ UNCHANGED <<playerVars, queue, dispatchVars, output, made, bound, pastVars>>

-----------------------------------------------------------------------------
(* The dispatch thread. *)

\* The first part of bufferRelease and bufferdroped.
StartRelease(b) ==
    /\ dispatch = "idle"
    /\ used' = used \ {b}
    /\ IF b \in bound THEN dispatch' = "release" /\ event' = b ELSE UNCHANGED dispatchVars
    /\ UNCHANGED <<playerVars, queue, posterVars, displayVars, committed, made, bound, fresh, callbacks,
                   screen, rushed>>

\* weston has another buffer on screen.
BufferRelease(b) ==
    /\ b \in lent /\ b # screen
    /\ lent' = lent \ {b} /\ repeats' = repeats \cup ({b} \cap Twice)
    /\ StartRelease(b)
    /\ UNCHANGED <<holder, fate, repeated>>

\* "sometimes this callback be called twice"
BufferReleaseAgain(b) ==
    /\ b \in repeats
    /\ repeats' = repeats \ {b} /\ UNCHANGED lent
    /\ StartRelease(b)
    /\ repeated' = repeated \cup ({b} \cap (bound \cup used))
    /\ UNCHANGED <<holder, fate>>

\* weston gives back a buffer it never showed, the time sent with it being past.
BufferDroped(b) ==
    /\ direct /\ b \in lent
    /\ lent' = lent \ {b} /\ UNCHANGED repeats
    /\ StartRelease(b)
    /\ Report({b} \cap bound, "dropped")
    /\ UNCHANGED repeated

\* handleBufferReleaseCallback.
ReleaseCallback ==
    /\ dispatch = "release"
    /\ dispatch' = "clear"
    /\ committed' = Without(Pts[event])
    /\ GiveBack({b \in {event} : Pts[b] \in DOMAIN committed})
    /\ UNCHANGED <<playerVars, queue, posterVars, event, displayVars, bufferVars, serverVars, pastVars>>

\* mRenderBuffer = NULL, after the player may have submitted the buffer again.
ClearRenderBuffer ==
    /\ dispatch = "clear"
    /\ dispatch' = "idle" /\ event' = NoBuffer
    /\ bound' = bound \ {event}
    /\ Report({event} \cap (Entries \cup {c \in {cur} : poster = "commit"}), "overtaken")
    /\ UNCHANGED <<playerVars, queue, posterVars, displayVars, committed, made, used, fresh, serverVars,
                   pastVars>>

\* frameDisplayedCallback.
FrameDisplayed(b) ==
    /\ dispatch = "idle" /\ output
    /\ callbacks[b] > 0
    /\ callbacks' = [callbacks EXCEPT ![b] = @ - 1]
    /\ redrawing' = FALSE
    /\ fresh' = fresh \ {b}
    /\ Report({b} \cap bound \cap fresh, "displayed")
    /\ rushed' = (rushed /\ \E c \in Buffers : callbacks'[c] > 0)
    /\ UNCHANGED <<playerVars, queue, posterVars, dispatchVars, output, committed, made, bound, used, screen,
                   lent, repeats, repeated>>

\* registryHandleGlobal for a wl_output, up to the choice of the current one.
OutputAdded ==
    /\ dispatch = "idle"
    /\ output' = TRUE
    /\ dispatch' = "added"
    /\ UNCHANGED <<playerVars, queue, posterVars, event, redrawing, committed, bufferVars, serverVars,
                   reportVars>>

\* Its last step.
OutputReset ==
    /\ dispatch = "added"
    /\ dispatch' = "idle"
    /\ redrawing' = FALSE
    /\ rushed' = (rushed \/ redrawing)
    /\ UNCHANGED <<playerVars, queue, posterVars, event, output, committed, bufferVars, serverVars, holder,
                   fate, repeated>>

\* registryHandleGlobalRemove for the current wl_output.
OutputRemoved ==
    /\ dispatch = "idle" /\ output
    /\ output' = FALSE
    /\ dispatch' = "removed"
    /\ UNCHANGED <<playerVars, queue, posterVars, event, redrawing, committed, bufferVars, serverVars,
                   reportVars>>

\* It chooses another one, if one is plugged.
OutputChosen ==
    /\ dispatch = "removed"
    /\ dispatch' = "idle"
    /\ output' \in BOOLEAN
    /\ UNCHANGED <<playerVars, queue, posterVars, event, redrawing, committed, bufferVars, serverVars,
                   reportVars>>

-----------------------------------------------------------------------------
Player == \/ OpenDisplay \/ OpenWindow \/ Flush \/ SetPaused \/ CloseWindow \/ CloseDisplay
          \/ \E b \in Buffers : Display(b)
Closing == PostThreadEnds \/ DispatchStops \/ DisplayClosed
Poster == PostStart \/ PostPop \/ PostPeek \/ PostTake \/ PostShow \/ Construct \/ Commit
Handler == ReleaseCallback \/ ClearRenderBuffer \/ OutputReset \/ OutputChosen
Weston == \/ OutputAdded \/ OutputRemoved
          \/ \E b \in Buffers : \/ BufferRelease(b) \/ BufferReleaseAgain(b)
                                \/ BufferDroped(b) \/ FrameDisplayed(b)

Next == Player \/ Closing \/ Poster \/ Handler \/ Weston

Spec == Init /\ [][Next]_vars

\* Assumed of the threads: each that can go on does.  A frame looked at again and
\* again falls due.  weston draws while there is an output, and what it says of it
\* is not put off for ever by other events.  The dispatch thread sees the exit request
\* after the events at hand.  That an output comes back, or that weston releases
\* anything, is not assumed.
FairSpec ==
    /\ Spec
    /\ WF_vars(Poster) /\ SF_vars(PostPeek)
    /\ WF_vars(Handler)
    /\ WF_vars(Closing) /\ SF_vars(DispatchStops)
    /\ \A b \in Buffers : SF_vars(FrameDisplayed(b))

-----------------------------------------------------------------------------
(* Properties. *)

Releasing(b) == dispatch = "release" /\ event = b

\* A buffer the player has is in no queue, with no thread and not committed; one
\* the plugin has is in one place only, and none is released twice, though the
\* post thread, the dispatch thread, flush and the destructors all give buffers
\* back and weston may say twice that it is done with one.  weston has none that the
\* player has, or will show, unless it said so again when it had that buffer anew.
HeldOnce ==
    /\ \A b \in Buffers :
          /\ holder[b] # "twice"
          /\ holder[b] = "player" => b \notin Range(queue) \cup {cur} \cup Entries
          /\ b \in Range(queue) \cup {cur} => b \notin Entries
          /\ b \notin Entries /\ b \notin repeated => b \notin used \cup lent
          /\ b \in Range(queue) \cup {cur} /\ b \notin repeated => ~Releasing(b)
    /\ IsInjective(queue) /\ cur \notin Range(queue)

\* mRedrawingPending holds the post thread back only while a frame callback is
\* on its way to reset it, whatever flush and the outputs do meanwhile.
RedrawIsAwaited == redrawing /\ phase # "closed" => \E b \in Buffers : callbacks[b] > 0

\* The post thread sends weston no frame before it has drawn the last one, though
\* the flag is looked at long before the commit, the callbacks of flushed frames
\* reset it like any other, and a frame may be dropped on its way.  Where an output
\* came or went since the last frame was sent, one may be sent too early: the flag
\* is not looked at without an output, and an output that is added resets it.
FramesPaced == ~direct /\ ~rushed => \A b, c \in Buffers :
    callbacks[b] > 0 => redrawing /\ callbacks[b] = 1 /\ (callbacks[c] > 0 => b = c)

\* After closeDisplay the player has every buffer but those that were submitted
\* again before bufferRelease had reset mRenderBuffer: these stay in
\* mCommittedBufferMap, and no callback names them any more.
ClosedGivesBack == phase = "closed" => \A b \in Buffers : holder[b] = "player" \/ fate[b] = "overtaken"

\* A frame reported dropped goes back to the player in the same breath, whoever
\* drops it: it is not kept, committed or shown afterwards, unless weston said again
\* of the frame before it that it is done.
DroppedGoesBack == \A b \in Buffers :
    fate[b] = "dropped" => Releasing(b) \/ b \in repeated

\* A queued frame leaves the queue unless the player pauses or closes the window, or
\* there is no post thread, however often it flushes and the outputs come and go.
QueueDrains == \A b \in Buffers :
    b \in Range(queue) ~> b \notin Range(queue) \/ paused \/ phase # "window" \/ poster = "off"

\* closeWindow and closeDisplay return: the threads they join always get to
\* where they see the exit request or the flushing poll.
CloseReturns == (phase = "ending" ~> phase = "open") /\ (phase = "closing" ~> phase = "closed")
=============================================================================
