----------------------------- MODULE WstClient -----------------------------
(***************************************************************************)
(* The westeros plugin's frames: WstClientPlugin, whose player-side calls  *)
(* send buffers to the video server, and the socket thread, which handles  *)
(* what the server answers.                                                *)
(*                                                                         *)
(* A message to the server takes effect when it is sent; a slower server   *)
(* shows itself by later answers.  mRenderBuffersMap and                   *)
(* mDisplayedFrameMap are keyed by buffer->id, which names the buffer.     *)
(***************************************************************************)
EXTENDS Integers, Sequences, FiniteSets

CONSTANTS
    Buffers,    \* the player's RenderBuffers
    NoBuffer,
    DisplayTime,\* DisplayTime[b]: the displayTime b is submitted with
    MaxReady,   \* bound on mReadyDisplayFrameCnt: nothing is submitted beyond it
    Faults      \* what may go wrong, see AllFaults

AllFaults == {"refuse",     \* sendmsg fails
              "instant"}    \* the server answers before displayFrame has recorded the buffer

ASSUME NoBufferAssumption == NoBuffer \notin Buffers
ASSUME BuffersAssumption == IsFiniteSet(Buffers)
ASSUME TimeAssumption == DisplayTime \in [Buffers -> Int]
ASSUME ReadyAssumption == MaxReady \in Nat
ASSUME FaultsAssumption == Faults \subseteq AllFaults

VARIABLES
    phase,      \* the player: "closed", "open", inside displayFrame ("record"), pause or closeWindow
    sending,    \* the buffer displayFrame has sent and not recorded yet
    rendering,  \* the keys of mRenderBuffersMap
    toDisplay,  \* the keys of mDisplayedFrameMap
    ready,      \* mReadyDisplayFrameCnt
    thread,     \* the socket thread: in poll ("wait"), between the messages of one read
                \* ("batch"), before the callbacks of an event ("show", "drop", "give")
    subject,    \* the buffer of these callbacks
    events,     \* the server's messages, not handled yet
    queue,      \* external: the frames the server has to show
    shown,      \* external: the frame it shows
    paused,     \* external: the server was told to pause
    wasShown,   \* history: the frames shown since their submission
    holder,     \* history of the callbacks, as in RenderContract
    fate

mapVars    == <<rendering, toDisplay, ready>>
threadVars == <<thread, subject>>
serverVars == <<queue, shown, paused, wasShown>>
reportVars == <<holder, fate>>
vars == <<phase, sending, mapVars, threadVars, events, serverVars, reportVars>>

Contract == INSTANCE RenderContract WITH
                window <- IF phase = "closed" THEN "closed" ELSE "open"

ThreadPCs == {"none", "wait", "batch", "show", "drop", "give"}
Reporting == {"show", "drop", "give"}
Status(b)   == [event |-> "status", time |-> DisplayTime[b]]
Released(b) == [event |-> "release", id |-> b]
Releases(s) == [i \in 1..Len(s) |-> Released(s[i])]
Events      == {Status(b) : b \in Buffers} \cup {Released(b) : b \in Buffers}

TypeOK ==
    /\ phase \in {"closed", "open", "record", "pausing", "closing"}
    /\ sending \in Buffers \cup {NoBuffer}
    /\ rendering \in SUBSET Buffers /\ toDisplay \in SUBSET Buffers
    /\ ready \in Int
    /\ thread \in ThreadPCs
    /\ subject \in Buffers \cup {NoBuffer}
    /\ events \in Seq(Events)
    /\ queue \in Seq(Buffers)
    /\ shown \in Buffers \cup {NoBuffer}
    /\ paused \in BOOLEAN
    /\ wasShown \in SUBSET Buffers
    /\ holder \in [Buffers -> Contract!Holders]
    /\ fate \in [Buffers -> Contract!Fates]
    /\ phase = "record" <=> sending # NoBuffer
    /\ phase = "closed" => thread = "none"
    /\ phase \notin {"closed", "closing"} => thread # "none"
    /\ thread \in Reporting <=> subject # NoBuffer

Init ==
    /\ phase = "closed" /\ sending = NoBuffer
    /\ rendering = {} /\ toDisplay = {} /\ ready = 0
    /\ thread = "none" /\ subject = NoBuffer
    /\ events = <<>>
    /\ queue = <<>> /\ shown = NoBuffer /\ paused = FALSE
    /\ wasShown = {}
    /\ holder = [b \in Buffers |-> "player"]
    /\ fate = [b \in Buffers |-> "none"]

-----------------------------------------------------------------------------
(* The player's calls. *)

\* openDisplay connects and starts the thread, openWindow resets the counters.
\* Without a connection openDisplay fails and nothing changes.
Open ==
    /\ phase = "closed"
    /\ phase' = "open"
    /\ thread' = "wait"
    /\ ready' = 0
    /\ queue' = <<>> /\ shown' = NoBuffer /\ paused' = FALSE /\ events' = <<>>
    /\ UNCHANGED <<sending, rendering, toDisplay, subject, wasShown, reportVars>>

\* displayFrame, the frame refused by the socket.
RefuseFrame(b) ==
    /\ phase = "open" /\ "refuse" \in Faults
    /\ holder[b] = "player"
    /\ fate' = [fate EXCEPT ![b] = "dropped"]
    /\ UNCHANGED <<phase, sending, mapVars, threadVars, events, serverVars, holder>>

\* displayFrame up to mRenderLock: the server has the frame, the maps have not.
SendFrame(b) ==
    /\ phase = "open"
    /\ ready \in -MaxReady..(MaxReady - 1)
    /\ holder[b] = "player"
    /\ holder' = [holder EXCEPT ![b] = "plugin"]
    /\ fate' = [fate EXCEPT ![b] = "none"]
    /\ phase' = "record" /\ sending' = b
    /\ queue' = Append(queue, b) /\ wasShown' = wasShown \ {b}
    /\ UNCHANGED <<mapVars, threadVars, events, shown, paused>>

\* The rest of displayFrame, under mRenderLock.
RecordFrame ==
    /\ phase = "record"
    /\ rendering' = rendering \cup {sending}
    /\ toDisplay' = toDisplay \cup {sending}
    /\ ready' = ready + 1
    /\ phase' = "open" /\ sending' = NoBuffer
    /\ UNCHANGED <<threadVars, events, serverVars, reportVars>>

\* External: the server gives back what it has, keeping the frame it shows or not.
ServerFlushes ==
    /\ queue' = <<>>
    /\ shown' \in {shown, NoBuffer}
    /\ events' = events \o Releases(IF shown' = shown THEN queue ELSE <<shown>> \o queue)
    /\ UNCHANGED <<paused, wasShown>>

\* Mutant: flush reports every frame with the server dropped.
Flush_DropAll ==
    /\ phase = "open"
    /\ toDisplay' = {}
    /\ fate' = [b \in Buffers |-> IF b \in rendering THEN "dropped" ELSE fate[b]]
    /\ ServerFlushes
    /\ UNCHANGED <<phase, sending, rendering, ready, threadVars, holder>>

\* flush: the frames not displayed yet are reported dropped; the server gives
\* them back.  mReadyDisplayFrameCnt stays.
Flush ==
    /\ phase = "open"
    /\ toDisplay' = {}
    /\ fate' = [b \in Buffers |-> IF b \in toDisplay THEN "dropped" ELSE fate[b]]
    /\ ServerFlushes
    /\ UNCHANGED <<phase, sending, rendering, ready, threadVars, holder>>

Pause ==
    /\ phase = "open"
    /\ phase' = "pausing"
    /\ UNCHANGED <<sending, mapVars, threadVars, events, serverVars, reportVars>>

\* pause has seen the count at zero or waited twenty times; under mRenderLock it
\* looks at the count again.
PauseSends ==
    /\ phase = "pausing"
    /\ paused' = (paused \/ ready = 0)
    /\ phase' = "open"
    /\ UNCHANGED <<sending, mapVars, threadVars, events, queue, shown, wasShown, reportVars>>

Resume ==
    /\ phase = "open"
    /\ paused' = FALSE
    /\ UNCHANGED <<phase, sending, mapVars, threadVars, events, queue, shown, wasShown, reportVars>>

\* closeWindow up to the join of the socket thread.
Close ==
    /\ phase = "open"
    /\ phase' = "closing"
    /\ UNCHANGED <<sending, mapVars, threadVars, events, serverVars, reportVars>>

\* The rest of closeWindow, the thread joined: frames not displayed are reported
\* dropped, and every recorded one is released.
Disconnect ==
    /\ phase = "closing"
    /\ thread = "none"
    /\ rendering' = {} /\ toDisplay' = {} /\ ready' = 0
    /\ holder' = [b \in Buffers |-> IF b \in rendering THEN "player" ELSE holder[b]]
    /\ fate' = [b \in Buffers |-> IF b \in toDisplay THEN "dropped" ELSE fate[b]]
    /\ phase' = "closed"
    /\ UNCHANGED <<sending, threadVars, events, serverVars>>

-----------------------------------------------------------------------------
(* The socket thread. *)

\* A message can be handled: the poll is not flushed, or it was read with the
\* one before.
Handles(e) ==
    /\ thread = "batch" \/ (thread = "wait" /\ phase # "closing")
    /\ events # <<>> /\ Head(events) = e
    /\ events' = Tail(events)

\* Mutant: a released buffer is counted off even if it was displayed.
BufferRelease_CountAlways(b) ==
    /\ Handles(Released(b))
    /\ \/ /\ b \notin rendering
          /\ thread' = "batch"
          /\ UNCHANGED <<mapVars, subject>>
       \/ /\ b \in rendering
          /\ rendering' = rendering \ {b}
          /\ toDisplay' = toDisplay \ {b}
          /\ thread' = IF b \in toDisplay THEN "drop" ELSE "give"
          /\ ready' = ready - 1
          /\ subject' = b
    /\ UNCHANGED <<phase, sending, serverVars, reportVars>>

\* WST_BUFFER_RELEASE, under mRenderLock.
BufferRelease(b) ==
    /\ Handles(Released(b))
    /\ \/ /\ b \notin rendering
          /\ thread' = "batch"
          /\ UNCHANGED <<mapVars, subject>>
       \/ /\ b \in rendering
          /\ rendering' = rendering \ {b}
          /\ toDisplay' = toDisplay \ {b}
          /\ thread' = IF b \in toDisplay THEN "drop" ELSE "give"
          /\ ready' = IF b \in toDisplay THEN ready - 1 ELSE ready
          /\ subject' = b
    /\ UNCHANGED <<phase, sending, serverVars, reportVars>>

\* Mutant: the frame stays in mDisplayedFrameMap.
FrameStatus_Keeps(t) ==
    /\ Handles([event |-> "status", time |-> t])
    /\ ready' = ready - 1
    /\ \/ /\ \A b \in toDisplay : DisplayTime[b] # t
          /\ thread' = "batch"
          /\ UNCHANGED subject
       \/ \E b \in toDisplay :
             /\ DisplayTime[b] = t
             /\ thread' = "show" /\ subject' = b
    /\ UNCHANGED <<phase, sending, rendering, toDisplay, serverVars, reportVars>>

\* Mutant: the status is taken for that of any frame.
FrameStatus_AnyFrame(t) ==
    /\ Handles([event |-> "status", time |-> t])
    /\ ready' = ready - 1
    /\ \/ /\ toDisplay = {}
          /\ thread' = "batch"
          /\ UNCHANGED <<toDisplay, subject>>
       \/ \E b \in toDisplay :
             /\ toDisplay' = toDisplay \ {b}
             /\ thread' = "show" /\ subject' = b
    /\ UNCHANGED <<phase, sending, rendering, serverVars, reportVars>>

\* WST_STATUS with a frame time, under mRenderLock.  The frame is found by its
\* displayTime; of several the hash map yields any.
FrameStatus(t) ==
    /\ Handles([event |-> "status", time |-> t])
    /\ ready' = ready - 1
    /\ \/ /\ \A b \in toDisplay : DisplayTime[b] # t
          /\ thread' = "batch"
          /\ UNCHANGED <<toDisplay, subject>>
       \/ \E b \in toDisplay :
             /\ DisplayTime[b] = t
             /\ toDisplay' = toDisplay \ {b}
             /\ thread' = "show" /\ subject' = b
    /\ UNCHANGED <<phase, sending, rendering, serverVars, reportVars>>

\* The callbacks of the event, mRenderLock no longer held.
Report ==
    /\ thread \in Reporting
    /\ thread' = "batch" /\ subject' = NoBuffer
    /\ holder' = [holder EXCEPT ![subject] = IF thread = "show" THEN @ ELSE "player"]
    /\ fate' = [fate EXCEPT ![subject] = CASE thread = "show" -> "displayed"
                                           [] thread = "drop" -> "dropped"
                                           [] thread = "give" -> @]
    /\ UNCHANGED <<phase, sending, mapVars, events, serverVars>>

\* The messages of one read are handled.
EndBatch ==
    /\ thread = "batch"
    /\ thread' = "wait"
    /\ UNCHANGED <<phase, sending, mapVars, subject, events, serverVars, reportVars>>

\* Mutant: closeWindow does not make the poll flush, so a message must come.
ThreadStops_OnMessage ==
    /\ thread = "batch" /\ phase = "closing"
    /\ thread' = "none"
    /\ UNCHANGED <<phase, sending, mapVars, subject, events, serverVars, reportVars>>

\* Poll::wait fails because closeWindow has made it flush.
ThreadStops ==
    /\ thread = "wait" /\ phase = "closing"
    /\ thread' = "none"
    /\ UNCHANGED <<phase, sending, mapVars, subject, events, serverVars, reportVars>>

-----------------------------------------------------------------------------
(* External: the server, while the socket is open. *)

Served == phase # "closed" /\ queue # <<>>
            /\ (Head(queue) # sending \/ "instant" \in Faults)

\* The next frame is shown and the one before given back.
ServerShows ==
    /\ Served /\ ~paused
    /\ queue' = Tail(queue) /\ shown' = Head(queue)
    /\ wasShown' = wasShown \cup {Head(queue)}
    /\ events' = events \o <<Status(Head(queue))>>
                        \o Releases(IF shown = NoBuffer THEN <<>> ELSE <<shown>>)
    /\ UNCHANGED <<phase, sending, mapVars, threadVars, paused, reportVars>>

\* A late frame is given back without being shown.
ServerDrops ==
    /\ Served
    /\ queue' = Tail(queue)
    /\ events' = Append(events, Released(Head(queue)))
    /\ UNCHANGED <<phase, sending, mapVars, threadVars, shown, paused, wasShown, reportVars>>

-----------------------------------------------------------------------------
PlayerStep ==
    \/ Open \/ RecordFrame \/ Flush \/ Pause \/ PauseSends \/ Resume \/ Close \/ Disconnect
    \/ \E b \in Buffers : SendFrame(b) \/ RefuseFrame(b)

Handle ==
    \E b \in Buffers : BufferRelease(b) \/ FrameStatus(DisplayTime[b])

ThreadStep == Handle \/ Report \/ EndBatch \/ ThreadStops

Next == PlayerStep \/ ThreadStep \/ ServerShows \/ ServerDrops

Spec == Init /\ [][Next]_vars

\* The socket thread runs, a call once made goes on, the server deals with
\* every frame it has unless it is paused.
FairSpec ==
    /\ Spec
    /\ WF_vars(ThreadStep)
    /\ WF_vars(RecordFrame) /\ WF_vars(PauseSends) /\ WF_vars(Disconnect)
    /\ WF_vars(~paused /\ (ServerShows \/ ServerDrops))

-----------------------------------------------------------------------------
(* Properties. *)

SentSet   == IF phase = "record" THEN {sending} ELSE {}
GivingSet == IF thread \in {"drop", "give"} THEN {subject} ELSE {}

\* A buffer the plugin holds is recorded, or displayFrame is about to record it,
\* or the socket thread has taken it out and is about to release it, and one of
\* these only: it is released once, whatever flush and closeWindow do meanwhile.
HeldOnce ==
    /\ \A b \in Buffers :
          holder[b] = "plugin" <=> b \in SentSet \cup rendering \cup GivingSet
    /\ SentSet \cap rendering = {}
    /\ GivingSet \cap (SentSet \cup rendering) = {}

\* The loops of flush and closeWindow over mDisplayedFrameMap do not move on
\* from an entry that mRenderBuffersMap lacks: there must never be one.
LoopsEnd == toDisplay \subseteq rendering

\* What the player is promised of every buffer.
KeepsContract == Contract!ContractSpec

\* A frame is reported displayed only if the server has shown it since it was
\* submitted, over flushes and resubmissions (distinct display times).
DisplayedWasShown ==
    \A b \in Buffers : holder[b] = "plugin" /\ fate[b] = "displayed" => b \in wasShown

\* "if we can find item in mDisplayedFrameMap, this buffer is dropped by westeros
\* server": a frame reported dropped on its release was not shown.
DroppedWasNotShown == thread = "drop" => subject \notin wasShown

\* The server is told to pause only when no recorded frame waits for its display.
PauseAfterLastFrame ==
    [][phase = "pausing" /\ ~paused /\ paused' => toDisplay = {}]_vars

\* closeWindow returns, whether the server still answers or not.
CloseReturns == phase = "closing" ~> phase = "closed"

\* Every recorded frame is reported displayed or dropped, or waits in a paused server.
FramesReported == \A b \in Buffers : b \in toDisplay ~> b \notin toDisplay \/ paused

(* What comments of the code say and the code does not do. *)

\* "send pause cmd immediatialy if no frame displays".
PauseReachesServer ==
    [][phase = "pausing" /\ phase' = "open" /\ toDisplay = {} => paused']_vars
=============================================================================
