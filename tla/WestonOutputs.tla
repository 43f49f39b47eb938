--------------------------- MODULE WestonOutputs ---------------------------
(***************************************************************************)
(* Outputs, window and picture of the weston plugin (WaylandDisplay): the  *)
(* two slots for outputs and the one that is current, the render rectangle *)
(* that follows outputs and configure events, and the rectangle of the     *)
(* video, worked out by the player's thread and by the dispatch thread     *)
(* with no lock in common.                                                 *)
(*                                                                         *)
(* A display is opened once.  The events of the compositor form a queue;   *)
(* what it answers to a request is queued when the request is made.        *)
(* A rectangle is read and written whole.                                  *)
(***************************************************************************)
EXTENDS VideoGeometry, Sequences, FiniteSets

CONSTANTS
    Modes,          \* Modes[n]: the rectangles, offset and size, the n-th output plugged can have
    Frames,         \* the frame sizes the player sets
    WindowRects,    \* the windows it sets
    Asked,          \* the sizes the compositor configures the window to of itself
    MaxEvents       \* bound on the queue: the compositor does nothing of itself beyond it

Rects == [x : Int, y : Int, w : Int, h : Int]

ASSUME OutputAssumption ==
    /\ Modes \in Seq(SUBSET Rects)
    /\ \A n \in DOMAIN Modes : \A r \in Modes[n] : r.w > 0 /\ r.h > 0
ASSUME SizeAssumption   == WindowRects \subseteq Rects /\ Frames \cup Asked \subseteq [w : Nat, h : Nat]
ASSUME BoundAssumption  == MaxEvents \in Nat

VARIABLES
    phase,      \* the player: "closed", in openDisplay ("globals", "states", "surface"), "running"
    slots,      \* mOutput: name, 0 if wlOutput is NULL, and the rectangle, kept when the output goes
    current,    \* mCurrentDisplayOutput, as an index
    select,     \* mSelectOutputIndex, 0 if INVALID_OUTPUT_INDEX
    update,     \* mUpdateRenderRectangle
    handling,   \* how far the dispatch thread is with an output that came or went, and oriName
    configured, \* mXdgSurfaceConfigured
    full,       \* mFullScreen
    frame,      \* mVideoWidth, mVideoHeight
    window,     \* mWindowRect
    render,     \* mRenderRect
    video,      \* mVideoRect, and the size the compositor scales the video to
    place,      \* external: where the compositor has the video's subsurface
    resizing,   \* resizing[t]: how far thread t is in resizeVideoSurface, and its result
    born,       \* external: how many outputs were plugged so far: the name of the newest
    plugged,    \* external: the outputs there are
    modes,      \* external: modes[n]: the rectangle the n-th output has, or had last
    events,     \* external: the events not yet dispatched
    last,       \* history: the size the compositor configured last, for the output that is current
    missed,     \* history: the current output's mode came when its rectangle was not waited for
    unseen,     \* history: the render rectangle was set without resizing the video
    overlapped  \* history: the last resize began while another was under way

outputVars  == <<slots, current, select, update, handling>>
windowVars  == <<configured, full, frame, window>>
pictureVars == <<render, missed, video, place, resizing, unseen, overlapped>>
serverVars  == <<born, plugged, modes, events, last>>
vars == <<phase, outputVars, windowVars, pictureVars, serverVars>>

Slots   == 1..2
Threads == {"player", "dispatch"}
NoRect  == Rect(0, 0, 0, 0)
NoSize  == [w |-> 0, h |-> 0]
Resting == [at |-> "rest", result |-> NoRect]
Nothing == [at |-> "none", was |-> 0]

SizeOf(r) == [w |-> r.w, h |-> r.h]
Bound(s)  == {i \in Slots : s[i].name # 0}

Init ==
    /\ phase = "closed"
    /\ slots = [i \in Slots |-> [name |-> 0, rect |-> NoRect]]
    /\ current = 1 /\ select = 0 /\ update = FALSE /\ handling = Nothing
    /\ configured = FALSE /\ full = TRUE
    /\ frame = NoSize /\ window = NoRect /\ render = NoRect /\ video = NoRect /\ place = NoRect
    /\ resizing = [t \in Threads |-> Resting]
    /\ born = 0 /\ plugged = {} /\ modes = [n \in DOMAIN Modes |-> NoRect]
    /\ events = <<>> /\ last = NoSize
    /\ unseen = FALSE /\ overlapped = FALSE /\ missed = FALSE

Event(kind)           == [kind |-> kind]
OutputEvent(kind, n)  == [kind |-> kind, name |-> n]
\* wl_output.geometry and wl_output.mode.
State(n, r)           == [kind |-> "state", name |-> n, rect |-> r]
\* xdg_toplevel.configure and the xdg_surface.configure that ends it.
Configure(size)       == <<[kind |-> "toplevel", size |-> size], Event("surface")>>

-----------------------------------------------------------------------------
(* resizeVideoSurface, from thread t: what it reads, the position it sets, *)
(* the rectangle it stores with the destination it sets.                   *)

Idle(t)       == resizing[t] = Resting
HasSurface    == phase \in {"surface", "running"}

BeginResize(t, f, w, r) ==
    /\ \E res \in CenterRects(f, Destination(w, r), r, TRUE) :
          resizing' = [resizing EXCEPT ![t] = [at |-> "read", result |-> res]]
    /\ overlapped' = ~\A u \in Threads \ {t} : Idle(u)
    /\ unseen' = FALSE
NoResize == UNCHANGED <<resizing, overlapped, unseen>>

PlaceVideo(t) ==
    /\ resizing[t].at = "read"
    /\ place' = resizing[t].result
    /\ resizing' = [resizing EXCEPT ![t].at = "placed"]
    /\ UNCHANGED <<phase, outputVars, windowVars, render, missed, video, unseen, overlapped, serverVars>>

StoreVideo(t) ==
    /\ resizing[t].at = "placed"
    /\ video' = resizing[t].result
    /\ resizing' = [resizing EXCEPT ![t] = Resting]
    /\ UNCHANGED <<phase, outputVars, windowVars, render, missed, place, unseen, overlapped, serverVars>>

\* setRenderRectangle: nothing is shown before the window is configured.
SetRender(r, conf) ==
    IF r.w <= 0 \/ r.h <= 0 THEN UNCHANGED render /\ NoResize
    ELSE /\ render' = r
         /\ IF conf /\ frame.w # 0 THEN BeginResize("dispatch", frame, window, r)
            ELSE unseen' = TRUE /\ UNCHANGED <<resizing, overlapped>>

\* setRenderRectangle with the rectangle of output o, as far as it is known.
TakeOutput(o, conf) == SetRender(o.rect, conf) /\ missed' = FALSE
KeepRender == UNCHANGED <<render, missed>> /\ NoResize

-----------------------------------------------------------------------------
(* The player's calls. *)

PlayerFree == phase \in {"closed", "running"} /\ Idle("player")

SetFrameSize(f) ==
    /\ PlayerFree
    /\ frame' = f
    /\ IF render.w > 0 /\ HasSurface THEN BeginResize("player", f, window, render) ELSE NoResize
    /\ UNCHANGED <<phase, outputVars, configured, full, window, render, missed, video, place, serverVars>>

\* Mutant: a window set in full screen is only remembered.
SetWindowSize_KeepFull(r) ==
    /\ PlayerFree
    /\ window' = r
    /\ IF r.w > 0 /\ frame.w > 0 /\ HasSurface /\ ~full
       THEN BeginResize("player", frame, r, render)
       ELSE NoResize
    /\ UNCHANGED <<phase, outputVars, configured, full, frame, render, missed, video, place, serverVars>>

\* A window ends the full screen, which the compositor answers.
SetWindowSize(r) ==
    /\ PlayerFree
    /\ window' = r
    /\ IF r.w > 0 /\ frame.w > 0 /\ HasSurface
       THEN /\ full' = FALSE
            /\ events' = events \o (IF full THEN Configure(NoSize) ELSE <<>>)
            /\ BeginResize("player", frame, r, render)
       ELSE NoResize /\ UNCHANGED <<full, events>>
    /\ UNCHANGED <<phase, outputVars, configured, frame, render, missed, video, place, born, plugged, modes, last>>

\* setDisplayOutput: the choice is only stored.
SetDisplayOutput(i) ==
    /\ PlayerFree
    /\ select' = i
    /\ UNCHANGED <<phase, slots, current, update, handling, windowVars, pictureVars, serverVars>>

\* openDisplay up to the first roundtrip: the registry announces what there is.
OpenDisplay ==
    /\ phase = "closed"
    /\ phase' = "globals"
    /\ \E s \in [1..Cardinality(plugged) -> plugged] :
          /\ \A i, j \in DOMAIN s : i < j => s[i] < s[j]
          /\ events' = [i \in DOMAIN s |-> OutputEvent("global", s[i])] \o <<Event("sync")>>
    /\ UNCHANGED <<outputVars, windowVars, pictureVars, born, plugged, modes, last>>

-----------------------------------------------------------------------------
(* Events, dispatched by openDisplay's roundtrips and then by the thread.  *)

Dispatching(kind) ==
    /\ phase # "closed" /\ Idle("dispatch") /\ handling = Nothing
    /\ events # <<>> /\ Head(events).kind = kind

\* The end of a roundtrip: the next begins, after the window surface was created
\* and committed at the second; its three are one here.
Synced ==
    /\ Dispatching("sync")
    /\ \/ /\ phase = "globals" /\ phase' = "states"
          /\ events' = Append(Tail(events), Event("sync"))
       \/ /\ phase = "states" /\ phase' = "surface"
          /\ \E size \in Asked \cup {NoSize} :
                events' = Tail(events) \o Configure(size) \o <<Event("sync")>>
       \/ /\ phase = "surface" /\ phase' = "running"
          /\ events' = Tail(events)
    /\ UNCHANGED <<outputVars, windowVars, pictureVars, born, plugged, modes, last>>

\* The first slot of S.
First(S) == CHOOSE i \in S : \A j \in S : i <= j
Final(S) == CHOOSE i \in S : \A j \in S : i >= j

\* The current output once slots is s: the player's choice until the thread
\* runs, and any other if that one is missing.
Chosen(s) ==
    LET c == IF select # 0 /\ phase # "running" THEN select ELSE current
    IN  IF c \notin Bound(s) /\ Bound(s) # {} THEN First(Bound(s)) ELSE c

\* registryHandleGlobal, up to the binding: bound, the output tells its state.
GlobalAdded ==
    /\ Dispatching("global")
    /\ LET n    == Head(events).name
           free == Slots \ Bound(slots)
       IN  /\ slots' = IF free = {} THEN slots ELSE [slots EXCEPT ![First(free)].name = n]
           /\ events' = Tail(events) \o
                 (IF free # {} /\ n \in plugged THEN <<State(n, modes[n])>> ELSE <<>>)
    /\ handling' = [at |-> "added", was |-> slots[current].name]
    /\ UNCHANGED <<phase, current, select, update, windowVars, pictureVars, born, plugged, modes, last>>

\* Mutant: an output in the slot of the current one is not taken for a new one.
CurrentChosen_SameSlot ==
    /\ handling.at = "added"
    /\ current' = Chosen(slots)
    /\ update' = (update \/ current' # current)
    /\ last' = IF slots[current'].name = handling.was THEN last ELSE NoSize
    /\ handling' = Nothing
    /\ UNCHANGED <<phase, slots, select, windowVars, pictureVars, born, plugged, modes, events>>

\* The rest of it.  What the compositor asked of the window counts for one output.
CurrentChosen ==
    /\ handling.at = "added"
    /\ current' = Chosen(slots)
    /\ IF slots[current'].name = handling.was THEN UNCHANGED <<update, last>>
       ELSE update' = TRUE /\ last' = NoSize
    /\ handling' = Nothing
    /\ UNCHANGED <<phase, slots, select, windowVars, pictureVars, born, plugged, modes, events>>

\* registryHandleGlobalRemove, up to the slot.
GlobalRemoved ==
    /\ Dispatching("remove")
    /\ LET n == Head(events).name
       IN  /\ select' = IF select # 0 /\ slots[select].name = n THEN 0 ELSE select
           /\ slots' = [i \in Slots |-> IF slots[i].name = n THEN [slots[i] EXCEPT !.name = 0] ELSE slots[i]]
           /\ last' = IF slots[current].name = n THEN NoSize ELSE last
    /\ events' = Tail(events)
    /\ handling' = [at |-> "removed", was |-> 0]
    /\ UNCHANGED <<phase, current, update, windowVars, pictureVars, born, plugged, modes>>

\* Mutant: without its output only the primary one is looked for.
CurrentReplaced_PrimaryOnly ==
    /\ handling.at = "removed"
    /\ LET lost  == current \notin Bound(slots)
           found == lost /\ 1 \in Bound(slots)
       IN  /\ current' = IF found THEN 1 ELSE current
           /\ IF lost /\ (found \/ update)
              THEN update' = FALSE /\ TakeOutput(slots[current'], configured)
              ELSE UNCHANGED update /\ KeepRender
    /\ handling' = Nothing
    /\ UNCHANGED <<phase, slots, select, windowVars, video, place, serverVars>>

\* The rest of it: without its output, the last of the others is current, and its
\* rectangle is taken.
CurrentReplaced ==
    /\ handling.at = "removed"
    /\ LET lost  == current \notin Bound(slots)
           found == lost /\ Bound(slots) # {}
       IN  /\ current' = IF found THEN Final(Bound(slots)) ELSE current
           /\ IF lost /\ (found \/ update)
              THEN update' = FALSE /\ TakeOutput(slots[current'], configured)
              ELSE UNCHANGED update /\ KeepRender
    /\ handling' = Nothing
    /\ UNCHANGED <<phase, slots, select, windowVars, video, place, serverVars>>

\* updateDisplayOutput, with the slots s: full screen goes to the current output.
UpdateDisplayOutput(s, rest, conf) ==
    IF current \in Bound(s) /\ HasSurface /\ update
    THEN /\ TakeOutput(s[current], conf)
         /\ update' = FALSE
         /\ events' = rest \o
               (IF ~full THEN <<>>
                ELSE Configure(NoSize) \o
                     (IF s[current].name \in plugged
                      THEN Configure(SizeOf(modes[s[current].name])) ELSE <<>>))
    ELSE UNCHANGED update /\ KeepRender /\ events' = rest

\* outputHandleGeometry and outputHandleMode.  Whichever output it was, the current
\* one is taken if that is waited for; if not, its new mode changes nothing else.
OutputState ==
    /\ Dispatching("state")
    /\ slots' = [i \in Slots |-> IF slots[i].name = Head(events).name
                                 THEN [slots[i] EXCEPT !.rect = Head(events).rect] ELSE slots[i]]
    /\ LET now == slots'[current].rect
       IN  IF update /\ now.w > 0 /\ now.h > 0
           THEN UpdateDisplayOutput(slots', Tail(events), configured)
           ELSE /\ missed' = (missed \/ SizeOf(now) # SizeOf(slots[current].rect))
                /\ events' = Tail(events)
                /\ UNCHANGED <<render, update>> /\ NoResize
    /\ UNCHANGED <<phase, current, select, handling, windowVars, video, place, born, plugged, modes, last>>

\* handleXdgToplevelConfigure.
ToplevelConfigured ==
    /\ Dispatching("toplevel")
    /\ LET size == Head(events).size
           now  == slots[current].rect
       IN  IF size.w <= 0 \/ size.h <= 0
           THEN UNCHANGED <<update, last>> /\ KeepRender
           ELSE /\ last' = size
                /\ IF size = SizeOf(now) /\ update
                   THEN update' = FALSE /\ TakeOutput(slots[current], configured)
                   ELSE /\ SetRender(Rect(render.x, render.y, size.w, size.h), configured)
                        /\ missed' = FALSE /\ UNCHANGED update
    /\ events' = Tail(events)
    /\ UNCHANGED <<phase, slots, current, select, handling, windowVars, video, place, born, plugged, modes>>

\* handleXdgSurfaceConfigure.
SurfaceConfigured ==
    /\ Dispatching("surface")
    /\ configured' = TRUE
    /\ UpdateDisplayOutput(slots, Tail(events), TRUE)
    /\ UNCHANGED <<phase, slots, current, select, handling, full, frame, window, video, place, born, plugged,
                   modes, last>>

-----------------------------------------------------------------------------
(* The compositor, of itself. *)

Announce(e) == events' = IF phase = "closed" THEN events ELSE events \o e

\* A new output, under a name of its own.
Plug ==
    /\ Len(events) < MaxEvents
    /\ born < Len(Modes)
    /\ \E r \in Modes[born + 1] : modes' = [modes EXCEPT ![born + 1] = r]
    /\ born' = born + 1
    /\ plugged' = plugged \cup {born + 1}
    /\ Announce(<<OutputEvent("global", born + 1)>>)
    /\ UNCHANGED <<phase, outputVars, windowVars, pictureVars, last>>

Unplug(n) ==
    /\ Len(events) < MaxEvents
    /\ n \in plugged
    /\ plugged' = plugged \ {n}
    /\ Announce(<<OutputEvent("remove", n)>>)
    /\ UNCHANGED <<phase, outputVars, windowVars, pictureVars, born, modes, last>>

\* An output changes its mode, and tells it if it is bound.
ModeChanged(n) ==
    /\ Len(events) < MaxEvents
    /\ n \in plugged
    /\ \E r \in Modes[n] \ {modes[n]} :
          /\ modes' = [modes EXCEPT ![n] = r]
          /\ events' = events \o (IF \E i \in Slots : slots[i].name = n THEN <<State(n, r)>> ELSE <<>>)
    /\ UNCHANGED <<phase, outputVars, windowVars, pictureVars, born, plugged, last>>

Reconfigure(size) ==
    /\ Len(events) < MaxEvents
    /\ HasSurface
    /\ events' = events \o Configure(size)
    /\ UNCHANGED <<phase, outputVars, windowVars, pictureVars, born, plugged, modes, last>>

-----------------------------------------------------------------------------
Player ==
    \/ OpenDisplay
    \/ \E f \in Frames : SetFrameSize(f)
    \/ \E r \in WindowRects : SetWindowSize(r)
    \/ \E i \in Slots : SetDisplayOutput(i)
Dispatch ==
    \/ Synced \/ GlobalAdded \/ CurrentChosen \/ GlobalRemoved \/ CurrentReplaced \/ OutputState
    \/ ToplevelConfigured \/ SurfaceConfigured
Resize == \E t \in Threads : PlaceVideo(t) \/ StoreVideo(t)
Server ==
    \/ Plug
    \/ \E n \in plugged : Unplug(n) \/ ModeChanged(n)
    \/ \E size \in Asked : Reconfigure(size)

Next == Player \/ Dispatch \/ Resize \/ Server

Spec == Init /\ [][Next]_vars

-----------------------------------------------------------------------------
(* Properties. *)

Quiet ==
    /\ phase = "running" /\ events = <<>> /\ handling = Nothing
    /\ \A t \in Threads : Idle(t)

TypeOK ==
    /\ phase \in {"closed", "globals", "states", "surface", "running"}
    /\ slots \in [Slots -> [name : 0..Len(Modes), rect : Rects]]
    /\ current \in Slots /\ select \in Slots \cup {0}
    /\ handling \in [at : {"none", "added", "removed"}, was : 0..Len(Modes)]
    /\ {update, configured, full, unseen, overlapped, missed} \subseteq BOOLEAN
    /\ {window, render, video, place} \subseteq Rects
    /\ born \in 0..Len(Modes) /\ plugged \subseteq 1..born
    /\ modes \in [DOMAIN Modes -> Rects]
    /\ resizing \in [Threads -> [at : {"rest", "read", "placed"}, result : Rects]]
    /\ \A i \in DOMAIN events : events[i].kind \in {"global", "remove", "state", "toplevel", "surface", "sync"}

\* The post thread, which takes no lock, finds no current output and throws its
\* frames away only while no slot has one, or while the dispatch thread is handling
\* the loss of an output, or the first that comes after there was none.
CurrentIsPlugged ==
    Bound(slots) # {} /\ current \notin Bound(slots) =>
        \/ handling.at = "removed"
        \/ handling.at = "added" /\ \A i, j \in Bound(slots) : i = j

\* Once every event is handled the render rectangle has the size of the current
\* output or the one the compositor asked for last, unless the output's mode came
\* when it was not waited for: too late, or because it changed.
RenderFollows ==
    Quiet /\ current \in Bound(slots) /\ ~missed =>
        SizeOf(render) \in {SizeOf(modes[slots[current].name]), last}

\* Whoever worked it out last, the picture fits the window, the frame and the
\* render rectangle there are now.
VideoFollows ==
    Quiet /\ frame.w > 0 /\ render.w > 0 /\ ~overlapped /\ ~unseen =>
        LET fits == CenterRects(frame, Destination(window, render), render, TRUE)
        IN  video \in fits /\ place \in fits
=============================================================================
