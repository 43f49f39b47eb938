------------------------------ MODULE WstOutput ------------------------------
(***************************************************************************)
(* The video's rectangle of the westeros plugin (WstClientWayland): the    *)
(* window the player sets, the compositor's transform of it, and what the  *)
(* compositor and the video server are told.  The player's thread and the  *)
(* dispatch thread both work it out, with no lock in common: mMutex is     *)
(* only taken by the second.                                               *)
(*                                                                         *)
(* A rectangle is read and written whole, the crop of a window is only in  *)
(* VideoGeometry, and opacity, z-order, visibility and the buffer for the  *)
(* hole in the graphics are left out.                                      *)
(***************************************************************************)
EXTENDS VideoGeometry

CONSTANTS
    NoRect,
    Windows,        \* the windows the player sets
    Frames,         \* the frame sizes it sets
    ZoomModes,      \* the zoom modes the server asks for
    Transforms,     \* the compositor's transforms: a denominator may be 0, as for VideoPosition
    ForceFullScreen \* mForceFullScreen, from the environment

VARIABLES
    connected,  \* connectToWayland was called, and there is a mWlVpcSurface
    at, mine,   \* at[t]: how far thread t is in its call; mine[t]: the rectangle it has worked
                \* out, or the window it has read for a request to the compositor
    window,     \* mWindowX .. mWindowHeight
    override,   \* mWindowSet and mWindowSizeOverride
    change,     \* mWindowChange
    frame,      \* mFrameWidth, mFrameHeight
    zoom,       \* mZoomMode
    forceAspect,\* mForceAspectRatio
    ratioChange,\* mPixelAspectRatioChanged, which the constructor does not set
    paused,     \* mVideoPaused
    transform,  \* mTransX, mScaleXNum, ...
    video,      \* mVideoX .. mVideoHeight
    saved,      \* setVideoPath: the rectangle it puts back
    told,       \* external: the video rectangle the server was told, or NoRect
    geometry,   \* external: the window the compositor was told, whole or cut
    asked,      \* history: the window the player set last
    spoiled,    \* history: it set it while outputHandleMode was writing a window
    overtaken,  \* history: the window changed while the other thread was sending the one before
    stale       \* history: see Begin and VideoPathChange

settings == <<window, override, frame, zoom, forceAspect, ratioChange, paused>>
history  == <<asked, spoiled, overtaken>>
vars == <<connected, at, mine, settings, change, transform, video, saved, told, geometry, history, stale>>

Threads  == {"player", "dispatch"}
Other(t) == IF t = "player" THEN "dispatch" ELSE "player"
Display  == Rect(0, 0, 1920, 1080)      \* outputs are taken to have this size
\* The steps of updateVideoPosition, and those of getVideoBounds, which may begin with it.
Update   == {"compute", "write"}
Bounds   == {"first compute", "first write", "bounds"}
\* The requests to the compositor: of setWindowSize and outputHandleMode, of
\* getVideoBounds, and of setTextureCrop.
Requests == {"tell", "ratio", "crop"}
Known(t) == t.denomX # 0 /\ t.denomY # 0
NoScale  == [x |-> 0, y |-> 0, numX |-> 0, denomX |-> 0, numY |-> 0, denomY |-> 0,
             out |-> [w |-> 0, h |-> 0]]

TypeOK ==
    /\ connected \in BOOLEAN
    /\ at.player \in Update \cup Bounds \cup {"rest", "tell", "decide", "ratio"}
    /\ at.dispatch \in Update \cup Bounds \cup Requests \cup {"rest", "mode", "restore"}
    /\ spoiled \/ window \in Windows \cup {Display}
    /\ frame \in Frames \cup {[w |-> 0, h |-> 0]}
    /\ zoom \in ZoomModes \cup {"none"}
    /\ connected <=> geometry # NoRect
    /\ saved # NoRect <=> at.dispatch \in Bounds \cup {"ratio", "crop", "restore"}
    /\ connected \/ at.dispatch = "rest"

Init ==
    /\ connected = FALSE
    /\ at = [t \in Threads |-> "rest"] /\ mine = [t \in Threads |-> NoRect]
    /\ window = Display /\ override = FALSE /\ change = FALSE
    /\ frame = [w |-> 0, h |-> 0]
    /\ zoom = "none" /\ forceAspect = FALSE /\ ratioChange \in BOOLEAN /\ paused = FALSE
    /\ transform = NoScale
    /\ video = Display /\ saved = NoRect
    /\ told = NoRect /\ geometry = NoRect
    /\ asked = Display /\ spoiled = FALSE /\ overtaken = FALSE /\ stale = FALSE

-----------------------------------------------------------------------------
(* updateVideoPosition, in two steps of the thread that calls it. *)

\* What it is worked out from may change between them: not if the other thread is
\* in no call, or one that leaves it alone, and none begins before the end.
Busy(t) == at[t] \notin {"rest", "tell", "decide"}
Begin(t) == stale' = Busy(Other(t))
Meanwhile(t) == stale' = (stale \/ Busy(Other(t)))

\* With a denominator of 0 the division is undefined: processors that do not
\* stop there give 0.
Compute(t) ==
    /\ at[t] \in {"compute", "first compute"}
    /\ mine' = [mine EXCEPT ![t] =
           IF Known(transform) THEN VideoPosition(window, override, transform) ELSE Rect(0, 0, 0, 0)]
    /\ at' = [at EXCEPT ![t] = IF @ = "compute" THEN "write" ELSE "first write"]
    /\ UNCHANGED <<connected, settings, change, transform, video, saved, told, geometry, history, stale>>

\* The rectangle is also sent to the server.
Write(t) ==
    /\ at[t] \in {"write", "first write"}
    /\ video' = mine[t] /\ told' = mine[t]
    /\ mine' = [mine EXCEPT ![t] = NoRect]
    /\ at' = [at EXCEPT ![t] = IF @ = "write" THEN "rest" ELSE "bounds"]
    /\ UNCHANGED <<connected, settings, change, transform, saved, geometry, history, stale>>

\* getVideoBounds begins with it if the window has changed.
BeginBounds(t) ==
    /\ change' = FALSE
    /\ at' = [at EXCEPT ![t] = IF change THEN "first compute" ELSE "bounds"]

\* The rest of it: a pixel ratio or zoom mode has the compositor told of the
\* window again, if it is as large as the display.
Zoomed == window.w = Display.w /\ window.h = Display.h /\ ~ForceFullScreen
EndBounds(t, next) ==
    /\ at[t] = "bounds"
    /\ at' = [at EXCEPT ![t] = IF ratioChange /\ Zoomed THEN "ratio" ELSE next]
    /\ UNCHANGED <<connected, mine, settings, change, transform, video, saved, told, geometry, history,
                   stale>>

-----------------------------------------------------------------------------
(* A request to the compositor, in two steps: it is sent after the window  *)
(* is read, and the other thread may write and send one in between.        *)

Sending(t) == at[t] \in Requests /\ mine[t] # NoRect
\* A window thread t writes: the other one may be sending what it was.
Overtakes(t) == overtaken' = Sending(Other(t))

ReadWindow(t) ==
    /\ at[t] \in Requests /\ mine[t] = NoRect
    /\ mine' = [mine EXCEPT ![t] = window]
    /\ overtaken' = (overtaken /\ Sending(Other(t)))
    /\ UNCHANGED <<connected, at, settings, change, transform, video, saved, told, geometry, asked,
                   spoiled, stale>>

After == [player   |-> [tell |-> "decide", ratio |-> "rest"],
          dispatch |-> [tell |-> "rest", ratio |-> "crop", crop |-> "restore"]]

SendGeometry(t) ==
    /\ Sending(t)
    /\ geometry' = mine[t]
    /\ mine' = [mine EXCEPT ![t] = NoRect]
    /\ at' = [at EXCEPT ![t] = After[t][at[t]]]
    /\ ratioChange' = (ratioChange /\ at[t] # "ratio")
    /\ UNCHANGED <<connected, window, override, frame, zoom, forceAspect, paused, change, transform,
                   video, saved, told, history, stale>>

-----------------------------------------------------------------------------
(* The player's calls. *)

Idle == at.player = "rest"

\* connectToWayland.  The two roundtrips dispatch the outputs' modes, before there
\* is a surface; the display's thread then starts.
Connect ==
    /\ Idle /\ ~connected
    /\ connected' = TRUE
    /\ geometry' = window
    /\ told' = NoRect /\ overtaken' = FALSE
    /\ UNCHANGED <<at, mine, settings, change, transform, video, saved, asked, spoiled, stale>>

\* disconnectFromWayland joins the thread.
Disconnect ==
    /\ Idle /\ connected /\ at.dispatch = "rest"
    /\ connected' = FALSE
    /\ geometry' = NoRect
    /\ UNCHANGED <<at, mine, settings, change, transform, video, saved, told, history, stale>>

\* Mutant: no frame is told that the window has changed.
SetWindowSize_NoChange(w) ==
    /\ Idle
    /\ window' = w /\ override' = TRUE
    /\ asked' = w /\ spoiled' = (at.dispatch = "mode") /\ Overtakes("player")
    /\ at' = [at EXCEPT !.player = IF connected THEN "tell" ELSE "rest"]
    /\ UNCHANGED <<connected, mine, frame, zoom, forceAspect, ratioChange, paused, change, transform, video,
                   saved, told, geometry, stale>>

\* The window of nothing at the origin is ignored.  The compositor is told (ReadWindow).
SetWindowSize(w) ==
    /\ Idle
    /\ window' = w /\ override' = TRUE /\ change' = TRUE
    /\ asked' = w /\ spoiled' = (at.dispatch = "mode") /\ Overtakes("player")
    /\ at' = [at EXCEPT !.player = IF connected THEN "tell" ELSE "rest"]
    /\ UNCHANGED <<connected, mine, frame, zoom, forceAspect, ratioChange, paused, transform, video,
                   saved, told, geometry, stale>>

\* The rest of setWindowSize: the video follows at once if no frame will come, or
\* else at the next one.
Decide ==
    /\ at.player = "decide"
    /\ LET follows == paused /\ connected /\ change /\ Known(transform) IN
       /\ change' = (change /\ ~follows)
       /\ at' = [at EXCEPT !.player = IF follows THEN "compute" ELSE "rest"]
       /\ IF follows THEN Begin("player") ELSE UNCHANGED stale
    /\ UNCHANGED <<connected, mine, settings, transform, video, saved, told, geometry, history>>

\* setFrameSize, setForceAspectRatio, setPixelAspectRatio, setPause.
Set ==
    /\ Idle
    /\ \/ frame' \in Frames /\ UNCHANGED <<forceAspect, ratioChange, paused>>
       \/ forceAspect' \in BOOLEAN /\ UNCHANGED <<frame, ratioChange, paused>>
       \/ ratioChange' = TRUE /\ UNCHANGED <<frame, forceAspect, paused>>
       \/ paused' \in BOOLEAN /\ UNCHANGED <<frame, forceAspect, ratioChange>>
    /\ UNCHANGED <<connected, at, mine, window, override, zoom, change, transform, video, saved, told,
                   geometry, history, stale>>

\* displayFrame calls getVideoBounds, which without a display gives the window.
DisplayFrame ==
    /\ Idle /\ connected
    /\ BeginBounds("player")
    /\ IF change THEN Begin("player") ELSE UNCHANGED stale
    /\ UNCHANGED <<connected, mine, settings, transform, video, saved, told, geometry, history>>

PlayerBounds == EndBounds("player", "rest")

-----------------------------------------------------------------------------
(* The dispatch thread, and setZoomMode on the socket's. *)

Dispatches == connected /\ at.dispatch = "rest"

\* Without a global zoom the mode is dropped.
SetZoomMode(z, global) ==
    /\ zoom' = IF global THEN z ELSE "none"
    /\ ratioChange' = (ratioChange \/ global)
    /\ UNCHANGED <<connected, at, mine, window, override, frame, forceAspect, paused, change, transform,
                   video, saved, told, geometry, history, stale>>

\* vpcVideoXformChange: a scale without a denominator is not taken.
XformChange(t) ==
    /\ Dispatches
    /\ transform' = [t EXCEPT
           !.numX = IF t.denomX # 0 THEN @ ELSE transform.numX,
           !.denomX = IF t.denomX # 0 THEN @ ELSE transform.denomX,
           !.numY = IF t.denomY # 0 THEN @ ELSE transform.numY,
           !.denomY = IF t.denomY # 0 THEN @ ELSE transform.denomY]
    /\ at' = [at EXCEPT !.dispatch = "compute"]
    /\ Begin("dispatch")
    /\ UNCHANGED <<connected, mine, settings, change, video, saved, told, geometry, history>>

\* outputHandleMode, of any current mode, up to its test of mWindowSet.
OutputMode ==
    /\ Dispatches /\ ~override
    /\ at' = [at EXCEPT !.dispatch = "mode"]
    /\ UNCHANGED <<connected, mine, settings, change, transform, video, saved, told, geometry, history, stale>>

OutputModeWrites ==
    /\ at.dispatch = "mode"
    /\ window' = [window EXCEPT !.w = Display.w, !.h = Display.h]
    /\ at' = [at EXCEPT !.dispatch = "tell"]
    /\ Overtakes("dispatch")
    /\ UNCHANGED <<connected, mine, override, frame, zoom, forceAspect, ratioChange, paused, change,
                   transform, video, saved, told, geometry, asked, spoiled, stale>>

ShellSurfaceStatus ==
    /\ Dispatches
    /\ change' = TRUE
    /\ UNCHANGED <<connected, at, mine, settings, transform, video, saved, told, geometry, history, stale>>

\* vpcVideoPathChange, to whichever path: the window stands in for the video's
\* rectangle.  A window that has changed is taken for done by getVideoBounds,
\* and what that works out is undone by the restoring.
VideoPathChange ==
    /\ Dispatches
    /\ forceAspect \/ zoom # "none"
    /\ saved' = video /\ video' = window
    /\ \/ /\ frame.w > 0 /\ frame.h > 0
          /\ BeginBounds("dispatch")
          /\ IF change THEN stale' = TRUE ELSE Meanwhile("dispatch")
       \/ /\ ~(frame.w > 0 /\ frame.h > 0)
          /\ at' = [at EXCEPT !.dispatch = "restore"]
          /\ Meanwhile("dispatch")
          /\ UNCHANGED change
    /\ UNCHANGED <<connected, mine, settings, transform, told, geometry, history>>

\* setTextureCrop follows.
DispatchBounds == EndBounds("dispatch", "crop")

Restore ==
    /\ at.dispatch = "restore"
    /\ video' = saved /\ saved' = NoRect
    /\ at' = [at EXCEPT !.dispatch = "rest"]
    /\ UNCHANGED <<connected, mine, settings, change, transform, told, geometry, history, stale>>

-----------------------------------------------------------------------------
PlayerStep ==
    \/ Connect \/ Disconnect \/ Set \/ Decide \/ DisplayFrame \/ PlayerBounds
    \/ \E w \in Windows : SetWindowSize(w)

DispatchStep ==
    \/ OutputMode \/ OutputModeWrites \/ ShellSurfaceStatus \/ VideoPathChange
    \/ DispatchBounds \/ Restore
    \/ \E t \in Transforms : XformChange(t)

Next ==
    \/ PlayerStep \/ DispatchStep
    \/ \E t \in Threads : Compute(t) \/ Write(t) \/ ReadWindow(t) \/ SendGeometry(t)
    \/ \E z \in ZoomModes, global \in BOOLEAN : SetZoomMode(z, global)

Spec == Init /\ [][Next]_vars

-----------------------------------------------------------------------------
(* Properties. *)

Settled == (\A t \in Threads : at[t] = "rest") /\ ~change /\ Known(transform)

\* When no call is under way and no change is left to the next frame, the video is
\* where the window and the transform put it, the server and the compositor know
\* it, and the window is the player's: unless the last change met another call
\* (stale, spoiled), a change of the pathway took it (stale), or what the compositor
\* was told last had been read before it (overtaken).
SettlesRight ==
    Settled =>
    /\ ~stale => /\ video = VideoPosition(window, override, transform)
                 /\ told \in {video, NoRect}
    /\ ~spoiled => window = asked
    /\ connected /\ ~overtaken => geometry = window

(* What comments of the code say and the code does not do. *)

\* "if window size is updated, update video position": that needs the transform.
PositionHasTransform == at.player \in {"compute", "first compute"} => Known(transform)
=============================================================================
