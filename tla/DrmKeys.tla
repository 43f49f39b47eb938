------------------------------ MODULE DrmKeys ------------------------------
(***************************************************************************)
(* The keys of the drm plugin: what setValue stores, what it passes on to  *)
(* objects that exist only while the window is open, and what openWindow   *)
(* and closeWindow carry over.  The player makes one call at a time.       *)
(***************************************************************************)
EXTENDS FiniteSets

CONSTANTS
    Rects,      \* window rectangles of some width and height
    NoRect,     \* a rectangle without
    Freezen     \* SUPPORT_DRM_FREEZEN

VARIABLES
    open,       \* mDrmHandle, mDrmFramePost and mDrmFrameRecycle exist
    isPip,      \* DrmPlugin::mIsPip
    plane,      \* DrmDisplay::mIsPip, the plane the session draws on
    hide,       \* mHideVideo
    keep,       \* mKeepLastFrame
    winRect,    \* DrmDisplay::mWinRect
    immediate,  \* DrmFramePost::mImmediatelyOutput
    postRect,   \* DrmFramePost::mWinRect
    freeze,     \* external: the handle's freeze
    muted,      \* external: the video plane is muted
    asked,      \* history: the last rectangle and keep value the player set
    crashed     \* the program has dereferenced a NULL mDrmHandle and is no more

pluginVars  == <<isPip, hide, keep, winRect>>
sessionVars == <<open, plane, immediate, postRect, freeze>>
vars == <<pluginVars, sessionVars, muted, asked, crashed>>

TypeOK ==
    /\ open \in BOOLEAN /\ isPip \in BOOLEAN /\ plane \in BOOLEAN
    /\ hide \in BOOLEAN /\ keep \in BOOLEAN
    /\ immediate \in BOOLEAN
    /\ freeze \in BOOLEAN /\ muted \in BOOLEAN /\ crashed \in BOOLEAN
    /\ winRect \in Rects \cup {NoRect} /\ postRect \in Rects \cup {NoRect}
    /\ asked \in [keep : BOOLEAN, rect : Rects \cup {NoRect}]
    /\ ~open => ~immediate /\ postRect = NoRect /\ ~freeze    \* there is no frame post

Init ==
    /\ open = FALSE /\ isPip = FALSE /\ plane = FALSE
    /\ hide = FALSE /\ keep = FALSE /\ immediate = FALSE
    /\ freeze = FALSE /\ muted = FALSE /\ crashed = FALSE
    /\ winRect = NoRect /\ postRect = NoRect
    /\ asked = [keep |-> FALSE, rect |-> NoRect]

-----------------------------------------------------------------------------
\* DrmDisplay::setImmediatelyOutout: nothing is stored without a frame post.
Immediately(on) == immediate' = (IF open THEN on ELSE immediate)

\* PLUGIN_KEY_VIDEO_PIP has no break: its value is the immediate output's too.
SetPip(on) ==
    /\ isPip' = on
    /\ Immediately(on)
    /\ UNCHANGED <<hide, keep, winRect, open, plane, postRect, freeze, muted, asked, crashed>>

SetImmediate(on) ==
    /\ Immediately(on)
    /\ UNCHANGED <<pluginVars, open, plane, postRect, freeze, muted, asked, crashed>>

\* Mutant: the plane is muted but the flag that stop looks at is not set.
SetHide_Unstored(on) ==
    /\ muted' = (IF open THEN on ELSE muted)
    /\ UNCHANGED <<pluginVars, sessionVars, asked, crashed>>

\* setHideVideo: the plane is muted only through a handle.
SetHide(on) ==
    /\ hide' = on
    /\ muted' = (IF open THEN on ELSE muted)
    /\ UNCHANGED <<isPip, keep, winRect, sessionVars, asked, crashed>>

\* setKeepLastFrame.  Built with SUPPORT_DRM_FREEZEN it logs mDrmHandle->freeze, and
\* arguments of INFO are evaluated at every log level: without a window that is
\* the end of the program.
SetKeep(on) ==
    /\ keep' = on
    /\ freeze' = (IF Freezen /\ open THEN on ELSE freeze)
    /\ asked' = [asked EXCEPT !.keep = on]
    /\ crashed' = (Freezen /\ ~open)
    /\ UNCHANGED <<isPip, hide, winRect, open, plane, immediate, postRect, muted>>

SetWindowSize(r) ==
    /\ winRect' = r
    /\ postRect' = (IF open THEN r ELSE postRect)
    /\ asked' = [asked EXCEPT !.rect = r]
    /\ UNCHANGED <<isPip, hide, keep, open, plane, immediate, freeze, muted, crashed>>

\* DrmDisplay::start: the new frame post gets the rectangle, the new handle the
\* freeze flag.
OpenWindow ==
    /\ ~open
    /\ open' = TRUE
    /\ plane' = isPip
    /\ immediate' = FALSE
    /\ postRect' = winRect
    /\ freeze' = (Freezen /\ keep)
    /\ UNCHANGED <<pluginVars, muted, asked, crashed>>

\* DrmDisplay::start without a handle.
OpenFails ==
    /\ ~open
    /\ plane' = isPip
    /\ UNCHANGED <<pluginVars, open, immediate, postRect, freeze, muted, asked, crashed>>

\* DrmDisplay::stop: a hidden video is unhidden while the handle exists.
CloseWindow ==
    /\ open
    /\ open' = FALSE
    /\ hide' = FALSE
    /\ muted' = (muted /\ ~hide)
    /\ freeze' = FALSE /\ immediate' = FALSE /\ postRect' = NoRect
    /\ UNCHANGED <<isPip, keep, winRect, plane, asked, crashed>>

Next ==
    /\ ~crashed
    /\ \/ \E on \in BOOLEAN : SetPip(on) \/ SetImmediate(on) \/ SetHide(on) \/ SetKeep(on)
       \/ \E r \in Rects \cup {NoRect} : SetWindowSize(r)
       \/ OpenWindow \/ OpenFails \/ CloseWindow

Spec == Init /\ [][Next]_vars

-----------------------------------------------------------------------------
(* Properties. *)

\* "we should unhide here, otherwise next playback will no video showed": the
\* mute of a session never outlives it, and is always one stop knows about.
MuteEndsWithSession == muted => open /\ hide

\* A rectangle set before or during the session is the one frames are posted
\* with, over reopenings.
RectInEffect == open /\ asked.rect # NoRect => postRect = asked.rect

\* Where the build supports it, the choice to keep the last frame is in effect, over
\* reopenings, and it is only made while a window is open; elsewhere it may be made
\* at any time.  Made without a window it is the end of the program.
KeepInEffect ==
    /\ open /\ Freezen => freeze = asked.keep
    /\ crashed => Freezen /\ ~open
=============================================================================
