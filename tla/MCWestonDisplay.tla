-------------------------- MODULE MCWestonDisplay --------------------------
(***************************************************************************)
(* Where the picture goes, for TLC: the outputs and windows of weston over *)
(* time (WestonOutputs), the video's rectangle of westeros over time       *)
(* (WstOutput), or one request after which the arithmetic of weston or     *)
(* westeros gives a rectangle (MCVideoGeometry).  A behaviour is one of    *)
(* these, the others' variables staying as they are.                       *)
(***************************************************************************)
EXTENDS WestonOutputs

CONSTANTS
    None,               \* of MCVideoGeometry
    ZoomModes, ForceFullScreen, WstWindows, WstFrames, Transforms   \* of WstOutput

VARIABLES
    part,           \* what a behaviour is about: "outputs", "westeros" or "request"
    request, picture, texture,
    connected, at, mine, wstWindow, override, change, wstFrame, zoom, forceAspect, ratioChange,
    paused, transform, wstVideo, saved, told, geometry, asked, spoiled, overtaken, stale

requestVars  == <<request, picture, texture>>
westerosVars == <<connected, at, mine, wstWindow, override, change, wstFrame, zoom, forceAspect,
                  ratioChange, paused, transform, wstVideo, saved, told, geometry, asked, spoiled,
                  overtaken, stale>>
allVars      == <<part, vars, requestVars, westerosVars>>

Geometry == INSTANCE MCVideoGeometry

Westeros == INSTANCE WstOutput WITH
                NoRect <- None, window <- wstWindow, frame <- wstFrame, video <- wstVideo,
                Windows <- WstWindows, Frames <- WstFrames

Size(w, h) == [w |-> w, h |-> h]
\* A window in the middle; the whole display as it is, and a scale that is not known.
MiddleWindow    == {Rect(480, 270, 960, 540)}
FullFrame       == {Size(1920, 1080)}
ThreeTransforms == {Geometry!Corner, [Geometry!Identity EXCEPT !.denomX = 0], Geometry!Identity}
\* The first output has two modes, and the second the size of one of them.
TwoOutputs == <<{Rect(0, 0, 16, 8), Rect(0, 0, 32, 16)}, {Rect(32, 0, 32, 16)}>>
OneFrame     == {Size(8, 8)}
OneWindow    == {Rect(2, 2, 8, 4)}
OneSize      == {Size(16, 8)}

AnyRequest == CHOOSE r \in Geometry!Requests : TRUE

PartsInit ==
    /\ Init /\ Westeros!Init
    /\ \/ part \in {"outputs", "westeros"} /\ request = AnyRequest /\ picture = None /\ texture = None
       \/ part = "request" /\ Geometry!Init

PartsNext ==
    /\ UNCHANGED part
    /\ \/ part = "outputs" /\ Next /\ UNCHANGED <<requestVars, westerosVars>>
       \/ part = "westeros" /\ Westeros!Next /\ UNCHANGED <<vars, requestVars>>
       \/ part = "request" /\ Geometry!Next /\ UNCHANGED <<vars, westerosVars>>
       \/ part = "request" /\ picture # None /\ UNCHANGED <<vars, requestVars, westerosVars>>

PartsSpec == PartsInit /\ [][PartsNext]_allVars

-----------------------------------------------------------------------------
\* weston shows all of a frame inside the window, as large as its shape allows,
\* in the middle.
WestonShowsWhole == Geometry!WestonShowsWhole
\* westeros keeps a frame's shape in the zoom modes that promise it.
ZoomKeepsShape == Geometry!ZoomKeepsShape
\* The texture of the graphics path shows just the part of the video on the display.
TextureShowsOverlap == Geometry!TextureShowsOverlap
\* Of WstOutput: the video, the server and the compositor follow the window.
SettlesRight == Westeros!SettlesRight
\* Of WstOutput, of what a comment says: the window is placed by a known transform.
PositionHasTransform == Westeros!PositionHasTransform
=============================================================================
