-------------------------- MODULE MCVideoGeometry --------------------------
(***************************************************************************)
(* VideoGeometry for TLC: a request is picked, and one step answers it     *)
(* with one of the rectangles that may come out.                           *)
(***************************************************************************)
EXTENDS VideoGeometry, FiniteSets

VARIABLES
    request,    \* what is asked for, by which plugin
    picture,    \* where the picture goes
    texture     \* westeros: how the texture of the graphics path is cut and placed

vars == <<request, picture, texture>>

CONSTANT None    \* not answered yet

Size(w, h) == [w |-> w, h |-> h]
Display    == Rect(0, 0, 1920, 1080)

\* Wide, 16:9 to the pixel and nearly, 4:3, anamorphic, upright, 4k, odd, none.
FrameSizes == {Size(2048, 858), Size(1280, 720), Size(1920, 1080), Size(854, 480), Size(640, 480),
               Size(720, 576), Size(480, 854), Size(3840, 2160), Size(3840, 1600), Size(101, 77)}
Windows    == {Rect(0, 0, 0, 0), Rect(0, 0, 1920, 1080), Rect(300, 200, 640, 360),
               Rect(100, 0, 1280, 1080), Rect(0, 50, 1920, 801), Rect(0, 0, 3840, 2160)}
Renders    == {Display, Rect(0, 0, 1280, 720)}
Pixels     == {<<1, 1>>, <<16, 15>>, <<64, 45>>}
Identity   == [x |-> 0, y |-> 0, numX |-> 1, denomX |-> 1, numY |-> 1, denomY |-> 1,
               out |-> Size(1920, 1080)]
\* The compositor shows a quarter of the display in the lower right corner.
Corner     == [x |-> 960, y |-> 540, numX |-> 1, denomX |-> 2, numY |-> 1, denomY |-> 2,
               out |-> Size(1920, 1080)]

Requests ==
    [plugin : {"weston"}, frame : FrameSizes \cup {Size(0, 0)}, window : Windows, render : Renders,
     scaling : BOOLEAN]
    \cup
    [plugin : {"westeros"}, frame : FrameSizes, pixel : Pixels, zoom : Zooms,
     window : {Display, Rect(300, 200, 640, 360)}, forced : BOOLEAN, override : BOOLEAN,
     xform : {Identity, Corner}]

Init == request \in Requests /\ picture = None /\ texture = None

\* resizeVideoSurface
ResizeVideoSurface ==
    /\ request.plugin = "weston" /\ picture = None
    /\ picture' \in CenterRects(request.frame, Destination(request.window, request.render),
                                request.render, request.scaling)
    /\ UNCHANGED <<request, texture>>

VideoOf(r)  == VideoPosition(r.window, r.override, r.xform)
BoundsOf(r, video) ==
    VideoBounds(r.zoom, r.frame, r.pixel, r.window, Display, r.forced, video)

\* The rectangle of a frame on the hardware path, and, of the same frame on the
\* graphics path, what setVideoPath tells the compositor.
ShowFrame ==
    /\ request.plugin = "westeros" /\ picture = None
    /\ picture' \in BoundsOf(request, VideoOf(request))
    /\ \E v \in BoundsOf(request, request.window) :
          texture' = [video |-> v, cut |-> TextureCrop(v, request.window, Display)]
    /\ UNCHANGED request

Next == ResizeVideoSurface \/ ShowFrame
Spec == Init /\ [][Next]_vars

-----------------------------------------------------------------------------
Inside(a, b) == a.x >= b.x /\ a.y >= b.y /\ a.x + a.w <= b.x + b.w /\ a.y + a.h <= b.y + b.h
\* Both ends stick out, or are left free, by the same, to a pixel.
InMiddle(a, b) ==
    /\ Distance(a.x - b.x, (b.x + b.w) - (a.x + a.w)) <= 1
    /\ Distance(a.y - b.y, (b.y + b.h) - (a.y + a.h)) <= 1
\* a has the shape of c: changing a side by a pixel would pass it.
HasShape(a, c) == Distance(a.w * c.h, a.h * c.w) <= (IF c.w > c.h THEN c.w ELSE c.h)

\* weston shows all of a frame inside the window, as large as its shape allows, in the middle.
WestonShowsWhole ==
    picture # None /\ request.plugin = "weston" =>
    LET dst == Destination(request.window, request.render) IN
    /\ Inside(picture, dst) /\ InMiddle(picture, dst)
    /\ request.scaling /\ ~IsSmall(dst, request.render) =>
          /\ picture.w = dst.w \/ picture.h = dst.h
          /\ request.frame.w > 0 => HasShape(picture, request.frame)

\* westeros keeps a frame's shape in the modes that promise it, in the middle of the
\* video's rectangle: inside it, or, enlarged by zoom, over all of it.
ZoomKeepsShape ==
    picture # None /\ request.plugin = "westeros" =>
    LET video == VideoOf(request)
        zoom  == ZoomOf(request.zoom, request.frame)
        c     == Content(request.frame, request.pixel)
    IN  request.window = Display /\ ~request.forced =>
        /\ InMiddle(picture, video)
        /\ zoom \in {"none", "direct", "normal", "zoom"} => HasShape(picture, c)
        /\ zoom \in {"none", "direct", "normal"} => Inside(picture, video)
        /\ zoom = "zoom" => picture.w >= video.w - 1 /\ picture.h >= video.h - 1

\* The part of a that lies on b.
Overlap(a, b) ==
    LET x1 == IF a.x > b.x THEN a.x ELSE b.x
        y1 == IF a.y > b.y THEN a.y ELSE b.y
    IN  Rect(x1, y1, Least(a.x + a.w, b.x + b.w) - x1, Least(a.y + a.h, b.y + b.h) - y1)

\* crop is n out of size in CropDenom-ths, to two of the wl pixels it is counted in.
NearTo(crop, n, size, wl) ==
    Distance(crop, (n * CropDenom) \div size) <= 2 * (CropDenom \div wl + 1)

\* On the graphics path of a window that is the display, the texture is cut to the
\* part of the video that lies on the display, and shown just there.
TextureShowsOverlap ==
    texture # None /\ request.window = Display /\ Leaves(texture.video, Display) =>
    LET v    == texture.video
        seen == Overlap(v, Display)
        cut  == texture.cut
    IN  /\ cut.place = seen
        /\ NearTo(cut.cropX[1], seen.x - v.x, v.w, Display.w) /\ NearTo(cut.cropX[2], seen.w, v.w, Display.w)
        /\ NearTo(cut.cropY[1], seen.y - v.y, v.h, Display.h) /\ NearTo(cut.cropY[2], seen.h, v.h, Display.h)
=============================================================================
