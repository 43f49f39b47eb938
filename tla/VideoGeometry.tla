--------------------------- MODULE VideoGeometry ---------------------------
(***************************************************************************)
(* Where the picture goes: the arithmetic by which the weston and the      *)
(* westeros plugin fit a frame into a window, as operators.                *)
(*                                                                         *)
(* Rectangles are records of x, y, w, h, frame sizes of w, h.  The code    *)
(* computes in doubles: a ratio compares as the fraction does, and a       *)
(* quotient may lose the whole number it should reach, so the operators    *)
(* give the set of the rectangles that may come out.                       *)
(***************************************************************************)
EXTENDS Integers

CONSTANT CropDenom      \* WL_VPC_SURFACE_CROP_DENOM: the crop of a whole side

ASSUME CropAssumption == CropDenom \in Nat

Rect(x, y, w, h) == [x |-> x, y |-> y, w |-> w, h |-> h]
Least(a, b)      == IF a < b THEN a ELSE b
Distance(a, b)   == IF a < b THEN b - a ELSE a - b

\* n / d of C's integers, which rounds towards zero.
Quotient(n, d) == IF n >= 0 THEN n \div d ELSE -((-n) \div d)

\* n / d of C's doubles as an int.
Truncated(n, d) == {n \div d} \cup (IF n > 0 /\ n % d = 0 THEN {(n \div d) - 1} ELSE {})

\* A picture of w by h in the middle of dst, or around it.
Centred(dst, w, h) ==
    Rect(dst.x + Quotient(dst.w - w, 2), dst.y + Quotient(dst.h - h, 2), w, h)

\* a is wider for its height than b.
Wider(a, b) == a.w * b.h > b.w * a.h

\* The picture c as large as the width, or the height, of dst lets it be.
FullWidth(c, dst)  == {Centred(dst, dst.w, h) : h \in Truncated(dst.w * c.h, c.w)}
FullHeight(c, dst) == {Centred(dst, w, dst.h) : w \in Truncated(dst.h * c.w, c.h)}

-----------------------------------------------------------------------------
(* weston. *)

\* resizeVideoSurface: the window the player set, unless it is larger than the
\* render rectangle on both sides; without one, all of the render rectangle.
Destination(window, render) ==
    IF window.w > 0 /\ window.h > 0
    THEN IF window.w > render.w /\ window.h > render.h THEN render ELSE window
    ELSE Rect(0, 0, render.w, render.h)

\* videoCenterRect takes a destination that differs on both sides for a small window.
IsSmall(dst, render) == render.w # dst.w /\ render.h # dst.h

\* Mutant: the two sides are swapped.
CenterRects_Swapped(src, dst, render, scaling) ==
    IF IsSmall(dst, render) THEN {dst}
    ELSE IF ~scaling THEN {Centred(dst, Least(src.w, dst.w), Least(src.h, dst.h))}
    ELSE IF Wider(dst, src) THEN FullWidth(src, dst)
    ELSE IF Wider(src, dst) THEN FullHeight(src, dst)
    ELSE {dst}

\* videoCenterRect.  A frame without a size has no ratio and fills dst.
CenterRects(src, dst, render, scaling) ==
    IF IsSmall(dst, render) THEN {dst}
    ELSE IF ~scaling THEN {Centred(dst, Least(src.w, dst.w), Least(src.h, dst.h))}
    ELSE IF Wider(src, dst) THEN FullWidth(src, dst)
    ELSE IF Wider(dst, src) THEN FullHeight(src, dst)
    ELSE {dst}

-----------------------------------------------------------------------------
(* westeros.  A frame f whose pixels have the aspect ratio p[1] / p[2] shows a  *)
(* picture of the shape Content(f, p).                                          *)

Content(f, p) == [w |-> f.w * p[1], h |-> f.h * p[2]]

\* approxEqual: the ratios, and that of 16 to 9, are equal to a thousandth.
SameRatio(a, b) == Distance(a.w * b.h, b.w * a.h) <= (a.h * b.h - 1) \div 1000
Is16By9(a)      == Distance(1000 * a.w, 1777 * a.h) < a.h

\* updateVideoPosition: the window, or all of the output, as the compositor
\* transforms it: t has its translations, scales and output size.
VideoPosition(window, override, t) ==
    LET shown == IF override THEN window ELSE Rect(0, 0, t.out.w, t.out.h)
        scaleX(n) == Quotient(n * t.numX, t.denomX)
        scaleY(n) == Quotient(n * t.numY, t.denomY)
    IN  Rect(scaleX(shown.x) + t.x, scaleY(shown.y) + t.y, scaleX(shown.w), scaleY(shown.h))

Zooms == {"none", "direct", "normal", "16_9_stretch", "4_3_pillarbox", "zoom"}

\* Frames of more than full HD are shown whole whatever is set.
ZoomOf(zoom, f) == IF f.w > 1920 \/ f.h > 1080 THEN "normal" ELSE zoom

\* arf >= ard.  Ratios that are equal may compare either way when the pixels are not square.
FillsWidth(c, video, p) ==
    {~Wider(video, c)} \cup (IF c.w * video.h = video.w * c.h /\ p[1] # p[2] THEN {FALSE} ELSE {})

\* Mutant: zoom shows the frame whole, too.
ZoomRects_NoZoom(zoom, c, video, p) ==
    UNION {IF wide THEN FullWidth(c, video) ELSE FullHeight(c, video) : wide \in FillsWidth(c, video, p)}

\* The switch over the zoom modes.
ZoomRects(zoom, c, video, p) ==
    LET both   == SameRatio(c, video) /\ Is16By9(c)
        \* 16:9 on a 16:9 display is enlarged as though it were 4:3.
        larger == IF both THEN Truncated(4 * video.h, 3) ELSE {video.h}
    IN  CASE zoom \in {"none", "direct", "normal"} ->
                UNION {IF wide THEN FullWidth(c, video) ELSE FullHeight(c, video) :
                          wide \in FillsWidth(c, video, p)}
          [] zoom = "16_9_stretch" ->
                {Centred(video, w, video.h) : w \in IF both THEN Truncated(64 * video.h, 27)
                                                            ELSE {(16 * video.h) \div 9}}
          [] zoom = "4_3_pillarbox" ->
                {Centred(video, (4 * video.h) \div 3, video.h)}
          [] zoom = "zoom" ->
                UNION {IF wide THEN UNION {{Centred(video, w, h) : w \in Truncated(c.w * h, c.h)} :
                                             h \in larger}
                               ELSE FullWidth(c, video) :
                          wide \in FillsWidth(c, video, p)}

\* getVideoBounds.  Only a window of the size of the display is zoomed.
VideoBounds(zoom, f, p, window, display, forced, video) ==
    IF window.w # display.w \/ window.h # display.h \/ forced THEN {video}
    ELSE ZoomRects(ZoomOf(zoom, f), Content(f, p), video, p)

\* Mutant: the cut starts at the video's edge and not at the window's.
CropOf_NoOffset(v, vl, w, wl) ==
    <<0, Quotient(Quotient(wl * wl, vl) * CropDenom, wl)>>

\* The part of the video v .. v + vl the texture is cut to, on one axis, in CropDenom-ths.
CropOf(v, vl, w, wl) ==
    LET share(n) == Quotient(n * wl, vl)
        cut == IF v < w \/ v + vl > w + wl
               THEN <<share(w - v), share(w + wl - v) - share(w - v)>>
               ELSE IF v < 0 THEN <<share(-v), share(vl + v)>>
               ELSE IF v + vl > wl THEN <<0, share(wl - v)>>
               ELSE <<0, wl>>
    IN  [i \in 1..2 |-> Quotient(cut[i] * CropDenom, wl)]

\* The place on the display of the texture cut to start s and length l, on one axis.
Shown(v, vl, s, l) ==
    LET len == IF v >= 0 /\ v + vl > l THEN l - v
               ELSE IF v + vl < s + l THEN v + vl - s ELSE l
    IN  <<s, IF len < 0 THEN 0 ELSE len>>

Start(v, w) == IF v > w /\ v > 0 THEN v ELSE IF v >= w /\ v < 0 THEN 0 ELSE w

ShownX(v, vl, w, wl) ==
    Shown(v, vl, Start(v, w),
          IF v > w /\ v > 0 THEN wl
          ELSE IF v >= w /\ v < 0 THEN wl + v
          ELSE IF v + vl < w + wl THEN v + vl - w ELSE wl)

ShownY(v, vl, w, wl) ==
    Shown(v, vl, Start(v, w), IF v < w /\ v > 0 THEN wl - v ELSE wl)

Leaves(v, display) == v.x < 0 \/ v.x + v.w > display.w \/ v.y < 0 \/ v.y + v.h > display.h

\* setTextureCrop: the window shows the texture whole unless the video leaves the display.
TextureCrop(v, window, display) ==
    LET placeX == ShownX(v.x, v.w, window.x, window.w)
        placeY == ShownY(v.y, v.h, window.y, window.h)
    IN  IF Leaves(v, display)
        THEN [place |-> Rect(placeX[1], placeY[1], placeX[2], placeY[2]),
              cropX |-> CropOf(v.x, v.w, window.x, window.w),
              cropY |-> CropOf(v.y, v.h, window.y, window.h)]
        ELSE [place |-> window, cropX |-> <<0, CropDenom>>, cropY |-> <<0, CropDenom>>]
=============================================================================
