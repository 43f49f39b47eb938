------------------------ MODULE VideoGeometry_proofs ------------------------
(***************************************************************************)
(* The arithmetic of VideoGeometry for every frame, window and output: a   *)
(* picture lies in the middle of its destination, inside or all over it,   *)
(* and keeps the frame's shape to a pixel.                                 *)
(***************************************************************************)
EXTENDS MCVideoGeometry, TLAPS

Rectangles == [x : Int, y : Int, w : Int, h : Int]
Sizes      == [w : Nat, h : Nat]

-----------------------------------------------------------------------------
(* Whole numbers. *)

LEMMA Division ==
  ASSUME NEW n \in Int, NEW d \in Nat, d > 0
  PROVE  n \div d \in Int /\ d * (n \div d) <= n /\ n < d * (n \div d) + d
  OBVIOUS

LEMMA Even ==
  ASSUME NEW n \in Int, NEW d \in Nat, d > 0, n % d = 0
  PROVE  d * (n \div d) = n
  OBVIOUS

LEMMA Smaller ==
  ASSUME NEW a \in Int, NEW b \in Int, NEW d \in Nat, d > 0
  PROVE  (d * a <= d * b => a <= b) /\ (d * a < d * b => a < b)
  OBVIOUS

LEMMA OneLess ==
  ASSUME NEW a \in Int, NEW d \in Nat
  PROVE  d * (a - 1) = d * a - d /\ d * (a + 1) = d * a + d
  OBVIOUS

LEMMA Half ==
  ASSUME NEW n \in Int
  PROVE  /\ Quotient(n, 2) \in Int
         /\ n >= 0 => Quotient(n, 2) >= 0 /\ Quotient(n, 2) <= n
         /\ n >= 0 => Quotient(n, 2) + Quotient(n, 2) <= n
         /\ Distance(Quotient(n, 2), n - Quotient(n, 2)) <= 1
  BY DEF Quotient, Distance

\* A quotient of doubles as an int: at most a whole number too small.
LEMMA Truncation ==
  ASSUME NEW n \in Int, NEW d \in Nat, d > 0, NEW q \in Truncated(n, d)
  PROVE  /\ q \in Int /\ d * q <= n /\ n <= d * q + d
         /\ \A k \in Int : (n <= d * k => q <= k) /\ (d * k <= n => k <= q + 1)
  <1>1. q \in Int /\ d * q <= n /\ n <= d * q + d
    <2>1. CASE q = n \div d
      BY <2>1, Division
    <2>2. CASE n > 0 /\ n % d = 0 /\ q = (n \div d) - 1
      <3>1. n \div d \in Int /\ d * (n \div d) = n  BY <2>2, Division, Even
      <3>2. d * q = d * (n \div d) - d  BY <2>2, <3>1, OneLess
      <3> QED  BY <2>2, <3>1, <3>2
    <2> QED  BY <2>1, <2>2 DEF Truncated
  <1>2. ASSUME NEW k \in Int, n <= d * k PROVE q <= k
    <2>1. d * q <= d * k  BY <1>1, <1>2
    <2> QED  BY <1>1, <2>1, Smaller
  <1>3. ASSUME NEW k \in Int, d * k <= n PROVE k <= q + 1
    <2>1. d * (q + 1) = d * q + d  BY <1>1, OneLess
    <2>2. d * k <= d * (q + 1)  BY <1>1, <1>3, <2>1
    <2> QED  BY <1>1, <2>2, Smaller
  <1> QED  BY <1>1, <1>2, <1>3

-----------------------------------------------------------------------------
(* A picture in the middle. *)

LEMMA CentredFits ==
  ASSUME NEW dst \in Rectangles, NEW w \in Int, NEW h \in Int
  PROVE  /\ Centred(dst, w, h) \in Rectangles
         /\ Centred(dst, w, h).w = w /\ Centred(dst, w, h).h = h
         /\ InMiddle(Centred(dst, w, h), dst)
         /\ w <= dst.w /\ h <= dst.h => Inside(Centred(dst, w, h), dst)
  <1> DEFINE p == Centred(dst, w, h)
             a == Quotient(dst.w - w, 2)
             b == Quotient(dst.h - h, 2)
  <1>1. dst.x \in Int /\ dst.y \in Int /\ dst.w \in Int /\ dst.h \in Int
    BY DEF Rectangles
  <1>2. dst.w - w \in Int /\ dst.h - h \in Int
    BY <1>1
  <1>3. /\ a \in Int /\ Distance(a, (dst.w - w) - a) <= 1
        /\ dst.w - w >= 0 => a >= 0 /\ a <= dst.w - w
    BY <1>2, Half
  <1>4. /\ b \in Int /\ Distance(b, (dst.h - h) - b) <= 1
        /\ dst.h - h >= 0 => b >= 0 /\ b <= dst.h - h
    BY <1>2, Half
  <1>5. p = [x |-> dst.x + a, y |-> dst.y + b, w |-> w, h |-> h]
    BY DEF Centred, Rect
  <1> HIDE DEF p, a, b
  <1>6. p \in Rectangles /\ p.w = w /\ p.h = h
    BY <1>1, <1>3, <1>4, <1>5 DEF Rectangles
  <1>7. InMiddle(p, dst)
    <2>1. p.x - dst.x = a /\ (dst.x + dst.w) - (p.x + p.w) = (dst.w - w) - a
      BY <1>1, <1>3, <1>5
    <2>2. p.y - dst.y = b /\ (dst.y + dst.h) - (p.y + p.h) = (dst.h - h) - b
      BY <1>1, <1>4, <1>5
    <2> QED  BY <1>3, <1>4, <2>1, <2>2 DEF InMiddle
  <1>8. ASSUME w <= dst.w, h <= dst.h PROVE Inside(p, dst)
    BY <1>1, <1>3, <1>4, <1>5, <1>8 DEF Inside
  <1> QED  BY <1>6, <1>7, <1>8 DEF p

LEMMA AllOfIt ==
  ASSUME NEW dst \in Rectangles
  PROVE  Inside(dst, dst) /\ InMiddle(dst, dst)
  BY DEF Rectangles, Inside, InMiddle, Distance

\* A picture of the width of dst: it keeps the shape of c, and is inside dst or all over it.
LEMMA FullWidthFits ==
  ASSUME NEW c \in Sizes, c.w > 0, NEW dst \in Rectangles, NEW p \in FullWidth(c, dst)
  PROVE  /\ p \in Rectangles /\ p.w = dst.w /\ InMiddle(p, dst) /\ HasShape(p, c)
         /\ dst.w * c.h <= c.w * dst.h => Inside(p, dst)
         /\ c.w * dst.h <= dst.w * c.h => p.h >= dst.h - 1
  <1>1. /\ c.w \in Nat /\ c.h \in Nat /\ dst.w \in Int /\ dst.h \in Int
        /\ dst.w * c.h \in Int
    BY DEF Sizes, Rectangles
  <1>2. PICK h \in Truncated(dst.w * c.h, c.w) : p = Centred(dst, dst.w, h)
    BY DEF FullWidth
  <1>3. /\ h \in Int /\ c.w * h <= dst.w * c.h /\ dst.w * c.h <= c.w * h + c.w
        /\ dst.w * c.h <= c.w * dst.h => h <= dst.h
        /\ c.w * dst.h <= dst.w * c.h => dst.h <= h + 1
    BY <1>1, Truncation
  <1>4. /\ p \in Rectangles /\ p.w = dst.w /\ p.h = h /\ InMiddle(p, dst)
        /\ h <= dst.h => Inside(p, dst)
    BY <1>1, <1>2, <1>3, CentredFits
  <1>5. HasShape(p, c)
    <2>1. p.w * c.h = dst.w * c.h /\ p.h * c.w = c.w * h /\ c.w * h \in Int
      BY <1>1, <1>3, <1>4
    <2>2. Distance(p.w * c.h, p.h * c.w) <= c.w
      BY <1>1, <1>3, <2>1 DEF Distance
    <2> QED  BY <1>1, <1>3, <2>1, <2>2 DEF HasShape, Distance
  <1> QED  BY <1>1, <1>3, <1>4, <1>5

\* The same of its height.
LEMMA FullHeightFits ==
  ASSUME NEW c \in Sizes, c.h > 0, NEW dst \in Rectangles, NEW p \in FullHeight(c, dst)
  PROVE  /\ p \in Rectangles /\ p.h = dst.h /\ InMiddle(p, dst) /\ HasShape(p, c)
         /\ c.w * dst.h <= dst.w * c.h => Inside(p, dst)
         /\ dst.w * c.h <= c.w * dst.h => p.w >= dst.w - 1
  <1>1. /\ c.w \in Nat /\ c.h \in Nat /\ dst.w \in Int /\ dst.h \in Int
        /\ dst.h * c.w \in Int /\ dst.h * c.w = c.w * dst.h /\ dst.w * c.h = c.h * dst.w
    BY DEF Sizes, Rectangles
  <1>2. PICK w \in Truncated(dst.h * c.w, c.h) : p = Centred(dst, w, dst.h)
    BY DEF FullHeight
  <1>3. /\ w \in Int /\ c.h * w <= dst.h * c.w /\ dst.h * c.w <= c.h * w + c.h
        /\ dst.h * c.w <= c.h * dst.w => w <= dst.w
        /\ c.h * dst.w <= dst.h * c.w => dst.w <= w + 1
    BY <1>1, Truncation
  <1>4. /\ p \in Rectangles /\ p.h = dst.h /\ p.w = w /\ InMiddle(p, dst)
        /\ w <= dst.w => Inside(p, dst)
    BY <1>1, <1>2, <1>3, CentredFits
  <1>5. HasShape(p, c)
    <2>1. p.h * c.w = dst.h * c.w /\ p.w * c.h = c.h * w /\ c.h * w \in Int
      BY <1>1, <1>3, <1>4
    <2>2. Distance(p.w * c.h, p.h * c.w) <= c.h
      BY <1>1, <1>3, <2>1 DEF Distance
    <2> QED  BY <1>1, <1>3, <2>1, <2>2 DEF HasShape, Distance
  <1> QED  BY <1>1, <1>3, <1>4, <1>5

-----------------------------------------------------------------------------
(* weston. *)

\* videoCenterRect: of any frame, in any destination and render rectangle, the
\* picture is inside the destination and in the middle of it; scaled, it fills one of
\* its sides and keeps the frame's shape.
THEOREM PictureFitsDestination ==
  ASSUME NEW src \in Sizes, NEW dst \in Rectangles, dst.w >= 0, dst.h >= 0,
         NEW render, NEW scaling \in BOOLEAN, NEW p \in CenterRects(src, dst, render, scaling)
  PROVE  /\ Inside(p, dst) /\ InMiddle(p, dst)
         /\ scaling /\ ~IsSmall(dst, render) =>
               /\ p.w = dst.w \/ p.h = dst.h
               /\ src.w > 0 => HasShape(p, src)
  <1>1. /\ src.w \in Nat /\ src.h \in Nat /\ dst.w \in Nat /\ dst.h \in Nat
        /\ dst.w * src.h \in Nat /\ src.w * dst.h \in Nat /\ dst.h * src.w = src.w * dst.h
    BY DEF Sizes, Rectangles
  <1>2. CASE IsSmall(dst, render)
    BY <1>2, AllOfIt DEF CenterRects
  <1>3. CASE ~IsSmall(dst, render) /\ ~scaling
    <2>1. p = Centred(dst, Least(src.w, dst.w), Least(src.h, dst.h))
      BY <1>3 DEF CenterRects
    <2>2. /\ Least(src.w, dst.w) \in Int /\ Least(src.w, dst.w) <= dst.w
          /\ Least(src.h, dst.h) \in Int /\ Least(src.h, dst.h) <= dst.h
      BY <1>1 DEF Least
    <2> QED  BY <1>3, <2>1, <2>2, CentredFits
  <1>4. CASE ~IsSmall(dst, render) /\ scaling /\ Wider(src, dst)
    <2>1. dst.w * src.h < src.w * dst.h
      BY <1>1, <1>4 DEF Wider
    <2>2. src.w > 0
      <3>1. CASE src.w = 0  BY <1>1, <2>1, <3>1
      <3> QED  BY <1>1, <3>1
    <2>3. p \in FullWidth(src, dst)
      BY <1>4 DEF CenterRects
    <2> QED  BY <1>1, <1>4, <2>1, <2>2, <2>3, FullWidthFits
  <1>5. CASE ~IsSmall(dst, render) /\ scaling /\ ~Wider(src, dst) /\ Wider(dst, src)
    <2>1. src.w * dst.h < dst.w * src.h
      BY <1>1, <1>5 DEF Wider
    <2>2. src.h > 0
      <3>1. CASE src.h = 0  BY <1>1, <2>1, <3>1
      <3> QED  BY <1>1, <3>1
    <2>3. p \in FullHeight(src, dst)
      BY <1>5 DEF CenterRects
    <2> QED  BY <1>1, <1>5, <2>1, <2>2, <2>3, FullHeightFits
  <1>6. CASE ~IsSmall(dst, render) /\ scaling /\ ~Wider(src, dst) /\ ~Wider(dst, src)
    <2>1. p = dst
      BY <1>6 DEF CenterRects
    <2>2. dst.w * src.h = dst.h * src.w
      BY <1>1, <1>6 DEF Wider
    <2>3. HasShape(dst, src)
      BY <1>1, <2>2 DEF HasShape, Distance
    <2> QED  BY <2>1, <2>3, AllOfIt
  <1> QED  BY <1>2, <1>3, <1>4, <1>5, <1>6

-----------------------------------------------------------------------------
(* westeros. *)

\* The zoom mode shows all of a picture that is as wide as the video or wider only by
\* going beyond its sides: the height is the video's, or more where all is 16:9.
LEMMA LargerIsLarger ==
  ASSUME NEW n \in Nat, NEW h \in Truncated(4 * n, 3) \cup {n}
  PROVE  h \in Int /\ h >= n
  <1>1. CASE h = n
    BY <1>1
  <1>2. CASE h \in Truncated(4 * n, 3)
    <2>1. h \in Int /\ 3 * h <= 4 * n /\ 4 * n <= 3 * h + 3
      BY <1>2, Truncation
    <2>2. CASE h = (4 * n) \div 3
      BY <2>2
    <2>3. CASE 4 * n > 0 /\ (4 * n) % 3 = 0 /\ h = ((4 * n) \div 3) - 1
      BY <2>3
    <2> QED  BY <1>2, <2>2, <2>3 DEF Truncated
  <1> QED  BY <1>1, <1>2

\* getVideoBounds, of any picture in any rectangle of the video: in the middle of it in
\* every mode; whole and of its shape in the modes that show all; of its shape and all
\* over the rectangle in the one that zooms.
THEOREM PictureFitsVideo ==
  ASSUME NEW zoom \in Zooms, NEW c \in Sizes, c.w > 0, c.h > 0,
         NEW video \in Rectangles, video.w >= 0, video.h >= 0, NEW p,
         NEW r \in ZoomRects(zoom, c, video, p)
  PROVE  /\ r \in Rectangles /\ InMiddle(r, video)
         /\ zoom \in {"none", "direct", "normal", "zoom"} => HasShape(r, c)
         /\ zoom \in {"none", "direct", "normal"} => Inside(r, video)
         /\ zoom = "zoom" => r.w >= video.w - 1 /\ r.h >= video.h - 1
  <1>1. /\ c.w \in Nat /\ c.h \in Nat /\ video.w \in Nat /\ video.h \in Nat
        /\ c.w * video.h \in Nat /\ video.w * c.h \in Nat
        /\ video.h * c.w = c.w * video.h /\ video.w * c.h = c.h * video.w
    BY DEF Sizes, Rectangles
  <1>2. ASSUME NEW wide \in FillsWidth(c, video, p)
        PROVE  /\ wide => video.w * c.h <= c.w * video.h
               /\ ~wide => c.w * video.h <= video.w * c.h
    <2>1. /\ wide => ~Wider(video, c)
          /\ ~wide => Wider(video, c) \/ c.w * video.h = video.w * c.h
      BY Zenon DEF FillsWidth
    <2>2. Wider(video, c) <=> c.w * video.h < video.w * c.h
      BY <1>1 DEF Wider
    <2> QED  BY <1>1, <2>1, <2>2
  <1>3. CASE zoom \in {"none", "direct", "normal"}
    <2>1. PICK wide \in FillsWidth(c, video, p) :
             r \in (IF wide THEN FullWidth(c, video) ELSE FullHeight(c, video))
      BY <1>3 DEF ZoomRects
    <2> QED  BY <1>1, <1>2, <1>3, <2>1, FullWidthFits, FullHeightFits
  <1>4. CASE zoom \in {"16_9_stretch", "4_3_pillarbox"}
    <2>1. PICK w \in Int : r = Centred(video, w, video.h)
      <3>1. (16 * video.h) \div 9 \in Int /\ (4 * video.h) \div 3 \in Int /\ 64 * video.h \in Int
        BY <1>1
      <3>2. Truncated(64 * video.h, 27) \subseteq Int
        BY <3>1, Truncation
      <3>3. CASE zoom = "16_9_stretch"
        BY <3>1, <3>2, <3>3 DEF ZoomRects
      <3>4. CASE zoom = "4_3_pillarbox"
        BY <3>1, <3>4 DEF ZoomRects
      <3> QED  BY <1>4, <3>3, <3>4
    <2> QED  BY <1>1, <1>4, <2>1, CentredFits
  <1>5. CASE zoom = "zoom"
    <2> DEFINE both   == SameRatio(c, video) /\ Is16By9(c)
               larger == IF both THEN Truncated(4 * video.h, 3) ELSE {video.h}
    <2>1. PICK wide \in FillsWidth(c, video, p) :
             r \in (IF wide THEN UNION {{Centred(video, w, h) : w \in Truncated(c.w * h, c.h)} : h \in larger}
                            ELSE FullWidth(c, video))
      BY <1>5 DEF ZoomRects
    <2>2. CASE ~wide
      BY <1>1, <1>2, <1>5, <2>1, <2>2, FullWidthFits
    <2>3. CASE wide
      <3>1. PICK h \in larger : \E w \in Truncated(c.w * h, c.h) : r = Centred(video, w, h)
        BY <2>1, <2>3
      <3>2. h \in Int /\ h >= video.h
        BY <1>1, <3>1, LargerIsLarger
      <3>3. PICK w \in Truncated(c.w * h, c.h) : r = Centred(video, w, h)
        BY <3>1
      <3>4. c.w * h \in Int /\ c.w * video.h <= c.w * h
        BY <1>1, <3>2
      <3>5. /\ w \in Int /\ c.h * w <= c.w * h /\ c.w * h <= c.h * w + c.h
            /\ c.h * video.w <= c.w * h => video.w <= w + 1
        BY <1>1, <3>3, <3>4, Truncation
      <3>6. video.w <= w + 1
        <4>1. video.w * c.h <= c.w * video.h
          BY <1>2, <2>3
        <4>2. c.h * video.w <= c.w * h
          BY <1>1, <3>4, <4>1
        <4> QED  BY <3>5, <4>2
      <3>7. r \in Rectangles /\ InMiddle(r, video) /\ r.w = w /\ r.h = h
        BY <3>2, <3>3, <3>5, CentredFits
      <3>8. HasShape(r, c)
        <4>1. r.w * c.h = c.h * w /\ r.h * c.w = c.w * h /\ c.h * w \in Int
          BY <1>1, <3>2, <3>5, <3>7
        <4>2. Distance(r.w * c.h, r.h * c.w) <= c.h
          BY <1>1, <3>4, <3>5, <4>1 DEF Distance
        <4> QED  BY <1>1, <3>4, <4>1, <4>2 DEF HasShape, Distance
      <3> QED  BY <1>1, <1>5, <3>2, <3>5, <3>6, <3>7, <3>8
    <2> QED  BY <2>2, <2>3
  <1> QED  BY <1>3, <1>4, <1>5 DEF Zooms

-----------------------------------------------------------------------------
(* The texture of the graphics path, on one axis: a picture of length vl in *)
(* the middle of a display of length wl.                                    *)

\* n of vl as whole pixels of wl, and those as parts of C: not far from n of vl.
LEMMA StartIsNear ==
  ASSUME NEW n \in Nat, NEW wl \in Nat, wl > 0, NEW vl \in Nat, vl > 0, NEW C \in Nat,
         NEW a, a = (n * wl) \div vl, NEW k, k = (a * C) \div wl,
         NEW e, e = (n * C) \div vl, NEW g, g = C \div wl
  PROVE  a >= 0 /\ k \in Int /\ e \in Int /\ k <= e /\ e <= k + g + 1
  <1>1. n * wl \in Int /\ n * C \in Int
    OBVIOUS
  <1>2. /\ a \in Int /\ vl * a <= n * wl /\ n * wl < vl * a + vl
        /\ e \in Int /\ vl * e <= n * C /\ n * C < vl * e + vl
        /\ g \in Int /\ wl * g <= C /\ C < wl * g + wl
    BY <1>1, Division
  <1>3. k \in Int /\ wl * k <= a * C /\ a * C < wl * k + wl
    BY <1>2, Division
  <1>4. k <= e
    <2>1. vl * (wl * k) <= vl * (a * C)  BY <1>2, <1>3
    <2>2. C * (vl * a) <= C * (n * wl)  BY <1>1, <1>2
    <2>3. wl * (vl * k) <= wl * (n * C)  BY <1>2, <1>3, <2>1, <2>2
    <2>4. vl * k <= n * C  BY <1>1, <1>3, <2>3, Smaller
    <2>5. vl * k < vl * (e + 1)  BY <1>1, <1>2, <1>3, <2>4, OneLess
    <2>6. k < e + 1  BY <1>2, <1>3, <2>5, Smaller
    <2> QED  BY <1>2, <1>3, <2>6
  <1>5. e <= k + g + 1
    <2>1. wl * (vl * e) <= wl * (n * C)  BY <1>1, <1>2
    <2>2. C * (n * wl) <= C * (vl * a + vl)  BY <1>1, <1>2
    <2>3. vl * (wl * e) <= vl * (a * C + C)  BY <1>2, <2>1, <2>2
    <2>4. wl * e <= a * C + C  BY <1>2, <2>3, Smaller
    <2>5. wl * e < wl * (k + g + 2)  BY <1>2, <1>3, <2>4
    <2>6. e < k + g + 2  BY <1>2, <1>3, <2>5, Smaller
    <2> QED  BY <1>2, <1>3, <2>6
  <1>6. a >= 0
    <2>1. vl * (-1) < vl * a  BY <1>1, <1>2
    <2> QED  BY <1>2, <2>1, Smaller
  <1> QED  BY <1>2, <1>3, <1>4, <1>5, <1>6

\* So is the length between two of them.
LEMMA LengthIsNear ==
  ASSUME NEW n \in Nat, NEW wl \in Nat, wl > 0, NEW vl \in Nat, vl > 0, NEW C \in Nat,
         NEW a, a = (n * wl) \div vl, NEW b, b = ((n + wl) * wl) \div vl, NEW c, c = b - a,
         NEW k, k = (c * C) \div wl, NEW e, e = (wl * C) \div vl, NEW g, g = C \div wl
  PROVE  /\ b >= 0 /\ c \in Int /\ c >= 0 /\ k \in Int /\ e \in Int
         /\ k <= e + g + 1 /\ e <= k + g + 1
  <1>1. n * wl \in Int /\ wl * C \in Int /\ (n + wl) * wl \in Int /\ (n + wl) * wl = n * wl + wl * wl
    OBVIOUS
  <1>2. /\ a \in Int /\ vl * a <= n * wl /\ n * wl < vl * a + vl
        /\ b \in Int /\ vl * b <= (n + wl) * wl /\ (n + wl) * wl < vl * b + vl
        /\ e \in Int /\ vl * e <= wl * C /\ wl * C < vl * e + vl
        /\ g \in Int /\ wl * g <= C /\ C < wl * g + wl
    BY <1>1, Division
  <1>3. c \in Int /\ k \in Int /\ wl * k <= c * C /\ c * C < wl * k + wl
    BY <1>2, Division
  <1>4. vl * c = vl * b - vl * a
    BY <1>2
  <1>5. /\ wl * wl \in Nat
        /\ vl * c <= wl * wl + vl /\ wl * wl <= vl * c + vl
    BY <1>1, <1>2, <1>3, <1>4
  <1>6. c >= 0
    <2>1. vl * a < vl * (b + 1)
      BY <1>1, <1>2, <1>5, OneLess
    <2>2. a < b + 1
      BY <1>2, <2>1, Smaller
    <2> QED  BY <1>2, <2>2
  <1>7. k <= e + g + 1
    <2>1. vl * (wl * k) <= vl * (c * C)  BY <1>3
    <2>2. C * (vl * c) <= C * (wl * wl + vl)  BY <1>3, <1>5
    <2>3. wl * (wl * C) <= wl * (vl * e + vl)  BY <1>1, <1>2
    <2>4. vl * (wl * k) <= vl * (wl * e + wl + C)  BY <1>2, <1>3, <2>1, <2>2, <2>3
    <2>5. wl * k <= wl * e + wl + C  BY <1>2, <1>3, <2>4, Smaller
    <2>6. wl * k < wl * (e + g + 2)  BY <1>2, <1>3, <2>5
    <2>7. k < e + g + 2  BY <1>2, <1>3, <2>6, Smaller
    <2> QED  BY <1>2, <1>3, <2>7
  <1>8. e <= k + g + 1
    <2>1. wl * (vl * e) <= wl * (wl * C)  BY <1>1, <1>2
    <2>2. C * (wl * wl) <= C * (vl * c + vl)  BY <1>3, <1>5
    <2>3. vl * (c * C) <= vl * (wl * k + wl)  BY <1>3
    <2>4. vl * (wl * e) <= vl * (wl * k + wl + C)  BY <1>2, <1>3, <2>1, <2>2, <2>3
    <2>5. wl * e <= wl * k + wl + C  BY <1>2, <1>3, <2>4, Smaller
    <2>6. wl * e < wl * (k + g + 2)  BY <1>2, <1>3, <2>5
    <2>7. e < k + g + 2  BY <1>2, <1>3, <2>6, Smaller
    <2> QED  BY <1>2, <1>3, <2>7
  <1>9. b >= 0
    <2>1. vl * (-1) < vl * b  BY <1>1, <1>2, <1>5
    <2> QED  BY <1>2, <2>1, Smaller
  <1> QED  BY <1>2, <1>3, <1>6, <1>7, <1>8, <1>9

LEMMA CropIsNear ==
  ASSUME NEW wl \in Nat, wl > 0, NEW vl \in Nat, vl > 0, NEW v, v = Quotient(wl - vl, 2),
         NEW lo, lo = (IF v > 0 THEN v ELSE 0), NEW len, len = Least(v + vl, wl) - lo
  PROVE  /\ NearTo(CropOf(v, vl, 0, wl)[1], lo - v, vl, wl)
         /\ NearTo(CropOf(v, vl, 0, wl)[2], len, vl, wl)
  <1> DEFINE C == CropDenom
             g == C \div wl
  <1>1. C \in Nat /\ C \div wl \in Int /\ C \div wl >= 0
    BY CropAssumption
  <1>2. CASE vl <= wl
    <2>1. v \in Int /\ v >= 0 /\ v + vl <= wl
      BY <1>2 DEF Quotient
    <2>2. lo - v = 0 /\ len = vl
      BY <2>1 DEF Least
    <2>3. CropOf(v, vl, 0, wl) = [i \in 1..2 |-> Quotient(<<0, wl>>[i] * C, wl)]
      BY <2>1 DEF CropOf
    <2>4. /\ CropOf(v, vl, 0, wl)[1] = Quotient(0 * C, wl)
          /\ CropOf(v, vl, 0, wl)[2] = Quotient(wl * C, wl)
      BY <2>3
    <2>5. Quotient(0 * C, wl) = 0
      BY <1>1 DEF Quotient
    <2>6. Quotient(wl * C, wl) = C /\ (vl * C) \div vl = C /\ (0 * C) \div vl = 0
      <3>1. ASSUME NEW d \in Nat, d > 0 PROVE (d * C) \div d = C
        <4>1. (d * C) % d = 0 /\ d * C \in Int /\ d * C >= 0  BY <1>1, <3>1
        <4>2. d * ((d * C) \div d) = d * C /\ (d * C) \div d \in Int  BY <3>1, <4>1, Even
        <4> QED  BY <1>1, <3>1, <4>2, Smaller
      <3>2. wl * C >= 0  BY <1>1
      <3>3. (0 * C) \div vl = 0  BY <1>1
      <3> QED  BY <3>1, <3>2, <3>3 DEF Quotient
    <2> QED  BY <1>1, <2>2, <2>4, <2>5, <2>6 DEF NearTo, Distance
  <1>3. CASE vl > wl
    <2> DEFINE n == -v
               a == (n * wl) \div vl
               b == ((n + wl) * wl) \div vl
    <2>1. v \in Int /\ v <= 0 /\ v + vl > wl /\ n \in Nat
      BY <1>3 DEF Quotient
    <2>2. lo - v = n /\ len = wl
      BY <2>1 DEF Least
    <2>3. n * wl >= 0 /\ (n + wl) * wl >= 0 /\ n * wl \in Int /\ (n + wl) * wl \in Int
          /\ 0 + wl - v = n + wl /\ 0 - v = n
      BY <2>1
    <2>4. Quotient(n * wl, vl) = a /\ Quotient((n + wl) * wl, vl) = b
      BY <2>3 DEF Quotient
    <2>5. CropOf(v, vl, 0, wl) = [i \in 1..2 |-> Quotient(<<a, b - a>>[i] * C, wl)]
      BY <2>1, <2>3, <2>4 DEF CropOf
    <2> HIDE DEF a, b
    <2>6. /\ CropOf(v, vl, 0, wl)[1] = Quotient(a * C, wl)
          /\ CropOf(v, vl, 0, wl)[2] = Quotient((b - a) * C, wl)
      BY <2>5
    <2>7. /\ a \in Int /\ a >= 0 /\ (a * C) \div wl \in Int /\ (n * C) \div vl \in Int
          /\ (a * C) \div wl <= (n * C) \div vl
          /\ (n * C) \div vl <= (a * C) \div wl + g + 1
      <3> HIDE DEF C, n, g
      <3>1. a = (n * wl) \div vl /\ g = C \div wl
        BY DEF a, g
      <3>2. a \in Int
        BY <1>1, <2>3, <3>1, Division
      <3> QED  BY <1>1, <2>1, <3>1, <3>2, StartIsNear
    <2>8. /\ b \in Int /\ b - a >= 0 /\ ((b - a) * C) \div wl \in Int /\ (wl * C) \div vl \in Int
          /\ ((b - a) * C) \div wl <= (wl * C) \div vl + g + 1
          /\ (wl * C) \div vl <= ((b - a) * C) \div wl + g + 1
      <3> HIDE DEF C, n, g
      <3>1. a = (n * wl) \div vl /\ b = ((n + wl) * wl) \div vl /\ g = C \div wl
        BY DEF a, b, g
      <3>2. b \in Int
        BY <2>3, <3>1, Division
      <3> QED  BY <1>1, <2>1, <3>1, <3>2, LengthIsNear
    <2>9. a * C >= 0 /\ (b - a) * C >= 0
      BY <1>1, <2>7, <2>8
    <2>10. /\ CropOf(v, vl, 0, wl)[1] = (a * C) \div wl
           /\ CropOf(v, vl, 0, wl)[2] = ((b - a) * C) \div wl
      BY <2>6, <2>9 DEF Quotient
    <2> QED  BY <1>1, <2>2, <2>7, <2>8, <2>10 DEF NearTo, Distance
  <1> QED  BY <1>2, <1>3

LEMMA PlaceIsOverlap ==
  ASSUME NEW wl \in Nat, wl > 0, NEW vl \in Nat, vl > 0, NEW v, v = Quotient(wl - vl, 2),
         NEW lo, lo = (IF v > 0 THEN v ELSE 0), NEW len, len = Least(v + vl, wl) - lo
  PROVE  ShownX(v, vl, 0, wl) = <<lo, len>> /\ ShownY(v, vl, 0, wl) = <<lo, len>>
  <1>1. v \in Int /\ (v < 0 => v + vl > wl) /\ (v >= 0 => v + vl <= wl + 1 /\ v <= wl)
    BY DEF Quotient
  <1>2. Start(v, 0) = lo
    BY <1>1 DEF Start
  <1> QED  BY <1>1, <1>2 DEF ShownX, ShownY, Shown, Least

\* setTextureCrop of a picture in the middle of a window that is the display, and not all
\* on it: the texture is cut to the part on the display and shown just there.
THEOREM TextureIsCut ==
  ASSUME NEW W \in Nat, W > 0, NEW H \in Nat, H > 0, NEW d, d = Rect(0, 0, W, H),
         NEW w \in Nat, w > 0, NEW h \in Nat, h > 0, NEW v, v = Centred(d, w, h),
         NEW cut, cut = TextureCrop(v, d, d), NEW seen, seen = Overlap(v, d), Leaves(v, d)
  PROVE  /\ cut.place = seen
         /\ NearTo(cut.cropX[1], seen.x - v.x, v.w, W) /\ NearTo(cut.cropX[2], seen.w, v.w, W)
         /\ NearTo(cut.cropY[1], seen.y - v.y, v.h, H) /\ NearTo(cut.cropY[2], seen.h, v.h, H)
  <1>1. d.x = 0 /\ d.y = 0 /\ d.w = W /\ d.h = H
    BY DEF Rect
  <1>2. v = [x |-> 0 + Quotient(W - w, 2), y |-> 0 + Quotient(H - h, 2), w |-> w, h |-> h]
    BY <1>1 DEF Centred, Rect
  <1>3. Quotient(W - w, 2) \in Int /\ Quotient(H - h, 2) \in Int
    <2>1. W - w \in Int /\ H - h \in Int  OBVIOUS
    <2> QED  BY <2>1, Half
  <1>4. v.x = Quotient(W - w, 2) /\ v.y = Quotient(H - h, 2) /\ v.w = w /\ v.h = h
    BY <1>2, <1>3
  <1>5. cut = [place |-> Rect(ShownX(v.x, v.w, d.x, d.w)[1], ShownY(v.y, v.h, d.y, d.h)[1],
                              ShownX(v.x, v.w, d.x, d.w)[2], ShownY(v.y, v.h, d.y, d.h)[2]),
               cropX |-> CropOf(v.x, v.w, d.x, d.w), cropY |-> CropOf(v.y, v.h, d.y, d.h)]
    BY DEF TextureCrop
  <1> DEFINE lx == IF v.x > 0 THEN v.x ELSE 0
             ly == IF v.y > 0 THEN v.y ELSE 0
             nx == Least(v.x + w, W) - lx
             ny == Least(v.y + h, H) - ly
  <1>6. seen = Rect(lx, ly, nx, ny)
    <2>1. 0 + W = W /\ 0 + H = H  OBVIOUS
    <2> QED  BY <1>1, <1>4, <2>1 DEF Overlap
  <1>7. /\ ShownX(v.x, w, 0, W) = <<lx, nx>> /\ ShownY(v.y, h, 0, H) = <<ly, ny>>
        /\ NearTo(CropOf(v.x, w, 0, W)[1], lx - v.x, w, W) /\ NearTo(CropOf(v.x, w, 0, W)[2], nx, w, W)
        /\ NearTo(CropOf(v.y, h, 0, H)[1], ly - v.y, h, H) /\ NearTo(CropOf(v.y, h, 0, H)[2], ny, h, H)
    BY <1>4, PlaceIsOverlap, CropIsNear
  <1> HIDE DEF lx, ly, nx, ny
  <1>8. seen.x = lx /\ seen.y = ly /\ seen.w = nx /\ seen.h = ny
    BY <1>6 DEF Rect
  <1>9. /\ cut.place = Rect(lx, ly, nx, ny)
        /\ cut.cropX = CropOf(v.x, w, 0, W) /\ cut.cropY = CropOf(v.y, h, 0, H)
    BY <1>1, <1>4, <1>5, <1>7
  <1> QED  BY <1>4, <1>6, <1>7, <1>8, <1>9

-----------------------------------------------------------------------------
(* The requests of MCVideoGeometry. *)

LEMMA DisplayIs == Display \in Rectangles /\ Display = Rect(0, 0, 1920, 1080) /\ Display.w = 1920 /\ Display.h = 1080
  BY DEF Display, Rect, Rectangles

LEMMA WestonRequest ==
  ASSUME NEW r \in Requests, r.plugin = "weston"
  PROVE  /\ r.frame \in Sizes /\ r.scaling \in BOOLEAN
         /\ Destination(r.window, r.render) \in Rectangles
         /\ Destination(r.window, r.render).w >= 0 /\ Destination(r.window, r.render).h >= 0
  <1>1. /\ r.frame \in FrameSizes \cup {Size(0, 0)} /\ r.window \in Windows /\ r.render \in Renders
        /\ r.scaling \in BOOLEAN
    BY DEF Requests
  <1>2. FrameSizes \cup {Size(0, 0)} \subseteq Sizes
    BY DEF FrameSizes, Size, Sizes
  <1>3. \A w \in Windows \cup Renders : w \in Rectangles /\ w.w >= 0 /\ w.h >= 0
    BY DEF Windows, Renders, Display, Rect, Rectangles
  <1>4. r.window \in Rectangles /\ r.render \in Rectangles /\ r.render.w >= 0 /\ r.render.h >= 0
    BY <1>1, <1>3
  <1>5. /\ Destination(r.window, r.render) \in Rectangles
        /\ Destination(r.window, r.render).w >= 0 /\ Destination(r.window, r.render).h >= 0
    BY <1>4 DEF Destination, Rect, Rectangles
  <1> QED  BY <1>1, <1>2, <1>5

LEMMA WesterosRequest ==
  ASSUME NEW r \in Requests, r.plugin = "westeros"
  PROVE  /\ r.forced \in BOOLEAN /\ r.override \in BOOLEAN /\ r.xform \in {Identity, Corner}
         /\ ZoomOf(r.zoom, r.frame) \in Zooms
         /\ LET c == Content(r.frame, r.pixel) IN c \in Sizes /\ c.w > 0 /\ c.h > 0
  <1>1. /\ r.frame \in FrameSizes /\ r.pixel \in Pixels /\ r.zoom \in Zooms
        /\ r.forced \in BOOLEAN /\ r.override \in BOOLEAN /\ r.xform \in {Identity, Corner}
    BY DEF Requests
  <1>2. \A f \in FrameSizes : f.w \in Nat /\ f.h \in Nat /\ f.w > 0 /\ f.h > 0
    BY DEF FrameSizes, Size
  <1>3. \A p \in Pixels : p[1] \in Nat /\ p[2] \in Nat /\ p[1] > 0 /\ p[2] > 0
    BY DEF Pixels
  <1>4. ASSUME NEW a \in Nat, NEW b \in Nat, a > 0, b > 0 PROVE a * b \in Nat /\ a * b > 0
    BY <1>4
  <1>5. LET c == Content(r.frame, r.pixel) IN c \in Sizes /\ c.w > 0 /\ c.h > 0
    BY <1>1, <1>2, <1>3, <1>4 DEF Content, Sizes
  <1>6. ZoomOf(r.zoom, r.frame) \in Zooms
    BY <1>1 DEF ZoomOf, Zooms
  <1> QED  BY <1>1, <1>5, <1>6

\* Of the display, the compositor shows all, or all in a quarter of it.
LEMMA DisplayIsPlaced ==
  ASSUME NEW r \in Requests, r.plugin = "westeros", r.window = Display
  PROVE  VideoOf(r) \in {Rect(0, 0, 1920, 1080), Rect(960, 540, 960, 540)}
  <1>1. r.override \in BOOLEAN /\ r.xform \in {Identity, Corner}
    BY WesterosRequest
  <1> DEFINE t == r.xform
  <1>2. /\ t.out.w = 1920 /\ t.out.h = 1080 /\ t.numX = 1 /\ t.numY = 1
        /\ \/ t.x = 0 /\ t.y = 0 /\ t.denomX = 1 /\ t.denomY = 1
           \/ t.x = 960 /\ t.y = 540 /\ t.denomX = 2 /\ t.denomY = 2
    BY <1>1 DEF Identity, Corner, Size
  <1>3. (IF r.override THEN r.window ELSE Rect(0, 0, t.out.w, t.out.h)) = Rect(0, 0, 1920, 1080)
    BY <1>2 DEF Display
  <1>4. VideoOf(r) = Rect(Quotient(0 * t.numX, t.denomX) + t.x, Quotient(0 * t.numY, t.denomY) + t.y,
                          Quotient(1920 * t.numX, t.denomX), Quotient(1080 * t.numY, t.denomY))
    BY <1>3 DEF VideoOf, VideoPosition, Rect
  <1>5. /\ Quotient(0 * 1, 1) + 0 = 0 /\ Quotient(1920 * 1, 1) = 1920 /\ Quotient(1080 * 1, 1) = 1080
        /\ Quotient(0 * 1, 2) + 960 = 960 /\ Quotient(0 * 1, 2) + 540 = 540
        /\ Quotient(1920 * 1, 2) = 960 /\ Quotient(1080 * 1, 2) = 540
    BY DEF Quotient
  <1> QED  BY <1>2, <1>4, <1>5

\* What getVideoBounds gives is in the middle; of a window that is the display it
\* is a picture of some size.
LEMMA ZoomIsCentred ==
  ASSUME NEW zoom \in Zooms, NEW c \in Sizes, c.w > 0, c.h > 0, NEW p, NEW v \in ZoomRects(zoom, c, Display, p),
         zoom \notin {"none", "direct", "normal"}
  PROVE  \E w, h \in Nat : w > 0 /\ h > 0 /\ v = Centred(Display, w, h)
  <1>1. c.w \in Nat /\ c.h \in Nat /\ Display.w = 1920 /\ Display.h = 1080
    BY DisplayIs DEF Sizes
  <1>2. CASE zoom \in {"16_9_stretch", "4_3_pillarbox"}
    <2>1. \A w \in Truncated(64 * 1080, 27) : w \in Nat /\ w > 0
      BY DEF Truncated
    <2>2. (16 * 1080) \div 9 = 1920 /\ (4 * 1080) \div 3 = 1440
      OBVIOUS
    <2>3. CASE zoom = "16_9_stretch"
      BY <1>1, <2>1, <2>2, <2>3 DEF ZoomRects
    <2>4. CASE zoom = "4_3_pillarbox"
      BY <1>1, <2>2, <2>4 DEF ZoomRects
    <2> QED  BY <1>2, <2>3, <2>4
  <1>3. CASE zoom = "zoom"
    <2>1. \E w, h \in Int : v = Centred(Display, w, h)
      <3>1. CASE \E wide \in FillsWidth(c, Display, p) : ~wide /\ v \in FullWidth(c, Display)
        <4>1. Display.w * c.h \in Int  BY <1>1
        <4>2. Truncated(Display.w * c.h, c.w) \subseteq Int  BY <1>1, <4>1, Truncation
        <4>3. PICK h \in Truncated(Display.w * c.h, c.w) : v = Centred(Display, Display.w, h)
          BY <3>1 DEF FullWidth
        <4> QED  BY <1>1, <4>2, <4>3
      <3>2. CASE \E h \in Truncated(4 * 1080, 3) \cup {1080} : \E w \in Truncated(c.w * h, c.h) : v = Centred(Display, w, h)
        <4>1. PICK h \in Truncated(4 * 1080, 3) \cup {1080} : \E w \in Truncated(c.w * h, c.h) : v = Centred(Display, w, h)
          BY <3>2
        <4>2. h \in Int  BY <4>1, LargerIsLarger
        <4>3. c.w * h \in Int  BY <1>1, <4>2
        <4>4. Truncated(c.w * h, c.h) \subseteq Int  BY <1>1, <4>3, Truncation
        <4> QED  BY <4>1, <4>2, <4>4
      <3> QED  BY <1>1, <1>3, <3>1, <3>2 DEF ZoomRects
    <2>2. PICK w \in Int, h \in Int : v = Centred(Display, w, h)
      BY <2>1
    <2>3. v.w = w /\ v.h = h
      BY <2>2, DisplayIs, CentredFits
    <2>4. v.w >= 1919 /\ v.h >= 1079
      BY <1>1, <1>3, <2>2, <2>3, DisplayIs, PictureFitsVideo
    <2> QED  BY <2>2, <2>3, <2>4
  <1> QED  BY <1>2, <1>3 DEF Zooms

RequestInv ==
    /\ request \in Requests
    /\ picture # None =>
          /\ request.plugin = "weston" =>
                picture \in CenterRects(request.frame, Destination(request.window, request.render),
                                        request.render, request.scaling)
          /\ request.plugin = "westeros" => picture \in BoundsOf(request, VideoOf(request))
    /\ texture # None =>
          /\ request.plugin = "westeros"
          /\ \E v \in BoundsOf(request, request.window) :
                texture = [video |-> v, cut |-> TextureCrop(v, request.window, Display)]

THEOREM RequestInvariance == Spec => []RequestInv
  <1>1. Init => RequestInv
    BY DEF Init, RequestInv
  <1>2. RequestInv /\ [Next]_vars => RequestInv'
    <2> SUFFICES ASSUME RequestInv, [Next]_vars PROVE RequestInv'
      OBVIOUS
    <2>1. CASE ResizeVideoSurface
      BY <2>1 DEF ResizeVideoSurface, RequestInv
    <2>2. CASE ShowFrame
      BY <2>2 DEF ShowFrame, RequestInv
    <2>3. CASE UNCHANGED vars
      BY <2>3 DEF vars, RequestInv
    <2> QED  BY <2>1, <2>2, <2>3 DEF Next
  <1> QED  BY <1>1, <1>2, PTL DEF Spec

\* The pictures, and the textures, of any request.
THEOREM PicturesFit == Spec => [](WestonShowsWhole /\ ZoomKeepsShape /\ TextureShowsOverlap)
  <1>1. RequestInv => WestonShowsWhole
    <2> SUFFICES ASSUME RequestInv, picture # None, request.plugin = "weston" PROVE WestonShowsWhole
      BY DEF WestonShowsWhole
    <2>1. picture \in CenterRects(request.frame, Destination(request.window, request.render),
                                  request.render, request.scaling)
      BY DEF RequestInv
    <2> QED  BY <2>1, WestonRequest, PictureFitsDestination DEF RequestInv, WestonShowsWhole
  <1>2. RequestInv => ZoomKeepsShape
    <2> SUFFICES ASSUME RequestInv, picture # None, request.plugin = "westeros",
                        request.window = Display, ~request.forced
                 PROVE  LET video == VideoOf(request)
                            zoom  == ZoomOf(request.zoom, request.frame)
                            c     == Content(request.frame, request.pixel)
                        IN  /\ InMiddle(picture, video)
                            /\ zoom \in {"none", "direct", "normal", "zoom"} => HasShape(picture, c)
                            /\ zoom \in {"none", "direct", "normal"} => Inside(picture, video)
                            /\ zoom = "zoom" => picture.w >= video.w - 1 /\ picture.h >= video.h - 1
      BY DEF ZoomKeepsShape
    <2>1. picture \in ZoomRects(ZoomOf(request.zoom, request.frame), Content(request.frame, request.pixel),
                                VideoOf(request), request.pixel)
      BY DEF RequestInv, BoundsOf, VideoBounds
    <2>2. VideoOf(request) \in Rectangles /\ VideoOf(request).w >= 0 /\ VideoOf(request).h >= 0
      BY DisplayIsPlaced DEF RequestInv, Rect, Rectangles
    <2> QED  BY <2>1, <2>2, WesterosRequest, PictureFitsVideo DEF RequestInv
  <1>3. RequestInv => TextureShowsOverlap
    <2> SUFFICES ASSUME RequestInv, texture # None, request.window = Display, Leaves(texture.video, Display)
                 PROVE  TextureShowsOverlap
      BY DEF TextureShowsOverlap
    <2>1. PICK v \in BoundsOf(request, Display) : texture = [video |-> v, cut |-> TextureCrop(v, Display, Display)]
      BY DEF RequestInv
    <2>2. texture.video = v /\ texture.cut = TextureCrop(v, Display, Display) /\ Leaves(v, Display)
      BY <2>1
    <2>3. v # Display
      BY <2>2, DisplayIs DEF Leaves, Rect
    <2> DEFINE z == ZoomOf(request.zoom, request.frame)
               c == Content(request.frame, request.pixel)
    <2>4. v \in ZoomRects(z, c, Display, request.pixel)
      BY <2>1, <2>3 DEF BoundsOf, VideoBounds
    <2>5. z \in Zooms /\ c \in Sizes /\ c.w > 0 /\ c.h > 0
      BY WesterosRequest DEF RequestInv
    <2>6. z \notin {"none", "direct", "normal"}
      <3>1. v \in Rectangles /\ Inside(v, Display) => ~Leaves(v, Display)
        BY DisplayIs DEF Inside, Leaves, Rect, Rectangles
      <3> QED  BY <2>2, <2>4, <2>5, <3>1, DisplayIs, PictureFitsVideo
    <2>7. PICK w \in Nat, h \in Nat : w > 0 /\ h > 0 /\ v = Centred(Display, w, h)
      BY <2>4, <2>5, <2>6, ZoomIsCentred
    <2> QED  BY <2>2, <2>7, DisplayIs, TextureIsCut DEF TextureShowsOverlap
  <1> QED  BY <1>1, <1>2, <1>3, RequestInvariance, PTL
=============================================================================
