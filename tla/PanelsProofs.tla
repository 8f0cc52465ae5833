----------------------------- MODULE PanelsProofs -----------------------------
(***************************************************************************)
(* Theorems about Panels and HandheldShell, for any number of elements of  *)
(* any size at any place: where openings lie, and that what the summaries  *)
(* count is what is drawn.                                                 *)
(***************************************************************************)
EXTENDS Panels, HandheldShell, DesignValidation, LayoutsProofs

-----------------------------------------------------------------------------
(* Boxes.                                                                  *)

IsBox(b) == b.cx \in Int /\ b.cy \in Int /\ b.w \in Int /\ b.h \in Int

LEMMA TurnsAreIntegers ==
    ASSUME NEW e \in PlacedElementSpec
    PROVE  /\ Cos(e) \in Int /\ Sin(e) \in Int
           /\ Magnitude(Cos(e)) + Magnitude(Sin(e)) >= 1000
<1>1. e.rot \in Int
  BY DEF PlacedElementSpec
<1>2. PICK angle \in 0 .. 359 : angle = e.rot % 360
  BY <1>1
<1>3. Turn[angle] \in (-Scale .. Scale) \X (-Scale .. Scale)
  BY TurnAssumption
<1>4. PICK c, s \in -Scale .. Scale : Turn[angle] = <<c, s>>
  BY <1>3
<1>5. Cos(e) = c /\ Sin(e) = s
  BY <1>2, <1>4 DEF Cos, Sin
<1>6. Magnitude(c) + Magnitude(s) >= 1000
  <2>1. Magnitude(Turn[angle][1]) + Magnitude(Turn[angle][2]) >= Scale
    BY TurnAssumption
  <2>2. Turn[angle][1] = c /\ Turn[angle][2] = s
    BY <1>4
  <2> QED
    BY <2>1, <2>2 DEF Scale
<1>7. c \in Int /\ s \in Int
  BY <1>4 DEF Scale
<1> QED
  BY <1>5, <1>6, <1>7

LEMMA QuarterTurns ==
    /\ Turn[0][1] = 1000 /\ Turn[0][2] = 0 /\ Turn[90][1] = 0 /\ Turn[90][2] = 1000
    /\ Turn[180][1] = -1000 /\ Turn[180][2] = 0 /\ Turn[270][1] = 0 /\ Turn[270][2] = -1000
<1>1. /\ Turn[0] = <<Scale, 0>> /\ Turn[90] = <<0, Scale>>
      /\ Turn[180] = <<-Scale, 0>> /\ Turn[270] = <<0, -Scale>>
  BY TurnAssumption
<1>2. \A c, s : <<c, s>>[1] = c /\ <<c, s>>[2] = s
  OBVIOUS
<1>3. Turn[0][1] = Scale /\ Turn[0][2] = 0
  BY ONLY <1>1, <1>2
<1>4. Turn[90][1] = 0 /\ Turn[90][2] = Scale
  BY ONLY <1>1, <1>2
<1>5. Turn[180][1] = -Scale /\ Turn[180][2] = 0
  BY ONLY <1>1, <1>2
<1>6. Turn[270][1] = 0 /\ Turn[270][2] = -Scale
  BY ONLY <1>1, <1>2
<1> QED
  BY <1>3, <1>4, <1>5, <1>6 DEF Scale

LEMMA MagnitudeOf ==
    ASSUME NEW n \in Int
    PROVE  Magnitude(n) \in Nat /\ n <= Magnitude(n) /\ -n <= Magnitude(n)
           /\ (Magnitude(n) = n \/ Magnitude(n) = -n)
  BY DEF Magnitude, AtLeast

LEMMA ScaledOrder ==
    ASSUME NEW a \in Int, NEW b \in Int, NEW c \in Nat, a <= b
    PROVE  c * a <= c * b
<1>1. PICK d \in Nat : b = a + d
  <2>1. b - a \in Nat /\ b = a + (b - a)
    OBVIOUS
  <2> QED
    BY <2>1
<1>2. c * b = c * a + c * d /\ c * d \in Nat /\ c * a \in Int
  BY <1>1
<1> QED
  BY ONLY <1>2

\* What is within a side is within it along either axis of a turned element.
LEMMA TurnedWithin ==
    ASSUME NEW c \in Int, NEW size \in Nat, size = Magnitude(c),
           NEW d \in Int, NEW w \in Int, NEW side \in Int, d + w <= side, w - d <= side
    PROVE  /\ size * w + d * c <= size * side
           /\ size * w - d * c <= size * side
<1>1. size * (d + w) <= size * side /\ size * (w - d) <= size * side
  BY ScaledOrder
<1>2. size * (d + w) = size * d + size * w /\ size * (w - d) = size * w - size * d
  OBVIOUS
<1>3. size = c \/ size = -c
  BY MagnitudeOf
<1>4. d * c = size * d \/ d * c = -(size * d)
  BY <1>3
<1>5. size * d \in Int /\ size * w \in Int /\ size * side \in Int /\ d * c \in Int
  OBVIOUS
<1> QED
  BY ONLY <1>1, <1>2, <1>4, <1>5

LEMMA BodySizes ==
    ASSUME NEW e \in PlacedElementSpec
    PROVE  /\ Scale * (2 * e.x + e.w) \in Int /\ Scale * (2 * e.y + e.h) \in Int
           /\ Body(e).cx = Scale * (2 * e.x + e.w)
           /\ Body(e).cy = Scale * (2 * e.y + e.h)
           /\ Body(e).w = Magnitude(e.w) * Magnitude(Cos(e)) + Magnitude(e.h) * Magnitude(Sin(e))
           /\ Body(e).h = Magnitude(e.h) * Magnitude(Cos(e)) + Magnitude(e.w) * Magnitude(Sin(e))
<1>1. e.x \in Int /\ e.y \in Int /\ e.w \in Int /\ e.h \in Int
  BY DEF PlacedElementSpec
<1>2. PICK x \in Int, y \in Int : x = Scale * (2 * e.x + e.w) /\ y = Scale * (2 * e.y + e.h)
  BY <1>1 DEF Scale
<1>3. PICK c \in Int, s \in Int : c = Cos(e) /\ s = Sin(e)
  BY TurnsAreIntegers
<1>4. x + 0 * c - 0 * s = x /\ y + 0 * s + 0 * c = y
  OBVIOUS
<1>5. CenterX(e, 0, 0) = x /\ CenterY(e, 0, 0) = y
  BY <1>2, <1>3, <1>4 DEF CenterX, CenterY
<1> QED
  BY <1>2, <1>5 DEF Body, Box, Opening, Reach

LEMMA BodyIsBox ==
    ASSUME NEW e \in PlacedElementSpec
    PROVE  IsBox(Body(e))
<1>1. e.w \in Int /\ e.h \in Int
  BY DEF PlacedElementSpec
<1>2. PICK c \in Nat, s \in Nat, w \in Nat, h \in Nat :
          /\ c = Magnitude(Cos(e)) /\ s = Magnitude(Sin(e))
          /\ w = Magnitude(e.w) /\ h = Magnitude(e.h)
  BY <1>1, TurnsAreIntegers, MagnitudeOf
<1>3. w * c + h * s \in Int /\ h * c + w * s \in Int
  OBVIOUS
<1> QED
  BY <1>2, <1>3, BodySizes DEF IsBox

\* What keeps inside the element's sides before it is turned does so after.
LEMMA BoxInside ==
    ASSUME NEW e \in PlacedElementSpec, NEW part, NEW dx \in Int, NEW dy \in Int,
           NEW w \in Int, NEW h \in Int,
           dx + w <= e.w, w - dx <= e.w, dy + h <= e.h, h - dy <= e.h
    PROVE  LET b == Box(e, part, dx, dy, w, h)
           IN  IsBox(b) /\ Inside(b, Body(e)) /\ b.part = part /\ b.layer = "Cutouts"
<1>1. e.w \in Int /\ e.h \in Int
  BY DEF PlacedElementSpec
<1>2. PICK c \in Int, s \in Int : c = Cos(e) /\ s = Sin(e)
  BY TurnsAreIntegers
<1>3. PICK cs \in Nat, ss \in Nat : cs = Magnitude(c) /\ ss = Magnitude(s)
  BY MagnitudeOf
<1>4. PICK W \in Int, H \in Int :
          /\ W = Magnitude(e.w) /\ H = Magnitude(e.h)
          /\ dx + w <= W /\ w - dx <= W /\ dy + h <= H /\ h - dy <= H
  <2>1. e.w <= Magnitude(e.w) /\ e.h <= Magnitude(e.h)
        /\ Magnitude(e.w) \in Int /\ Magnitude(e.h) \in Int
    BY <1>1, MagnitudeOf
  <2>2. \A n \in Int, a \in Int, m \in Int : n <= a /\ a <= m => n <= m
    OBVIOUS
  <2>3. dx + w \in Int /\ w - dx \in Int /\ dy + h \in Int /\ h - dy \in Int
    OBVIOUS
  <2> QED
    BY <1>1, <2>1, <2>2, <2>3
<1>5. PICK b, body : b = Box(e, part, dx, dy, w, h) /\ body = Body(e)
  OBVIOUS
<1>6. PICK x \in Int, y \in Int :
          /\ x = Scale * (2 * e.x + e.w) /\ y = Scale * (2 * e.y + e.h)
          /\ body.cx = x /\ body.cy = y
          /\ body.w = W * cs + H * ss /\ body.h = H * cs + W * ss
  BY <1>2, <1>3, <1>4, <1>5, BodySizes
<1>7. /\ b.cx = x + dx * c - dy * s /\ b.cy = y + dx * s + dy * c
      /\ b.w = w * cs + h * ss /\ b.h = h * cs + w * ss
      /\ b.part = part /\ b.layer = "Cutouts"
  BY <1>2, <1>3, <1>5, <1>6 DEF Box, Opening, CenterX, CenterY, Reach
<1>8. /\ cs * w + dx * c <= cs * W /\ cs * w - dx * c <= cs * W
      /\ ss * w + dx * s <= ss * W /\ ss * w - dx * s <= ss * W
      /\ cs * h + dy * c <= cs * H /\ cs * h - dy * c <= cs * H
      /\ ss * h + dy * s <= ss * H /\ ss * h - dy * s <= ss * H
  BY ONLY <1>2, <1>3, <1>4, TurnedWithin, dx \in Int, dy \in Int, w \in Int, h \in Int
<1>9. PICK a1, a2, a3, a4, w1, w2, h1, h2, W1, W2, H1, H2 \in Int :
          /\ a1 = dx * c /\ a2 = dx * s /\ a3 = dy * c /\ a4 = dy * s
          /\ w1 = cs * w /\ w2 = ss * w /\ h1 = cs * h /\ h2 = ss * h
          /\ W1 = cs * W /\ W2 = ss * W /\ H1 = cs * H /\ H2 = ss * H
  <2>1. \A m, n \in Int : m * n \in Int
    OBVIOUS
  <2> QED
    BY <2>1
<1>10. /\ b.cx = x + a1 - a4 /\ b.cy = y + a2 + a3 /\ b.w = w1 + h2 /\ b.h = h1 + w2
       /\ body.w = W1 + H2 /\ body.h = H1 + W2
  <2>1. \A m, n \in Int : m * n = n * m
    OBVIOUS
  <2> QED
    BY <1>6, <1>7, <1>9, <2>1
<1>11. /\ w1 + a1 <= W1 /\ w1 - a1 <= W1 /\ w2 + a2 <= W2 /\ w2 - a2 <= W2
       /\ h1 + a3 <= H1 /\ h1 - a3 <= H1 /\ h2 + a4 <= H2 /\ h2 - a4 <= H2
  BY ONLY <1>8, <1>9
<1>12. IsBox(b)
  BY <1>10 DEF IsBox
<1>13. Inside(b, body)
  <2>1. PICK bx, by, bw, bh, Bw, Bh \in Int :
            /\ bx = b.cx /\ by = b.cy /\ bw = b.w /\ bh = b.h /\ Bw = body.w /\ Bh = body.h
            /\ bx = x + a1 - a4 /\ by = y + a2 + a3 /\ bw = w1 + h2 /\ bh = h1 + w2
            /\ Bw = W1 + H2 /\ Bh = H1 + W2
    BY <1>10
  <2>2. /\ x - Bw <= bx - bw /\ bx + bw <= x + Bw
        /\ y - Bh <= by - bh /\ by + bh <= y + Bh
    BY ONLY <1>11, <2>1, x \in Int, y \in Int
  <2> QED
    BY <1>6, <2>1, <2>2 DEF Inside
<1> QED
  BY <1>5, <1>7, <1>12, <1>13

\* So does a circle, whose centre alone is turned: a direction is never shorter than
\* its two steps together, so the element is nowhere narrower than its shorter side.
LEMMA BoreInside ==
    ASSUME NEW e \in PlacedElementSpec, NEW part, NEW dx \in Int, NEW dy \in Int,
           NEW d \in Nat,
           dx + d <= e.w, d - dx <= e.w, dy + d <= e.h, d - dy <= e.h
    PROVE  LET b == Bore(e, part, dx, dy, d)
           IN  IsBox(b) /\ Inside(b, Body(e)) /\ b.part = part /\ b.layer = "Cutouts"
<1>1. PICK b, square, body : /\ b = Bore(e, part, dx, dy, d)
                             /\ square = Box(e, part, dx, dy, d, d) /\ body = Body(e)
  OBVIOUS
<1>2. IsBox(square) /\ Inside(square, body) /\ IsBox(body)
  BY <1>1, BoxInside, BodyIsBox
<1>3. b.cx = square.cx /\ b.cy = square.cy /\ b.w = 1000 * d /\ b.h = 1000 * d
      /\ b.part = part /\ b.layer = "Cutouts"
  BY <1>1 DEF Bore, Box, Opening, Scale
<1>4. PICK n \in Nat : n = Magnitude(Cos(e)) + Magnitude(Sin(e)) /\ n >= 1000
                       /\ square.w = d * n /\ square.h = d * n
  <2>1. PICK p \in Nat, q \in Nat : p = Magnitude(Cos(e)) /\ q = Magnitude(Sin(e)) /\ p + q >= 1000
    BY TurnsAreIntegers, MagnitudeOf
  <2>2. square.w = d * p + d * q /\ square.h = d * p + d * q
    BY <1>1, <2>1 DEF Box, Opening, Reach
  <2>3. d * p + d * q = d * (p + q) /\ p + q \in Nat
    OBVIOUS
  <2> QED
    BY <2>1, <2>2, <2>3
<1>5. PICK far \in Int, near \in Int : far = d * n /\ near = 1000 * d /\ near <= far
  <2>1. d * 1000 <= d * n
    BY <1>4, ScaledOrder
  <2>2. d * 1000 = 1000 * d /\ d * n \in Int /\ 1000 * d \in Int
    OBVIOUS
  <2> QED
    BY <2>1, <2>2
<1>6. PICK cx \in Int, cy \in Int, x \in Int, y \in Int, w \in Int, h \in Int :
          /\ square.cx = cx /\ square.cy = cy
          /\ body.cx = x /\ body.cy = y /\ body.w = w /\ body.h = h
          /\ x - w <= cx - far /\ cx + far <= x + w /\ y - h <= cy - far /\ cy + far <= y + h
  <2>1. /\ square.cx \in Int /\ square.cy \in Int
        /\ body.cx \in Int /\ body.cy \in Int /\ body.w \in Int /\ body.h \in Int
    BY <1>2 DEF IsBox
  <2>2. square.w = far /\ square.h = far
    BY <1>4, <1>5
  <2>3. /\ body.cx - body.w <= square.cx - far /\ square.cx + far <= body.cx + body.w
        /\ body.cy - body.h <= square.cy - far /\ square.cy + far <= body.cy + body.h
    BY <1>2, <2>2 DEF Inside
  <2> QED
    BY <2>1, <2>3
<1>7. /\ x - w <= cx - near /\ cx + near <= x + w
      /\ y - h <= cy - near /\ cy + near <= y + h
  BY ONLY <1>5, <1>6
<1>8. b.cx = cx /\ b.cy = cy /\ b.w = near /\ b.h = near
  BY <1>3, <1>5, <1>6
<1>9. IsBox(b) /\ Inside(b, body)
  BY <1>6, <1>7, <1>8 DEF IsBox, Inside
<1> QED
  BY <1>1, <1>3, <1>9

\* And a circle that is not turned at all, when it is inside a square of the shorter side.
LEMMA FixedInside ==
    ASSUME NEW e \in PlacedElementSpec, NEW f \in PlacedElementSpec,
           f.x = e.x, f.y = e.y, f.w = e.w, f.h = e.h, f.rot = 0,
           NEW part, NEW dx \in Int, NEW dy \in Int, NEW d \in Nat,
           NEW side \in Nat, side <= e.w, side <= e.h,
           dx + d <= side, d - dx <= side, dy + d <= side, d - dy <= side
    PROVE  LET b == Bore(f, part, dx, dy, d)
           IN  IsBox(b) /\ Inside(b, Body(e)) /\ b.part = part /\ b.layer = "Cutouts"
<1>1. PICK b, body, hub, x, y :
          /\ b = Bore(f, part, dx, dy, d) /\ body = Body(e) /\ hub = Bore(e, part, 0, 0, side)
          /\ x = Scale * (2 * e.x + e.w) /\ y = Scale * (2 * e.y + e.h)
  OBVIOUS
<1>2. IsBox(hub) /\ Inside(hub, body) /\ IsBox(body) /\ x \in Int /\ y \in Int
  <2>1. 0 + side <= e.w /\ side - 0 <= e.w /\ 0 + side <= e.h /\ side - 0 <= e.h /\ 0 \in Int
    BY DEF PlacedElementSpec
  <2> QED
    BY <1>1, <2>1, BoreInside, BodyIsBox, BodySizes
<1>3. hub.cx = x /\ hub.cy = y /\ hub.w = 1000 * side /\ hub.h = 1000 * side
  <2>1. PICK c \in Int, s \in Int : c = Cos(e) /\ s = Sin(e)
    BY TurnsAreIntegers
  <2>2. x + 0 * c - 0 * s = x /\ y + 0 * s + 0 * c = y
    BY <1>2
  <2> QED
    BY <1>1, <2>1, <2>2 DEF Bore, Opening, CenterX, CenterY, Scale
<1>4. b.cx = x + 1000 * dx /\ b.cy = y + 1000 * dy /\ b.w = 1000 * d /\ b.h = 1000 * d
      /\ b.part = part /\ b.layer = "Cutouts"
  <2>1. 0 % 360 = 0
    OBVIOUS
  <2>2. Cos(f) = 1000 /\ Sin(f) = 0
    BY <2>1, QuarterTurns DEF Cos, Sin
  <2>3. x + dx * 1000 - dy * 0 = x + 1000 * dx /\ y + dx * 0 + dy * 1000 = y + 1000 * dy
    BY <1>2
  <2> QED
    BY <1>1, <2>2, <2>3 DEF Bore, Opening, CenterX, CenterY, Scale
<1>5. IsBox(b) /\ Inside(b, hub)
  BY <1>2, <1>3, <1>4 DEF IsBox, Inside
<1>6. Inside(b, body)
  <2>1. \A p, q, r : IsBox(p) /\ IsBox(q) /\ IsBox(r) /\ Inside(p, q) /\ Inside(q, r) => Inside(p, r)
    BY DEF IsBox, Inside
  <2> QED
    BY <1>2, <1>5, <2>1
<1> QED
  BY <1>1, <1>4, <1>5, <1>6

LEMMA InsideTransitive ==
    ASSUME NEW a, NEW b, NEW c, IsBox(a), IsBox(b), IsBox(c), Inside(a, b), Inside(b, c)
    PROVE  Inside(a, c)
  BY DEF IsBox, Inside

\* Boxes that keep apart keep what is inside them apart.
LEMMA ApartInside ==
    ASSUME NEW a, NEW b, NEW o, NEW p, NEW slack \in Int,
           IsBox(a), IsBox(b), IsBox(o), IsBox(p),
           Inside(o, a), Inside(p, b), ~ Meet(a, b, slack)
    PROVE  ~ Meet(o, p, slack)
  BY DEF IsBox, Inside, Meet

-----------------------------------------------------------------------------
(* Openings are inside the element they are made for.                      *)

LEMMA Sizes ==
    /\ MxCutout = 5600 /\ Mm = 400
    /\ Tenths(72) = 2880 /\ Tenths(24) = 960 /\ Tenths(123) = 4920 /\ Tenths(35) = 1400
    /\ Tenths(22) = 880 /\ Tenths(18) = 720 /\ (665 * Mm) \div 100 = 2660
    /\ DefaultPanel.kerf = 0 /\ DefaultPanel.margin = 3000
    /\ DefaultPanel.holes = TRUE /\ DefaultPanel.stabilizers = TRUE
  BY DEF MxCutout, Mm, Tenths, DefaultPanel

LEMMA OrdinarySize ==
    ASSUME NEW e \in PlacedElementSpec, Ordinary(e)
    PROVE  /\ e.w \in Int /\ e.h \in Int /\ e.w >= 5600 /\ e.h >= 5600
           /\ e.type = "speaker" => e.w >= 6000 /\ e.h >= 6000
<1>1. e.w \in Int /\ e.h \in Int
  BY DEF PlacedElementSpec
<1>2. CASE e.type = "speaker"
  BY <1>1, <1>2 DEF Ordinary, Shorter, AtMost, Mm
<1>3. CASE e.type # "speaker"
  BY <1>1, <1>3 DEF Ordinary, Shorter, AtMost, MxCutout, Mm
<1> QED
  BY <1>1, <1>2, <1>3

\* An opening in the middle of the element and no larger than it.
LEMMA RectInside ==
    ASSUME NEW e \in PlacedElementSpec, NEW w \in Int, NEW h \in Int, w <= e.w, h <= e.h,
           NEW o \in Rect(e, w, h, 0)
    PROVE  IsBox(o) /\ Inside(o, Body(e)) /\ o.part = 0 /\ o.layer = "Cutouts"
<1>1. o = Box(e, 0, 0, 0, w, h)
  BY DEF Rect
<1>2. 0 + w <= e.w /\ w - 0 <= e.w /\ 0 + h <= e.h /\ h - 0 <= e.h /\ 0 \in Int
  BY DEF PlacedElementSpec
<1> QED
  BY <1>1, <1>2, BoxInside

LEMMA CircleInside ==
    ASSUME NEW e \in PlacedElementSpec, NEW d \in Nat, d <= e.w, d <= e.h,
           NEW o \in Circle(e, d)
    PROVE  IsBox(o) /\ Inside(o, Body(e)) /\ o.part = 0 /\ o.layer = "Cutouts"
<1>1. o = Bore(e, 0, 0, 0, d)
  BY DEF Circle
<1>2. 0 + d <= e.w /\ d - 0 <= e.w /\ 0 + d <= e.h /\ d - 0 <= e.h /\ 0 \in Int
  BY DEF PlacedElementSpec
<1> QED
  BY <1>1, <1>2, BoreInside

\* A wire's opening reaches less far than the sides of a control wide enough for it.
LEMMA StabFits ==
    ASSUME NEW width \in Int, StabOffset(width) # 0
    PROVE  StabOffset(width) \in Nat /\ 2 * StabOffset(width) + 2660 <= width
<1>1. /\ (25 * UnitPitch) \div 4 = 47625 /\ 2 * UnitPitch = 15240
      /\ 50 * Mm = 20000 /\ (11938 * Mm) \div 1000 = 4775
  BY DEF UnitPitch, Mm
<1>2. CASE width = 47625
  BY <1>1, <1>2 DEF StabOffset
<1>3. CASE width # 47625
  <2>1. StabOffset(width) = IF width >= 15240 THEN 4775 ELSE 0
    BY <1>1, <1>3 DEF StabOffset
  <2> QED
    BY <2>1
<1> QED
  BY <1>2, <1>3

LEMMA SwitchInside ==
    ASSUME NEW e \in PlacedElementSpec, Ordinary(e), NEW o \in SwitchOpenings(e, DefaultPanel)
    PROVE  IsBox(o) /\ Inside(o, Body(e))
<1>1. e.w \in Int /\ e.h \in Int /\ e.w >= 5600 /\ e.h >= 5600
  BY OrdinarySize
<1>2. CASE o \in Rect(e, MxCutout, MxCutout, 0)
  BY <1>1, <1>2, Sizes, RectInside
<1>3. CASE o \notin Rect(e, MxCutout, MxCutout, 0)
  <2>1. /\ StabOffset(e.w) # 0
        /\ \E sign \in {-1, 1} :
               o = Box(e, sign, 2 * sign * StabOffset(e.w), 0,
                       (665 * Mm) \div 100 + 0, Tenths(123) + 0)
    BY <1>3, Sizes DEF SwitchOpenings, StabOpening, Stabilized
  <2>2. PICK sign \in {-1, 1} :
            o = Box(e, sign, 2 * sign * StabOffset(e.w), 0,
                    (665 * Mm) \div 100 + 0, Tenths(123) + 0)
    BY <2>1
  <2>3. PICK far \in Nat : far = StabOffset(e.w) /\ 2 * far + 2660 <= e.w
    BY <1>1, <2>1, StabFits
  <2>4. PICK dx \in Int : dx = 2 * sign * far /\ dx + 2660 <= e.w /\ 2660 - dx <= e.w
    BY <1>1, <2>3
  <2>5. o = Box(e, sign, dx, 0, 2660, 4920)
    BY <2>2, <2>3, <2>4, Sizes
  <2>6. 0 + 4920 <= e.h /\ 4920 - 0 <= e.h
    BY <1>1
  <2> QED
    BY <2>4, <2>5, <2>6, BoxInside
<1> QED
  BY <1>2, <1>3

LEMMA ButtonInside ==
    ASSUME NEW e \in PlacedElementSpec, Ordinary(e), NEW o \in ButtonOpening(e, 0)
    PROVE  IsBox(o) /\ Inside(o, Body(e))
<1>1. e.w \in Int /\ e.h \in Int /\ e.w >= 5600 /\ e.h >= 5600
  BY OrdinarySize
<1>2. CASE 10 * Longer(e) >= 13 * Shorter(e)
  <2>1. PICK w \in Int, h \in Int :
            w = AtLeast(e.w - 6 * Mm, 8 * Mm) /\ h = AtLeast(e.h - 4 * Mm, 6 * Mm)
    BY <1>1 DEF AtLeast, Mm
  <2>2. w <= e.w /\ h <= e.h
    BY <1>1, <2>1 DEF AtLeast, Mm
  <2>3. o \in Rect(e, w, h, 0)
    BY <1>2, <2>1 DEF ButtonOpening
  <2> QED
    BY <2>2, <2>3, RectInside
<1>3. CASE ~ (10 * Longer(e) >= 13 * Shorter(e))
  <2>1. PICK d \in Nat : d = AtLeast(Shorter(e) - 7 * Mm, 8 * Mm) + 0
    BY <1>1 DEF AtLeast, AtMost, Shorter, Mm
  <2>2. d <= e.w /\ d <= e.h
    BY <1>1, <2>1 DEF AtLeast, AtMost, Shorter, Mm
  <2>3. o \in Circle(e, d)
    BY <1>3, <2>1 DEF ButtonOpening
  <2> QED
    BY <2>2, <2>3, CircleInside
<1> QED
  BY <1>2, <1>3

LEMMA SliderInside ==
    ASSUME NEW e \in PlacedElementSpec, Ordinary(e), NEW o \in SliderOpening(e, 0)
    PROVE  IsBox(o) /\ Inside(o, Body(e))
<1>1. e.w \in Int /\ e.h \in Int /\ e.w >= 5600 /\ e.h >= 5600
  BY OrdinarySize
<1>2. /\ (2 * e.h) \div 5 \in Int /\ (2 * e.h) \div 5 <= e.h
      /\ (2 * e.w) \div 5 \in Int /\ (2 * e.w) \div 5 <= e.w
  BY <1>1
<1>3. PICK w \in Int, h \in Int : o \in Rect(e, w, h, 0) /\ w <= e.w /\ h <= e.h
  <2>1. CASE e.w >= e.h
    <3>1. PICK w \in Int, h \in Int :
              w = AtLeast(e.w - 8 * Mm, 12 * Mm) /\ h = AtLeast((2 * e.h) \div 5, 6 * Mm)
      BY <1>1, <1>2 DEF AtLeast, Mm
    <3>2. w <= e.w /\ h <= e.h
      BY <1>1, <1>2, <3>1 DEF AtLeast, Mm
    <3> QED
      BY <2>1, <3>1, <3>2 DEF SliderOpening
  <2>2. CASE ~ (e.w >= e.h)
    <3>1. PICK w \in Int, h \in Int :
              w = AtLeast((2 * e.w) \div 5, 6 * Mm) /\ h = AtLeast(e.h - 8 * Mm, 12 * Mm)
      BY <1>1, <1>2 DEF AtLeast, Mm
    <3>2. w <= e.w /\ h <= e.h
      BY <1>1, <1>2, <3>1 DEF AtLeast, Mm
    <3> QED
      BY <2>2, <3>1, <3>2 DEF SliderOpening
  <2> QED
    BY <2>1, <2>2
<1> QED
  BY <1>3, RectInside

\* The ring of a grille is as wide as 44 hundredths of the shorter side and a hole,
\* or 15 mm.
LEMMA GrilleInside ==
    ASSUME NEW e \in PlacedElementSpec, Ordinary(e), e.type = "speaker",
           NEW o \in SpeakerGrille(e, 0)
    PROVE  IsBox(o) /\ Inside(o, Body(e))
<1>1. e.w \in Int /\ e.h \in Int /\ e.w >= 6000 /\ e.h >= 6000
  BY OrdinarySize
<1>2. PICK side \in Nat : side = Shorter(e) /\ side <= e.w /\ side <= e.h /\ side >= 6000
  BY <1>1 DEF Shorter, AtMost
<1>3. PICK part \in Int : part = (22 * side) \div 100 /\ 100 * part <= 22 * side
  BY <1>2
<1>4. PICK ring \in Nat : /\ ring = GrilleRing(e)
                          /\ 2 * ring + 1200 <= side
  BY <1>2, <1>3 DEF GrilleRing, AtLeast, Mm
<1>5. PICK high \in Nat : high = (1732 * ring) \div 1000 /\ high <= 2 * ring
  BY <1>4
<1>6. PICK hole \in Nat : hole = GrilleHole(0) /\ hole = 1200
  BY Sizes DEF GrilleHole, AtLeast
<1>7. PICK f : f = [e EXCEPT !.rot = 0]
  OBVIOUS
<1>8. f \in PlacedElementSpec /\ f.rot = 0 /\ f.x = e.x /\ f.y = e.y /\ f.w = e.w /\ f.h = e.h
  BY <1>7 DEF PlacedElementSpec
<1>9. PICK offsets : offsets = GrilleOffsets(ring)
  OBVIOUS
<1>10. PICK n \in 1 .. 7 : o = Bore(f, n, offsets[n][1], offsets[n][2], hole)
  BY <1>4, <1>6, <1>7, <1>9 DEF SpeakerGrille
<1>11. PICK dx \in Int, dy \in Int :
           /\ dx = offsets[n][1] /\ dy = offsets[n][2]
           /\ -2 * ring <= dx /\ dx <= 2 * ring /\ -2 * ring <= dy /\ dy <= 2 * ring
  <2>1. n = 1 \/ n = 2 \/ n = 3 \/ n = 4 \/ n = 5 \/ n = 6 \/ n = 7
    OBVIOUS
  <2>2. offsets = <<<<0, 0>>, <<2 * ring, 0>>, <<ring, high>>, <<-ring, high>>,
                    <<-2 * ring, 0>>, <<-ring, -high>>, <<ring, -high>>>>
    BY <1>5, <1>9 DEF GrilleOffsets
  <2>3. /\ offsets[1] = <<0, 0>> /\ offsets[2] = <<2 * ring, 0>>
        /\ offsets[3] = <<ring, high>> /\ offsets[4] = <<-ring, high>>
        /\ offsets[5] = <<-2 * ring, 0>> /\ offsets[6] = <<-ring, -high>>
        /\ offsets[7] = <<ring, -high>>
    BY <2>2
  <2>4. \E dx, dy \in {0, 2 * ring, -2 * ring, ring, -ring, high, -high} : offsets[n] = <<dx, dy>>
    BY <2>1, <2>3
  <2>5. PICK dx, dy \in {0, 2 * ring, -2 * ring, ring, -ring, high, -high} : offsets[n] = <<dx, dy>>
    BY <2>4
  <2>6. \A d \in {0, 2 * ring, -2 * ring, ring, -ring, high, -high} :
            d \in Int /\ -2 * ring <= d /\ d <= 2 * ring
    BY <1>4, <1>5
  <2> QED
    BY <2>5, <2>6
<1>12. dx + hole <= side /\ hole - dx <= side /\ dy + hole <= side /\ hole - dy <= side
  BY ONLY <1>2, <1>4, <1>6, <1>11
<1> QED
  BY <1>2, <1>6, <1>8, <1>10, <1>11, <1>12, FixedInside

LEMMA JoystickInside ==
    ASSUME NEW e \in PlacedElementSpec, Ordinary(e), NEW o \in JoystickOpenings(e, DefaultPanel)
    PROVE  IsBox(o) /\ Inside(o, Body(e))
<1>1. e.w \in Int /\ e.h \in Int /\ e.w >= 5600 /\ e.h >= 5600
  BY OrdinarySize
<1>2. PICK d \in Nat : d = AtMost(16 * Mm, Shorter(e) - 6 * Mm) + 0 /\ d <= e.w /\ d <= e.h
  BY <1>1 DEF AtMost, Shorter, Mm
<1>3. CASE o \in Circle(e, d)
  BY <1>2, <1>3, CircleInside
<1>4. CASE o \notin Circle(e, d)
  <2>1. \E sx, sy \in {-1, 1} :
            o = [Bore(e, 10 + 2 * sx + sy, sx * AtLeast(e.w - 9 * Mm, 0), sy * AtLeast(e.h - 9 * Mm, 0),
                      Tenths(24)) EXCEPT !.layer = "MountingHoles"]
    BY <1>2, <1>4, Sizes DEF JoystickOpenings, JoystickHole
  <2>2. PICK sx, sy \in {-1, 1} :
            o = [Bore(e, 10 + 2 * sx + sy, sx * AtLeast(e.w - 9 * Mm, 0), sy * AtLeast(e.h - 9 * Mm, 0),
                      Tenths(24)) EXCEPT !.layer = "MountingHoles"]
    BY <2>1
  <2>3. PICK dx \in Int, dy \in Int :
            /\ dx = sx * AtLeast(e.w - 9 * Mm, 0) /\ dx + 960 <= e.w /\ 960 - dx <= e.w
            /\ dy = sy * AtLeast(e.h - 9 * Mm, 0) /\ dy + 960 <= e.h /\ 960 - dy <= e.h
    BY <1>1 DEF AtLeast, Mm
  <2>4. PICK b : b = Bore(e, 10 + 2 * sx + sy, dx, dy, 960)
    OBVIOUS
  <2>5. IsBox(b) /\ Inside(b, Body(e))
    BY <2>3, <2>4, BoreInside
  <2>6. o = [b EXCEPT !.layer = "MountingHoles"]
    BY <2>2, <2>3, <2>4, Sizes
  <2>7. o.cx = b.cx /\ o.cy = b.cy /\ o.w = b.w /\ o.h = b.h
    BY <2>4, <2>6 DEF Bore, Opening
  <2> QED
    BY <2>5, <2>7 DEF IsBox, Inside
<1> QED
  BY <1>3, <1>4

\* Whatever the element, its openings are inside it.
LEMMA OpeningsInside ==
    ASSUME NEW e \in PlacedElementSpec, Ordinary(e), NEW o \in Openings(e, DefaultPanel)
    PROVE  IsBox(o) /\ Inside(o, Body(e))
<1>1. e.w \in Int /\ e.h \in Int /\ e.w >= 5600 /\ e.h >= 5600
  BY OrdinarySize
<1>2. CASE e.type = "key_switch"
  BY <1>2, SwitchInside DEF Openings
<1>3. CASE e.type = "encoder"
  <2>1. o \in Circle(e, 2880)
    BY <1>3, Sizes DEF Openings
  <2> QED
    BY <1>1, <2>1, CircleInside
<1>4. CASE e.type = "button"
  <2>1. o \in ButtonOpening(e, 0)
    BY <1>4, Sizes DEF Openings
  <2> QED
    BY <2>1, ButtonInside
<1>5. CASE e.type = "pad"
  <2>1. PICK w \in Int, h \in Int :
            /\ w = AtLeast(e.w - 4 * Mm, 10 * Mm) /\ h = AtLeast(e.h - 4 * Mm, 10 * Mm)
            /\ w <= e.w /\ h <= e.h
    BY <1>1 DEF AtLeast, Mm
  <2>2. o \in Rect(e, w, h, 0)
    BY <1>5, <2>1, Sizes DEF Openings
  <2> QED
    BY <2>1, <2>2, RectInside
<1>6. CASE e.type = "display"
  <2>1. PICK w \in Int, h \in Int :
            /\ w = AtLeast(e.w - 4 * Mm, 8 * Mm) /\ h = AtLeast(e.h - 4 * Mm, 6 * Mm)
            /\ w <= e.w /\ h <= e.h
    BY <1>1 DEF AtLeast, Mm
  <2>2. o \in Rect(e, w, h, 0)
    BY <1>6, <2>1, Sizes DEF Openings
  <2> QED
    BY <2>1, <2>2, RectInside
<1>7. CASE e.type = "joystick"
  BY <1>7, JoystickInside DEF Openings
<1>8. CASE e.type = "slider"
  <2>1. o \in SliderOpening(e, 0)
    BY <1>8, Sizes DEF Openings
  <2> QED
    BY <2>1, SliderInside
<1>9. CASE e.type = "usb_port"
  <2>1. PICK w \in Int, h \in Int :
            /\ w = AtLeast(e.w - 2 * Mm, 8 * Mm) /\ h = AtLeast(e.h - 2 * Mm, Tenths(35))
            /\ w <= e.w /\ h <= e.h
    BY <1>1, Sizes DEF AtLeast, Mm
  <2>2. o \in Rect(e, w, h, 0)
    BY <1>9, <2>1, Sizes DEF Openings
  <2> QED
    BY <2>1, <2>2, RectInside
<1>10. CASE e.type = "speaker"
  <2>1. o \in SpeakerGrille(e, 0)
    BY <1>10, Sizes DEF Openings
  <2> QED
    BY <1>10, <2>1, GrilleInside
<1>11. CASE e.type \in {"microphone", "sensor"}
  <2>1. PICK d \in Nat : o \in Circle(e, d) /\ d <= 1200
    BY <1>11, Sizes DEF Openings, AtLeast
  <2> QED
    BY <1>1, <2>1, CircleInside
<1>12. CASE e.type \in {"led_cluster", "battery", "mounting_feature"}
  BY <1>12 DEF Openings
<1>13. e.type \in ElementTypes
  BY DEF PlacedElementSpec
<1> QED
  BY <1>2, <1>3, <1>4, <1>5, <1>6, <1>7, <1>8, <1>9, <1>10, <1>11, <1>12, <1>13
     DEF ElementTypes, KeyLike

-----------------------------------------------------------------------------
(* The board.                                                              *)

\* The outline leaves its margin around every element, up to the rounding of its
\* middle.
LEMMA AroundMiddle ==
    ASSUME NEW a \in Int, NEW b \in Int, NEW l \in Int, NEW r \in Int, a <= l, r <= b,
           NEW mid, mid = (a + b) \div 2, NEW half, half = (b - a) \div 2 + 6000000
    PROVE  /\ mid \in Int /\ half \in Int
           /\ mid - half + 6000000 <= l
           /\ r + 6000000 <= mid + half + 1
  OBVIOUS

LEMMA ExtentsBound ==
    ASSUME NEW es \in Seq(PlacedElementSpec), NEW n \in DOMAIN es,
           NEW body, body = Body(es[n]), NEW all, all = Extents(es)
    PROVE  /\ all.left \in Int /\ all.right \in Int /\ all.low \in Int /\ all.high \in Int
           /\ all.left <= body.cx - body.w /\ body.cx + body.w <= all.right
           /\ all.low <= body.cy - body.h /\ body.cy + body.h <= all.high
<1>1. PICK count \in Nat \ {0} : DOMAIN es = 1 .. count
  BY SeqDef
<1>2. PICK left, right, low, high :
          /\ left = [k \in 1 .. count |-> Body(es[k]).cx - Body(es[k]).w]
          /\ right = [k \in 1 .. count |-> Body(es[k]).cx + Body(es[k]).w]
          /\ low = [k \in 1 .. count |-> Body(es[k]).cy - Body(es[k]).h]
          /\ high = [k \in 1 .. count |-> Body(es[k]).cy + Body(es[k]).h]
  OBVIOUS
<1>3. \A k \in 1 .. count : left[k] \in Int /\ right[k] \in Int /\ low[k] \in Int /\ high[k] \in Int
  <2> TAKE k \in 1 .. count
  <2>1. PICK b : b = Body(es[k])
    OBVIOUS
  <2>2. IsBox(b)
    BY <1>1, <2>1, BodyIsBox, ElementOfSeq
  <2>3. PICK cx \in Int, cy \in Int, w \in Int, h \in Int :
            b.cx = cx /\ b.cy = cy /\ b.w = w /\ b.h = h
    BY <2>2 DEF IsBox
  <2>4. /\ left[k] = cx - w /\ right[k] = cx + w
        /\ low[k] = cy - h /\ high[k] = cy + h
    BY <1>2, <2>1, <2>3
  <2>5. cx - w \in Int /\ cx + w \in Int /\ cy - h \in Int /\ cy + h \in Int
    OBVIOUS
  <2> QED
    BY <2>4, <2>5
<1>4. PICK a \in Int : a = Min({left[k] : k \in 1 .. count}) /\ a <= left[n]
  BY <1>1, <1>3, LeastOfList
<1>5. PICK b \in Int : b = Max({right[k] : k \in 1 .. count}) /\ right[n] <= b
  BY <1>1, <1>3, GreatestOfList
<1>6. PICK c \in Int : c = Min({low[k] : k \in 1 .. count}) /\ c <= low[n]
  BY <1>1, <1>3, LeastOfList
<1>7. PICK d \in Int : d = Max({high[k] : k \in 1 .. count}) /\ high[n] <= d
  BY <1>1, <1>3, GreatestOfList
<1>8. /\ {left[k] : k \in 1 .. count} = {Body(es[k]).cx - Body(es[k]).w : k \in DOMAIN es}
      /\ {right[k] : k \in 1 .. count} = {Body(es[k]).cx + Body(es[k]).w : k \in DOMAIN es}
      /\ {low[k] : k \in 1 .. count} = {Body(es[k]).cy - Body(es[k]).h : k \in DOMAIN es}
      /\ {high[k] : k \in 1 .. count} = {Body(es[k]).cy + Body(es[k]).h : k \in DOMAIN es}
  BY <1>1, <1>2
<1>9. all.left = a /\ all.right = b /\ all.low = c /\ all.high = d
  BY <1>4, <1>5, <1>6, <1>7, <1>8 DEF Extents
<1>10. /\ left[n] = body.cx - body.w /\ right[n] = body.cx + body.w
       /\ low[n] = body.cy - body.h /\ high[n] = body.cy + body.h
  BY <1>1, <1>2
<1> QED
  BY <1>4, <1>5, <1>6, <1>7, <1>9, <1>10

LEMMA OutlineAround ==
    ASSUME NEW layout, layout.elements \in Seq(PlacedElementSpec),
           NEW n \in DOMAIN layout.elements,
           NEW board, board = Outline(layout, DefaultPanel),
           NEW body, body = Body(layout.elements[n])
    PROVE  /\ IsBox(board)
           /\ board.cx - board.w + 6000000 <= body.cx - body.w
           /\ body.cx + body.w + 6000000 <= board.cx + board.w + 1
           /\ board.cy - board.h + 6000000 <= body.cy - body.h
           /\ body.cy + body.h + 6000000 <= board.cy + board.h + 1
<1>1. PICK all : all = Extents(layout.elements)
  OBVIOUS
<1>2. /\ all.left \in Int /\ all.right \in Int /\ all.low \in Int /\ all.high \in Int
      /\ all.left <= body.cx - body.w /\ body.cx + body.w <= all.right
      /\ all.low <= body.cy - body.h /\ body.cy + body.h <= all.high
  BY <1>1, ExtentsBound
<1>3. PICK l \in Int, r \in Int, m \in Int, h \in Int :
          /\ l = body.cx - body.w /\ r = body.cx + body.w
          /\ m = body.cy - body.h /\ h = body.cy + body.h
  <2>1. body.cx \in Int /\ body.w \in Int /\ body.cy \in Int /\ body.h \in Int
    BY BodyIsBox, ElementOfSeq DEF IsBox
  <2>2. \A p, q \in Int : p - q \in Int /\ p + q \in Int
    OBVIOUS
  <2> QED
    BY <2>1, <2>2
<1>4. /\ board.cx = (all.left + all.right) \div 2 /\ board.w = (all.right - all.left) \div 2 + 6000000
      /\ board.cy = (all.low + all.high) \div 2 /\ board.h = (all.high - all.low) \div 2 + 6000000
  <2>1. 2 * Scale * DefaultPanel.margin = 6000000
    BY Sizes DEF Scale
  <2> QED
    BY <1>1, <2>1 DEF Outline
<1>5. /\ board.cx \in Int /\ board.w \in Int
      /\ board.cx - board.w + 6000000 <= l /\ r + 6000000 <= board.cx + board.w + 1
  <2>1. all.left <= l /\ r <= all.right
    BY <1>2, <1>3
  <2> QED
    BY ONLY <1>2, <1>3, <1>4, <2>1, AroundMiddle
<1>6. /\ board.cy \in Int /\ board.h \in Int
      /\ board.cy - board.h + 6000000 <= m /\ h + 6000000 <= board.cy + board.h + 1
  <2>1. all.low <= m /\ h <= all.high
    BY <1>2, <1>3
  <2> QED
    BY ONLY <1>2, <1>3, <1>4, <2>1, AroundMiddle
<1>7. IsBox(board)
  BY <1>5, <1>6 DEF IsBox
<1> QED
  BY <1>3, <1>5, <1>6, <1>7

\* A corner hole is cut inside the margin: less than 6 mm from the edge.
LEMMA CornerBeyond ==
    ASSUME NEW board, NEW body, IsBox(board), IsBox(body),
           board.cx - board.w + 6000000 <= body.cx - body.w,
           body.cx + body.w + 6000000 <= board.cx + board.w + 1,
           NEW hole \in CornerHoles(board)
    PROVE  IsBox(hole) /\ ~ Meet(body, hole, 0)
<1>1. 2 * Scale * MountMargin = 4800000 /\ Scale * MountDiameter = 1000000
  BY DEF Scale, MountMargin, MountDiameter, Mm, Tenths
<1>2. PICK sx \in {-1, 1}, sy \in {-1, 1} :
          hole = Hole(2 * sx + sy, board.cx + sx * (board.w - 2 * Scale * MountMargin),
                                   board.cy + sy * (board.h - 2 * Scale * MountMargin))
  BY DEF CornerHoles
<1>3. /\ hole.cx = board.cx + sx * (board.w - 4800000) /\ hole.w = 1000000
      /\ hole.cy = board.cy + sy * (board.h - 4800000) /\ hole.h = 1000000
  BY <1>1, <1>2 DEF Hole
<1>4. IsBox(hole)
  BY <1>3 DEF IsBox
<1>5. CASE sx = 1
  <2>1. hole.cx = board.cx + board.w - 4800000
    BY <1>3, <1>5 DEF IsBox
  <2> QED
    BY <1>3, <1>4, <2>1 DEF IsBox, Meet
<1>6. CASE sx = -1
  <2>1. hole.cx = board.cx - board.w + 4800000
    BY <1>3, <1>6 DEF IsBox
  <2> QED
    BY <1>3, <1>4, <2>1 DEF IsBox, Meet
<1> QED
  BY <1>5, <1>6

\* An upright element's box is its sides.
LEMMA UprightBody ==
    ASSUME NEW e \in PlacedElementSpec, Ordinary(e), Upright(e)
    PROVE  /\ e.x \in Int /\ e.y \in Int /\ e.w \in Int /\ e.h \in Int
           /\ Body(e).cx = 1000 * (2 * e.x + e.w) /\ Body(e).w = 1000 * e.w
           /\ Body(e).cy = 1000 * (2 * e.y + e.h) /\ Body(e).h = 1000 * e.h
<1>1. e.x \in Int /\ e.y \in Int /\ e.w \in Int /\ e.h \in Int /\ e.rot \in Int
  BY DEF PlacedElementSpec
<1>2. e.w >= 5600 /\ e.h >= 5600
  BY OrdinarySize
<1>3. PICK w \in Nat, h \in Nat : w = e.w /\ h = e.h /\ Magnitude(e.w) = w /\ Magnitude(e.h) = h
  BY <1>1, <1>2 DEF Magnitude, AtLeast
<1>4. PICK angle \in 0 .. 359 : angle = e.rot % 360
  BY <1>1
<1>5. angle \in {0, 180} \/ (angle \in {90, 270} /\ w = h)
  <2>1. PICK rot \in Int : rot = e.rot
    BY <1>1
  <2>2. rot % 90 = 0 /\ (rot % 180 # 0 => w = h) /\ angle = rot % 360
    BY <1>3, <1>4, <2>1 DEF Upright
  <2> QED
    BY ONLY <2>2
<1>6. /\ Body(e).cx = 1000 * (2 * e.x + e.w) /\ Body(e).cy = 1000 * (2 * e.y + e.h)
      /\ Body(e).w = w * Magnitude(Turn[angle][1]) + h * Magnitude(Turn[angle][2])
      /\ Body(e).h = h * Magnitude(Turn[angle][1]) + w * Magnitude(Turn[angle][2])
  BY <1>3, <1>4, BodySizes DEF Cos, Sin, Scale
<1>7. CASE angle \in {0, 180}
  <2>1. Magnitude(Turn[angle][1]) = 1000 /\ Magnitude(Turn[angle][2]) = 0
    BY <1>7, QuarterTurns DEF Magnitude, AtLeast
  <2>2. w * 1000 + h * 0 = 1000 * w /\ h * 1000 + w * 0 = 1000 * h
    OBVIOUS
  <2> QED
    BY <1>1, <1>3, <1>6, <2>1, <2>2
<1>8. CASE angle \in {90, 270} /\ w = h
  <2>1. Magnitude(Turn[angle][1]) = 0 /\ Magnitude(Turn[angle][2]) = 1000
    BY <1>8, QuarterTurns DEF Magnitude, AtLeast
  <2>2. w * 0 + h * 1000 = 1000 * w /\ h * 0 + w * 1000 = 1000 * h
    BY <1>8
  <2> QED
    BY <1>1, <1>3, <1>6, <2>1, <2>2
<1> QED
  BY <1>5, <1>7, <1>8

\* So the bodies of upright elements are what the overlap check compares.
LEMMA ApartBodies ==
    ASSUME NEW e \in PlacedElementSpec, NEW f \in PlacedElementSpec,
           Ordinary(e), Ordinary(f), Upright(e), Upright(f), ~ Overlap(e, f)
    PROVE  /\ ~ Meet(Body(e), Body(f), 2 * Scale * Epsilon)
           /\ ~ Meet(Body(f), Body(e), 2 * Scale * Epsilon)
<1>1. \A g \in {e, f} : /\ g.x \in Int /\ g.y \in Int /\ g.w \in Int /\ g.h \in Int
                        /\ Body(g).cx = 1000 * (2 * g.x + g.w) /\ Body(g).w = 1000 * g.w
                        /\ Body(g).cy = 1000 * (2 * g.y + g.h) /\ Body(g).h = 1000 * g.h
  BY UprightBody
<1>2. Epsilon = 20 /\ 2 * Scale * Epsilon = 40000
  BY DEF Epsilon, Mm, Scale
<1> QED
  BY <1>1, <1>2 DEF Overlap, Meet

\* What is cut for elements of ordinary size is inside the board and clear of the corner
\* holes, and of each other for upright elements that do not overlap.
LEMMA PanelClear ==
    ASSUME NEW layout, layout.elements \in Seq(PlacedElementSpec),
           \A m \in DOMAIN layout.elements :
               \A n \in m + 1 .. Len(layout.elements) :
                   ~ Overlap(layout.elements[m], layout.elements[n]),
           NEW board, board = Outline(layout, DefaultPanel),
           NEW openings, openings = DrawPanel(layout, DefaultPanel).openings,
           NEW controls, controls = {n \in DOMAIN layout.elements : Ordinary(layout.elements[n])},
           NEW upright, upright = {n \in controls : Upright(layout.elements[n])}
    PROVE  /\ ClearOfBoard(openings, controls, board, CornerHoles(board))
           /\ ClearOfEachOther(openings, upright, 2 * Scale * Epsilon)
<1> DEFINE es == layout.elements
<1>1. \A n \in DOMAIN es : openings[n] = Openings(es[n], DefaultPanel)
  BY DEF DrawPanel
<1>2. \A n \in DOMAIN es : es[n] \in PlacedElementSpec
  BY ElementOfSeq
<1>3. \A n \in controls : \A o \in openings[n] : IsBox(o) /\ Inside(o, Body(es[n]))
  BY <1>1, <1>2, OpeningsInside
<1>4. \A n \in controls : IsBox(Body(es[n]))
  BY <1>2, BodyIsBox
<1>5. \A m, n \in upright : m # n => ~ Meet(Body(es[m]), Body(es[n]), 2 * Scale * Epsilon)
  <2> TAKE m, n \in upright
  <2>1. Len(es) \in Nat /\ DOMAIN es = 1 .. Len(es)
    OBVIOUS
  <2>2. \A i, j \in upright : i < j => ~ Overlap(es[i], es[j])
    BY <2>1
  <2>3. m # n => ~ Overlap(es[m], es[n]) \/ ~ Overlap(es[n], es[m])
    <3>1. m \in Nat /\ n \in Nat
      BY <2>1
    <3>2. CASE m < n
      BY <2>2, <3>2
    <3>3. CASE n < m
      BY <2>2, <3>3
    <3> QED
      BY <3>1, <3>2, <3>3
  <2> QED
    BY <1>2, <2>3, ApartBodies
<1>6. 2 * Scale * Epsilon \in Int /\ 0 \in Int
  BY DEF Epsilon, Mm, Scale
<1>7. ASSUME NEW n \in controls, NEW o \in openings[n]
      PROVE  Inside(o, board) /\ \A corner \in CornerHoles(board) : ~ Meet(o, corner, 0)
  <2>1. PICK body : body = Body(es[n])
    OBVIOUS
  <2>2. IsBox(o) /\ IsBox(body) /\ Inside(o, body)
    BY <1>3, <1>4, <2>1
  <2>3. /\ IsBox(board)
        /\ board.cx - board.w + 6000000 <= body.cx - body.w
        /\ body.cx + body.w + 6000000 <= board.cx + board.w + 1
        /\ board.cy - board.h + 6000000 <= body.cy - body.h
        /\ body.cy + body.h + 6000000 <= board.cy + board.h + 1
    BY <2>1, OutlineAround
  <2>4. Inside(o, board)
    <3>1. Inside(body, board)
      BY ONLY <2>2, <2>3 DEF IsBox, Inside
    <3> QED
      BY ONLY <2>2, <2>3, <3>1, InsideTransitive
  <2>5. \A corner \in CornerHoles(board) : ~ Meet(o, corner, 0)
    <3> TAKE corner \in CornerHoles(board)
    <3>1. IsBox(corner) /\ ~ Meet(body, corner, 0)
      BY ONLY <2>2, <2>3, CornerBeyond
    <3>2. Inside(corner, corner)
      BY ONLY <3>1 DEF IsBox, Inside
    <3> QED
      BY ONLY <1>6, <2>2, <3>1, <3>2, ApartInside
  <2> QED
    BY <2>4, <2>5
<1>8. ASSUME NEW m \in upright, NEW n \in upright, m # n,
             NEW o \in openings[m], NEW other \in openings[n]
      PROVE  ~ Meet(o, other, 2 * Scale * Epsilon)
  <2>1. PICK a, b : a = Body(es[m]) /\ b = Body(es[n])
    OBVIOUS
  <2>2. /\ IsBox(o) /\ IsBox(a) /\ Inside(o, a)
        /\ IsBox(other) /\ IsBox(b) /\ Inside(other, b)
        /\ ~ Meet(a, b, 2 * Scale * Epsilon)
    BY <1>3, <1>4, <1>5, <1>8, <2>1
  <2> QED
    BY ONLY <1>6, <2>2, ApartInside
<1>9. ClearOfBoard(openings, controls, board, CornerHoles(board))
  BY <1>7 DEF ClearOfBoard
<1>10. ClearOfEachOther(openings, upright, 2 * Scale * Epsilon)
  BY <1>8 DEF ClearOfEachOther
<1> QED
  BY <1>9, <1>10

-----------------------------------------------------------------------------
(* What a summary counts is what is drawn.                                 *)

LEMMA RectCut ==
    ASSUME NEW e, NEW w, NEW h, NEW o \in Rect(e, w, h, 0)
    PROVE  o.layer = "Cutouts" /\ o.part = 0
  BY DEF Rect, Box, Opening

LEMMA CircleCut ==
    ASSUME NEW e, NEW diameter, NEW o \in Circle(e, diameter)
    PROVE  o.layer = "Cutouts" /\ o.part = 0
  BY DEF Circle, Bore, Opening

\* Every element that takes an opening has one that is cut.
LEMMA EveryTypeIsCut ==
    ASSUME NEW e, NEW type \in ElementTypes \ {"led_cluster", "battery", "mounting_feature"},
           e.type = type
    PROVE  \E o \in Openings(e, DefaultPanel) : o.layer = "Cutouts"
<1>1. DefaultPanel.kerf = 0
  BY Sizes
<1>2. \A w, h : \E o \in Rect(e, w, h, 0) : o.layer = "Cutouts"
  BY DEF Rect, Box, Opening
<1>3. \A d : \E o \in Circle(e, d) : o.layer = "Cutouts"
  BY DEF Circle, Bore, Opening
<1>4. CASE type = "speaker"
  <2>1. PICK f, offsets : f = [e EXCEPT !.rot = 0] /\ offsets = GrilleOffsets(GrilleRing(e))
    OBVIOUS
  <2>2. PICK o : o = Bore(f, 1, offsets[1][1], offsets[1][2], GrilleHole(0))
    OBVIOUS
  <2>3. o \in Openings(e, DefaultPanel)
    BY <1>1, <1>4, <2>1, <2>2 DEF Openings, SpeakerGrille
  <2>4. o.layer = "Cutouts"
    BY <2>2 DEF Bore, Opening
  <2> QED
    BY <2>3, <2>4
<1>5. CASE type = "key_switch"
  BY <1>1, <1>2, <1>5 DEF Openings, SwitchOpenings
<1>6. CASE type = "button"
  BY <1>1, <1>2, <1>3, <1>6 DEF Openings, ButtonOpening
<1>7. CASE type = "slider"
  BY <1>1, <1>2, <1>7 DEF Openings, SliderOpening
<1>8. CASE type = "joystick"
  BY <1>1, <1>3, <1>8 DEF Openings, JoystickOpenings
<1>9. CASE type \in {"encoder", "microphone", "sensor"}
  BY <1>1, <1>3, <1>9 DEF Openings
<1>10. CASE type \in {"pad", "display", "usb_port"}
  BY <1>1, <1>2, <1>10 DEF Openings
<1> QED
  BY <1>4, <1>5, <1>6, <1>7, <1>8, <1>9, <1>10 DEF ElementTypes, KeyLike

\* Only a joystick has openings that are not cut: its four screws.
LEMMA OthersAreCut ==
    ASSUME NEW e, NEW type \in ElementTypes, e.type = type, NEW o \in Openings(e, DefaultPanel)
    PROVE  \/ o.layer = "Cutouts"
           \/ /\ type = "joystick"
              /\ \E sx, sy \in {-1, 1} : o = JoystickHole(e, sx, sy)
<1>1. DefaultPanel.kerf = 0
  BY Sizes
<1>2. \A w, h : \A p \in Rect(e, w, h, 0) : p.layer = "Cutouts"
  BY RectCut
<1>3. \A d : \A p \in Circle(e, d) : p.layer = "Cutouts"
  BY CircleCut
<1>4. CASE type = "speaker"
  <2>1. o \in SpeakerGrille(e, 0)
    BY <1>1, <1>4 DEF Openings
  <2> QED
    BY <2>1 DEF SpeakerGrille, Bore, Opening
<1>5. CASE type = "key_switch"
  <2>1. \A sign : StabOpening(e, sign, 0).layer = "Cutouts"
    BY DEF StabOpening, Box, Opening
  <2> QED
    BY <1>1, <1>2, <1>5, <2>1 DEF Openings, SwitchOpenings
<1>6. CASE type = "button"
  BY <1>1, <1>2, <1>3, <1>6 DEF Openings, ButtonOpening
<1>7. CASE type = "slider"
  BY <1>1, <1>2, <1>7 DEF Openings, SliderOpening
<1>8. CASE type = "joystick"
  BY <1>1, <1>3, <1>8 DEF Openings, JoystickOpenings
<1>9. CASE type \in {"encoder", "microphone", "sensor"}
  BY <1>1, <1>3, <1>9 DEF Openings
<1>10. CASE type \in {"pad", "display", "usb_port"}
  BY <1>1, <1>2, <1>10 DEF Openings
<1>11. CASE type \in {"led_cluster", "battery", "mounting_feature"}
  BY <1>11 DEF Openings
<1> QED
  BY <1>4, <1>5, <1>6, <1>7, <1>8, <1>9, <1>10, <1>11 DEF ElementTypes, KeyLike

\* f makes X out of the pairs of S and T, one to one.
MadeOf(f, S, T, X) ==
    /\ \A s \in S, t \in T : f[<<s, t>>] \in X
    /\ \A x \in X : \E s \in S, t \in T : x = f[<<s, t>>]
    /\ \A s, u \in S : \A t, v \in T : f[<<s, t>>] = f[<<u, v>>] => s = u /\ t = v

LEMMA MadeOfPairs ==
    ASSUME NEW S, IsFiniteSet(S), NEW T, IsFiniteSet(T), NEW X, NEW f, MadeOf(f, S, T, X)
    PROVE  IsFiniteSet(X) /\ Cardinality(X) = Cardinality(S) * Cardinality(T)
<1> USE DEF MadeOf
<1>1. PICK g : g = [p \in S \X T |-> f[p]]
  OBVIOUS
<1>2. g \in [S \X T -> X]
  BY <1>1
<1>3. \A p, q \in S \X T : g[p] = g[q] => p = q
  BY <1>1
<1>4. \A x \in X : \E p \in S \X T : g[p] = x
  BY <1>1
<1>5. PICK pairs : pairs = S \X T
  OBVIOUS
<1>6. g \in [pairs -> X] /\ (\A p, q \in pairs : g[p] = g[q] => p = q)
      /\ \A x \in X : \E p \in pairs : g[p] = x
  BY <1>2, <1>3, <1>4, <1>5
<1>7. g \in Bijection(pairs, X)
  BY ONLY <1>6 DEF Bijection, Injection, Surjection, IsInjective
<1>8. ExistsBijection(pairs, X)
  BY <1>7 DEF ExistsBijection
<1>9. IsFiniteSet(pairs) /\ Cardinality(pairs) = Cardinality(S) * Cardinality(T)
  BY <1>5, FS_Product
<1> QED
  BY <1>8, <1>9, FS_Bijection

LEMMA TwoSides == IsFiniteSet({-1, 1}) /\ Cardinality({-1, 1}) = 2
<1>1. IsFiniteSet({-1}) /\ Cardinality({-1}) = 1
  BY FS_Singleton
<1>2. {-1, 1} = {-1} \cup {1} /\ 1 \notin {-1}
  OBVIOUS
<1> QED
  BY <1>1, <1>2, FS_AddElement

LEMMA FinitelyMany ==
    ASSUME NEW layout, layout.elements \in Seq(PlacedElementSpec), NEW type
    PROVE  IsFiniteSet(OfType(layout, type)) /\ Cardinality(OfType(layout, type)) \in Nat
<1>1. PICK n \in Nat : DOMAIN layout.elements = 1 .. n
  BY SeqDef
<1>2. IsFiniteSet(1 .. n)
  BY FS_Interval
<1>3. OfType(layout, type) \subseteq 1 .. n
  BY <1>1 DEF OfType
<1> QED
  BY <1>2, <1>3, FS_Subset, FS_CardinalityType

\* Five holes fix a board.
LEMMA FiveHoles ==
    ASSUME NEW board
    PROVE  Cardinality(CornerHoles(board) \cup {Hole(0, board.cx, board.cy)}) = 5
<1> DEFINE At(sx, sy) == Hole(2 * sx + sy, board.cx + sx * (board.w - 2 * Scale * MountMargin),
                                           board.cy + sy * (board.h - 2 * Scale * MountMargin))
           sides == {-1, 1}
           f == [p \in sides \X sides |-> At(p[1], p[2])]
<1>1. \A sx, sy \in sides : f[<<sx, sy>>] = At(sx, sy)
  OBVIOUS
<1>2. \A sx, sy \in sides : At(sx, sy).part = 2 * sx + sy
  BY DEF Hole
<1>3. CornerHoles(board) = {At(sx, sy) : sx \in sides, sy \in sides}
  BY DEF CornerHoles
<1>4. \A sx, sy, tx, ty \in sides : 2 * sx + sy = 2 * tx + ty => sx = tx /\ sy = ty
  OBVIOUS
<1>5. \A sx, sy \in sides : 2 * sx + sy # 0
  OBVIOUS
<1> HIDE DEF At, f
<1>6. MadeOf(f, sides, sides, CornerHoles(board))
  <2>1. \A sx \in sides, sy \in sides : f[<<sx, sy>>] \in CornerHoles(board)
    BY <1>1, <1>3
  <2>2. \A x \in CornerHoles(board) : \E sx \in sides, sy \in sides : x = f[<<sx, sy>>]
    BY <1>1, <1>3
  <2>3. \A sx, tx \in sides : \A sy, ty \in sides :
             f[<<sx, sy>>] = f[<<tx, ty>>] => sx = tx /\ sy = ty
    <3> HIDE DEF sides
    <3> QED
      BY <1>1, <1>2, <1>4
  <2> QED
    BY <2>1, <2>2, <2>3 DEF MadeOf
<1>7. IsFiniteSet(sides) /\ Cardinality(sides) = 2
  BY TwoSides
<1>8. IsFiniteSet(CornerHoles(board)) /\ Cardinality(CornerHoles(board)) = 2 * 2
  <2> HIDE DEF sides
  <2> QED
    BY ONLY <1>6, <1>7, MadeOfPairs
<1>9. Hole(0, board.cx, board.cy) \notin CornerHoles(board)
  <2>1. Hole(0, board.cx, board.cy).part = 0
    BY DEF Hole
  <2> QED
    BY <1>2, <1>3, <1>5, <2>1
<1> QED
  BY <1>8, <1>9, FS_AddElement

\* A drawing of a layout, as pairs of an element's number and an opening.
LEMMA DrawnPairs ==
    ASSUME NEW layout, NEW openings, openings = DrawPanel(layout, DefaultPanel).openings, NEW c
    PROVE  c \in Drawn(openings) <=>
               \E n \in DOMAIN layout.elements :
                   \E o \in Openings(layout.elements[n], DefaultPanel) : c = <<n, o>>
<1>1. /\ DOMAIN openings = DOMAIN layout.elements
      /\ \A n \in DOMAIN layout.elements : openings[n] = Openings(layout.elements[n], DefaultPanel)
  BY DEF DrawPanel
<1>2. c \in Drawn(openings) <=> \E n \in DOMAIN openings : \E o \in openings[n] : c = <<n, o>>
  BY DEF Drawn
<1> QED
  BY <1>1, <1>2

\* Two wires' openings for each stabilized switch.
LEMMA StabilizersDrawn ==
    ASSUME NEW layout, layout.elements \in Seq(PlacedElementSpec),
           NEW drawn, drawn = Drawn(DrawPanel(layout, DefaultPanel).openings)
    PROVE  2 * Cardinality({n \in OfType(layout, "key_switch") :
                                Stabilized(layout.elements[n], DefaultPanel)})
               = Cardinality({c \in drawn : IsCut(c) /\ layout.elements[c[1]].type = "key_switch"
                                                     /\ c[2].part # 0})
<1> DEFINE es == layout.elements
           wide == {n \in OfType(layout, "key_switch") : Stabilized(es[n], DefaultPanel)}
           sides == {-1, 1}
           f == [p \in wide \X sides |-> <<p[1], StabOpening(es[p[1]], p[2], 0)>>]
           wires == {c \in drawn : IsCut(c) /\ es[c[1]].type = "key_switch" /\ c[2].part # 0}
<1>1. \A n \in wide, sign \in sides : f[<<n, sign>>] = <<n, StabOpening(es[n], sign, 0)>>
  OBVIOUS
<1>2. \A n \in wide, sign \in sides :
          StabOpening(es[n], sign, 0).part = sign /\ StabOpening(es[n], sign, 0).layer = "Cutouts"
  BY DEF StabOpening, Box, Opening
<1>3. \A n \in wide : n \in DOMAIN es /\ es[n].type = "key_switch" /\ Stabilized(es[n], DefaultPanel)
  BY DEF OfType
<1>4. ASSUME NEW n \in DOMAIN es, es[n].type = "key_switch"
      PROVE  \A o : o \in Openings(es[n], DefaultPanel) <=>
                 \/ o \in Rect(es[n], MxCutout, MxCutout, 0)
                 \/ n \in wide /\ \E sign \in sides : o = StabOpening(es[n], sign, 0)
  BY <1>4, Sizes DEF Openings, SwitchOpenings, OfType
<1>5. \A c : c \in drawn <=> \E n \in DOMAIN es : \E o \in Openings(es[n], DefaultPanel) : c = <<n, o>>
  BY DrawnPairs
<1> HIDE DEF f, wide
<1>6. \A n \in wide, sign \in sides : f[<<n, sign>>] \in wires
  <2> TAKE n \in wide, sign \in sides
  <2>1. PICK o : o = StabOpening(es[n], sign, 0)
    OBVIOUS
  <2>2. o \in Openings(es[n], DefaultPanel)
    BY <1>3, <1>4, <2>1
  <2>3. <<n, o>> \in drawn
    BY <1>3, <1>5, <2>2
  <2>4. o.part # 0 /\ o.layer = "Cutouts" /\ es[n].type = "key_switch"
    BY <1>2, <1>3, <2>1
  <2>5. PICK c : c = <<n, o>>
    OBVIOUS
  <2>6. c[1] = n /\ c[2] = o /\ c \in drawn
    BY <2>3, <2>5
  <2>7. c \in wires
    BY <2>4, <2>6 DEF IsCut
  <2> QED
    BY <1>1, <2>1, <2>5, <2>7
<1>7. \A c \in wires : \E n \in wide, sign \in sides : c = f[<<n, sign>>]
  <2> TAKE c \in wires
  <2>1. PICK n \in DOMAIN es : \E o \in Openings(es[n], DefaultPanel) : c = <<n, o>>
    BY <1>5
  <2>2. PICK o \in Openings(es[n], DefaultPanel) : c = <<n, o>>
    BY <2>1
  <2>3. es[n].type = "key_switch" /\ o.part # 0
    BY <2>2
  <2>4. o \notin Rect(es[n], MxCutout, MxCutout, 0)
    BY <2>3, RectCut
  <2>5. n \in wide /\ \E sign \in sides : o = StabOpening(es[n], sign, 0)
    BY <1>4, <2>3, <2>4
  <2> QED
    BY <1>1, <2>2, <2>5
<1>8. \A m, n \in wide : \A s, t \in sides : f[<<m, s>>] = f[<<n, t>>] => m = n /\ s = t
  <2> HIDE DEF sides
  <2> TAKE m, n \in wide
  <2> TAKE s, t \in sides
  <2>1. PICK o, p : o = StabOpening(es[m], s, 0) /\ p = StabOpening(es[n], t, 0)
    OBVIOUS
  <2>2. f[<<m, s>>] = <<m, o>> /\ f[<<n, t>>] = <<n, p>> /\ o.part = s /\ p.part = t
    BY <1>1, <1>2, <2>1
  <2> QED
    BY <2>2
<1>9. MadeOf(f, wide, sides, wires)
  <2> HIDE DEF sides, wires
  <2> QED
    BY <1>6, <1>7, <1>8 DEF MadeOf
<1>10. IsFiniteSet(wide) /\ Cardinality(wide) \in Nat
  <2>1. wide \subseteq OfType(layout, "key_switch")
    BY DEF wide
  <2> QED
    BY <2>1, FinitelyMany, FS_Subset, FS_CardinalityType
<1>11. Cardinality(wires) = Cardinality(wide) * 2
  <2>1. IsFiniteSet(sides) /\ Cardinality(sides) = 2
    BY TwoSides
  <2> HIDE DEF sides, wires
  <2> QED
    BY ONLY <1>9, <1>10, <2>1, MadeOfPairs
<1>12. 2 * Cardinality(wide) = Cardinality(wires)
  BY <1>10, <1>11
<1> QED
  BY <1>12 DEF wide

\* Four screws for each joystick.
LEMMA ScrewsDrawn ==
    ASSUME NEW layout, layout.elements \in Seq(PlacedElementSpec),
           NEW drawn, drawn = Drawn(DrawPanel(layout, DefaultPanel).openings)
    PROVE  4 * Cardinality(OfType(layout, "joystick")) = Cardinality({c \in drawn : ~ IsCut(c)})
<1> DEFINE es == layout.elements
           sticks == OfType(layout, "joystick")
           sides == {-1, 1}
           corners == sides \X sides
           f == [p \in sticks \X corners |-> <<p[1], JoystickHole(es[p[1]], p[2][1], p[2][2])>>]
           screws == {c \in drawn : ~ IsCut(c)}
<1>1. \A n \in sticks, at \in corners : f[<<n, at>>] = <<n, JoystickHole(es[n], at[1], at[2])>>
  OBVIOUS
<1>2. \A n \in sticks, at \in corners :
          /\ JoystickHole(es[n], at[1], at[2]).part = 10 + 2 * at[1] + at[2]
          /\ JoystickHole(es[n], at[1], at[2]).layer # "Cutouts"
  BY DEF JoystickHole, Bore, Opening
<1>3. \A n \in sticks : n \in DOMAIN es /\ es[n].type = "joystick"
  BY DEF OfType
<1>4. \A n \in sticks, at \in corners : JoystickHole(es[n], at[1], at[2]) \in Openings(es[n], DefaultPanel)
  <2> TAKE n \in sticks, at \in corners
  <2>1. PICK sx, sy \in sides : at[1] = sx /\ at[2] = sy
    OBVIOUS
  <2>2. PICK e : e = es[n] /\ e.type = "joystick"
    BY <1>3
  <2>3. JoystickHole(e, sx, sy) \in JoystickOpenings(e, DefaultPanel)
    BY Sizes DEF JoystickOpenings
  <2>4. JoystickHole(e, sx, sy) \in Openings(e, DefaultPanel)
    BY <2>2, <2>3 DEF Openings
  <2> QED
    BY <2>1, <2>2, <2>4
<1>5. \A c : c \in drawn <=> \E n \in DOMAIN es : \E o \in Openings(es[n], DefaultPanel) : c = <<n, o>>
  BY DrawnPairs
<1> HIDE DEF f, sticks
<1>6. \A n \in sticks, at \in corners : f[<<n, at>>] \in screws
  <2> HIDE DEF corners
  <2> TAKE n \in sticks, at \in corners
  <2>1. PICK o : o = JoystickHole(es[n], at[1], at[2])
    OBVIOUS
  <2>2. <<n, o>> \in drawn
    BY <1>3, <1>4, <1>5, <2>1
  <2>3. o.layer # "Cutouts"
    BY <1>2, <2>1
  <2> QED
    BY <1>1, <2>1, <2>2, <2>3 DEF IsCut
<1>7. \A c \in screws : \E n \in sticks, at \in corners : c = f[<<n, at>>]
  <2> TAKE c \in screws
  <2>1. PICK n \in DOMAIN es : \E o \in Openings(es[n], DefaultPanel) : c = <<n, o>>
    BY <1>5
  <2>2. PICK o \in Openings(es[n], DefaultPanel) : c = <<n, o>>
    BY <2>1
  <2>3. o.layer # "Cutouts"
    BY <2>2 DEF IsCut
  <2>4. es[n].type \in ElementTypes
    <3>1. es[n] \in PlacedElementSpec
      BY ElementOfSeq
    <3> QED
      BY <3>1 DEF PlacedElementSpec
  <2>5. es[n].type = "joystick" /\ \E sx, sy \in sides : o = JoystickHole(es[n], sx, sy)
    BY <2>3, <2>4, OthersAreCut
  <2>6. PICK sx, sy \in sides : o = JoystickHole(es[n], sx, sy)
    BY <2>5
  <2>7. n \in sticks
    BY <2>5 DEF sticks, OfType
  <2>8. PICK at \in corners : at[1] = sx /\ at[2] = sy
    <3>1. <<sx, sy>> \in corners /\ <<sx, sy>>[1] = sx /\ <<sx, sy>>[2] = sy
      OBVIOUS
    <3> QED
      BY <3>1
  <2> QED
    BY <1>1, <2>2, <2>6, <2>7, <2>8
<1>8. \A m, n \in sticks : \A s, t \in corners : f[<<m, s>>] = f[<<n, t>>] => m = n /\ s = t
  <2> TAKE m, n \in sticks
  <2> TAKE s, t \in corners
  <2>1. PICK o, p : o = JoystickHole(es[m], s[1], s[2]) /\ p = JoystickHole(es[n], t[1], t[2])
    OBVIOUS
  <2>2. f[<<m, s>>] = <<m, o>> /\ f[<<n, t>>] = <<n, p>>
        /\ o.part = 10 + 2 * s[1] + s[2] /\ p.part = 10 + 2 * t[1] + t[2]
    BY <1>1, <1>2, <2>1
  <2>3. o = p => 10 + 2 * s[1] + s[2] = 10 + 2 * t[1] + t[2]
    BY <2>2
  <2>4. 10 + 2 * s[1] + s[2] = 10 + 2 * t[1] + t[2] => s = t
    <3>1. PICK a, b, c, d \in sides : s = <<a, b>> /\ t = <<c, d>>
      OBVIOUS
    <3>2. 10 + 2 * a + b = 10 + 2 * c + d => a = c /\ b = d
      OBVIOUS
    <3> QED
      BY <3>1, <3>2
  <2> QED
    BY <2>2, <2>3, <2>4
<1>9. MadeOf(f, sticks, corners, screws)
  <2> HIDE DEF corners, screws
  <2> QED
    BY <1>6, <1>7, <1>8 DEF MadeOf
<1>10. IsFiniteSet(sticks) /\ Cardinality(sticks) \in Nat
  BY FinitelyMany DEF sticks
<1>11. IsFiniteSet(corners) /\ Cardinality(corners) = 4
  <2>1. IsFiniteSet(sides) /\ Cardinality(sides) = 2
    BY TwoSides
  <2> HIDE DEF sides
  <2>2. IsFiniteSet(corners) /\ Cardinality(corners) = Cardinality(sides) * Cardinality(sides)
    BY <2>1, FS_Product
  <2> QED
    BY <2>1, <2>2
<1>12. Cardinality(screws) = Cardinality(sticks) * 4
  <2> HIDE DEF corners, screws
  <2> QED
    BY ONLY <1>9, <1>10, <1>11, MadeOfPairs
<1>13. 4 * Cardinality(sticks) = Cardinality(screws)
  BY <1>10, <1>12
<1> QED
  BY <1>13 DEF sticks

\* What summarize_plate_geometry counts is in the drawing.
LEMMA SummaryTrue ==
    ASSUME NEW layout, layout.elements \in Seq(PlacedElementSpec), layout.elements # <<>>,
           NEW panel, panel = DrawPanel(layout, DefaultPanel)
    PROVE  SummaryMatches(layout, PanelSummary(layout, DefaultPanel), panel, Drawn(panel.openings))
<1> DEFINE es == layout.elements
           drawn == Drawn(panel.openings)
           taking == ElementTypes \ {"led_cluster", "battery", "mounting_feature"}
<1>1. PICK summary : summary = PanelSummary(layout, DefaultPanel)
  OBVIOUS
<1>2. /\ summary.cutouts = [t \in taking |-> Cardinality(OfType(layout, t))]
      /\ summary.stabilizers = 2 * Cardinality({n \in OfType(layout, "key_switch") :
                                                    Stabilized(es[n], DefaultPanel)})
      /\ summary.holes = 5 + 4 * Cardinality(OfType(layout, "joystick"))
  BY <1>1, Sizes DEF PanelSummary
<1>3. \A c : c \in drawn <=> \E n \in DOMAIN es : \E o \in Openings(es[n], DefaultPanel) : c = <<n, o>>
  BY DrawnPairs
<1>4. ASSUME NEW t \in taking
      PROVE  {c[1] : c \in {c \in drawn : IsCut(c)}} \cap OfType(layout, t) = OfType(layout, t)
  <2> SUFFICES ASSUME NEW n \in OfType(layout, t)
               PROVE  \E c \in drawn : IsCut(c) /\ c[1] = n
    OBVIOUS
  <2>1. n \in DOMAIN es /\ es[n].type = t
    BY DEF OfType
  <2>2. PICK o \in Openings(es[n], DefaultPanel) : o.layer = "Cutouts"
    BY <2>1, EveryTypeIsCut
  <2>3. PICK c : c = <<n, o>>
    OBVIOUS
  <2>4. c \in drawn
    BY <1>3, <2>1, <2>3
  <2> QED
    BY <2>2, <2>3, <2>4 DEF IsCut
<1>5. \A t \in DOMAIN summary.cutouts :
          summary.cutouts[t] =
              Cardinality({c[1] : c \in {c \in drawn : IsCut(c)}} \cap OfType(layout, t))
  BY <1>2, <1>4
<1>6. summary.stabilizers =
          Cardinality({c \in drawn : IsCut(c) /\ es[c[1]].type = "key_switch" /\ c[2].part # 0})
  BY <1>2, StabilizersDrawn
<1>7. Cardinality(panel.holes) = 5
  <2>1. PICK board : board = Outline(layout, DefaultPanel)
    OBVIOUS
  <2>2. panel.holes = CornerHoles(board) \cup {Hole(0, board.cx, board.cy)}
    BY <2>1, Sizes DEF DrawPanel
  <2> QED
    BY <2>2, FiveHoles
<1>8. summary.holes = Cardinality(panel.holes) + Cardinality({c \in drawn : ~ IsCut(c)})
  BY <1>2, <1>7, ScrewsDrawn
<1> HIDE DEF drawn
<1> QED
  BY <1>1, <1>5, <1>6, <1>8 DEF SummaryMatches, drawn

-----------------------------------------------------------------------------
(* The shell of a companion.                                               *)

\* The shell's outer edge is 14 mm away from every element.
LEMMA BoundsHold ==
    ASSUME NEW es \in Seq(PlacedElementSpec), NEW n \in DOMAIN es,
           NEW e, e = es[n], NEW all, all = Bounds(es)
    PROVE  /\ all.left \in Int /\ all.right \in Int /\ all.top \in Int /\ all.bottom \in Int
           /\ all.left <= e.x /\ e.x + e.w <= all.right
           /\ all.top <= e.y /\ e.y + e.h <= all.bottom
<1>1. PICK count \in Nat \ {0} : DOMAIN es = 1 .. count
  BY SeqDef
<1>2. PICK left, right, top, bottom :
          /\ left = [k \in 1 .. count |-> es[k].x]
          /\ right = [k \in 1 .. count |-> es[k].x + es[k].w]
          /\ top = [k \in 1 .. count |-> es[k].y]
          /\ bottom = [k \in 1 .. count |-> es[k].y + es[k].h]
  OBVIOUS
<1>3. \A k \in 1 .. count : left[k] \in Int /\ right[k] \in Int /\ top[k] \in Int /\ bottom[k] \in Int
  <2> TAKE k \in 1 .. count
  <2>1. PICK f : f = es[k]
    OBVIOUS
  <2>2. f \in PlacedElementSpec
    BY <1>1, <2>1, ElementOfSeq
  <2>3. f.x \in Int /\ f.y \in Int /\ f.w \in Int /\ f.h \in Int
    BY <2>2 DEF PlacedElementSpec
  <2>4. left[k] = f.x /\ right[k] = f.x + f.w /\ top[k] = f.y /\ bottom[k] = f.y + f.h
    BY <1>2, <2>1
  <2> QED
    BY <2>3, <2>4
<1>4. PICK a \in Int : a = Min({left[k] : k \in 1 .. count}) /\ a <= left[n]
  BY <1>1, <1>3, LeastOfList
<1>5. PICK b \in Int : b = Max({right[k] : k \in 1 .. count}) /\ right[n] <= b
  BY <1>1, <1>3, GreatestOfList
<1>6. PICK c \in Int : c = Min({top[k] : k \in 1 .. count}) /\ c <= top[n]
  BY <1>1, <1>3, LeastOfList
<1>7. PICK d \in Int : d = Max({bottom[k] : k \in 1 .. count}) /\ bottom[n] <= d
  BY <1>1, <1>3, GreatestOfList
<1>8. /\ {left[k] : k \in 1 .. count} = {es[k].x : k \in DOMAIN es}
      /\ {right[k] : k \in 1 .. count} = {es[k].x + es[k].w : k \in DOMAIN es}
      /\ {top[k] : k \in 1 .. count} = {es[k].y : k \in DOMAIN es}
      /\ {bottom[k] : k \in 1 .. count} = {es[k].y + es[k].h : k \in DOMAIN es}
  BY <1>1, <1>2
<1>9. all.left = a /\ all.right = b /\ all.top = c /\ all.bottom = d
  BY <1>4, <1>5, <1>6, <1>7, <1>8 DEF Bounds
<1>10. left[n] = e.x /\ right[n] = e.x + e.w /\ top[n] = e.y /\ bottom[n] = e.y + e.h
  BY <1>1, <1>2
<1> QED
  BY <1>4, <1>5, <1>6, <1>7, <1>9, <1>10

Surrounds(outer, e) ==
    /\ outer.x0 \in Int /\ outer.x1 \in Int /\ outer.y0 \in Int /\ outer.y1 \in Int
    /\ outer.x0 + 5600 <= e.x /\ e.x + e.w + 5600 <= outer.x1
    /\ outer.y0 + 5600 <= e.y /\ e.y + e.h + 5600 <= outer.y1

LEMMA OuterAround ==
    ASSUME NEW layout, NEW es \in Seq(PlacedElementSpec), es = layout.elements,
           NEW n \in DOMAIN es
    PROVE  Surrounds(OuterShell(layout, DefaultShell), es[n])
<1>1. PICK all, outer, e : all = Bounds(es) /\ outer = OuterShell(layout, DefaultShell) /\ e = es[n]
  OBVIOUS
<1>2. /\ all.left \in Int /\ all.right \in Int /\ all.top \in Int /\ all.bottom \in Int
      /\ all.left <= e.x /\ e.x + e.w <= all.right
      /\ all.top <= e.y /\ e.y + e.h <= all.bottom
  BY <1>1, BoundsHold
<1>3. e.x \in Int /\ e.y \in Int /\ e.w \in Int /\ e.h \in Int
  <2>1. e \in PlacedElementSpec
    BY <1>1, ElementOfSeq
  <2> QED
    BY <2>1 DEF PlacedElementSpec
<1>4. PICK left, right, top, bottom \in Int :
          /\ left = all.left /\ right = all.right /\ top = all.top /\ bottom = all.bottom
  BY <1>2
<1>5. PICK x, y, w, h \in Int : x = e.x /\ y = e.y /\ w = e.w /\ h = e.h
  BY <1>3
<1>6. left <= x /\ x + w <= right /\ top <= y /\ y + h <= bottom
  BY ONLY <1>2, <1>4, <1>5
<1>7. /\ outer.x0 = left - 5600 /\ outer.y0 = top - 5600
      /\ outer.x1 = right + 5600 /\ outer.y1 = bottom + 5600
  <2>1. DefaultShell.margin = 5600
    BY DEF DefaultShell, Mm
  <2> QED
    BY <1>1, <1>4, <2>1 DEF OuterShell
<1>8. PICK x0, y0, x1, y1 \in Int :
          /\ x0 = left - 5600 /\ y0 = top - 5600 /\ x1 = right + 5600 /\ y1 = bottom + 5600
  OBVIOUS
<1>9. x0 + 5600 <= x /\ x + w + 5600 <= x1 /\ y0 + 5600 <= y /\ y + h + 5600 <= y1
  BY ONLY <1>6, <1>8
<1>10. outer.x0 = x0 /\ outer.x1 = x1 /\ outer.y0 = y0 /\ outer.y1 = y1
  BY ONLY <1>7, <1>8
<1>11. Surrounds(outer, e)
  BY ONLY <1>5, <1>9, <1>10 DEF Surrounds
<1> QED
  BY <1>1, <1>11

IsFeature(f) == f.x \in Int /\ f.y \in Int /\ f.w \in Int /\ f.h \in Int

\* A feature keeps within 14 mm of its element.
Near(f, e) ==
    /\ IsFeature(f)
    /\ e.x - 5600 <= f.x /\ f.x + f.w <= e.x + e.w + 5600
    /\ e.y - 5600 <= f.y /\ f.y + f.h <= e.y + e.h + 5600

LEMMA FeatureFields ==
    ASSUME NEW e \in PlacedElementSpec, NEW role, NEW grow \in Int,
           NEW f, f = Feature(e, role, grow)
    PROVE  /\ f.role = role /\ f.x = e.x - grow /\ f.y = e.y - grow
           /\ f.w = e.w + 2 * grow /\ f.h = e.h + 2 * grow
           /\ IsFeature(f)
<1>1. e.x \in Int /\ e.y \in Int /\ e.w \in Int /\ e.h \in Int
  BY DEF PlacedElementSpec
<1>2. /\ f.role = role /\ f.x = e.x - grow /\ f.y = e.y - grow
      /\ f.w = e.w + 2 * grow /\ f.h = e.h + 2 * grow
  BY DEF Feature
<1> QED
  BY <1>1, <1>2 DEF IsFeature

\* A hole in the middle of its element's feature.
LEMMA MiddleNear ==
    ASSUME NEW e \in PlacedElementSpec, e.w \in Nat, e.h \in Nat, NEW role,
           NEW d \in Nat, d <= e.w + 11000, d <= e.h + 11000,
           NEW f, f = Feature(e, role, 0), NEW cut, cut = Middle(f, d)
    PROVE  Near(cut, e)
<1>1. e.x \in Int /\ e.y \in Int
  BY DEF PlacedElementSpec
<1>2. f.x = e.x /\ f.y = e.y /\ f.w = e.w /\ f.h = e.h
  BY <1>1, FeatureFields
<1>3. /\ cut.x = e.x + (e.w - d) \div 2 /\ cut.w = d
      /\ cut.y = e.y + (e.h - d) \div 2 /\ cut.h = d
  BY <1>2 DEF Middle
<1>4. \A x \in Int : \A w \in Nat : d <= w + 11000 =>
          /\ x + (w - d) \div 2 \in Int
          /\ x - 5600 <= x + (w - d) \div 2 /\ x + (w - d) \div 2 + d <= x + w + 5600
  OBVIOUS
<1> QED
  BY <1>1, <1>3, <1>4 DEF Near, IsFeature

LEMMA ShellSizes ==
    /\ DefaultShell.bezel = 800 /\ DefaultShell.clearance = 800
    /\ 8 * Mm = 3200 /\ 3 * Mm = 1200 /\ Tenths(22) = 880
  BY DEF DefaultShell, Mm, Tenths

FrontRoles == {"display_window", "button_aperture", "speaker_grille", "microphone_port"}

\* What the front cuts for an element is near it.
LEMMA FrontNear ==
    ASSUME NEW e \in PlacedElementSpec, e.w \in Nat, e.h \in Nat,
           NEW f \in FrontFeature(e, DefaultShell), NEW cut, cut = FrontCut(f)
    PROVE  f.role \in FrontRoles /\ Near(cut, e)
<1>1. e.x \in Int /\ e.y \in Int
  BY DEF PlacedElementSpec
<1>2. CASE e.type = "display"
  <2>1. f = DisplayWindow(e, DefaultShell)
    BY <1>2 DEF FrontFeature
  <2>2. /\ f.role = "display_window" /\ f.x = e.x + 800 /\ f.y = e.y + 800
        /\ f.w = AtLeast(e.w - 1600, 3200) /\ f.h = AtLeast(e.h - 1600, 3200)
    BY <2>1, ShellSizes DEF DisplayWindow
  <2>3. cut = f
    BY <2>2 DEF FrontCut
  <2> QED
    BY <1>1, <2>2, <2>3 DEF Near, IsFeature, AtLeast, FrontRoles
<1>3. CASE e.type = "button"
  <2>1. f = Feature(e, "button_aperture", 0)
    BY <1>3 DEF FrontFeature
  <2>2. f.role = "button_aperture" /\ f.w = e.w /\ f.h = e.h
    BY <2>1, FeatureFields
  <2>3. PICK d \in Nat : /\ d = AtLeast(AtMost(f.w, f.h) - 3 * Mm, 8 * Mm)
                         /\ d <= e.w + 11000 /\ d <= e.h + 11000
    BY <2>2, ShellSizes DEF AtLeast, AtMost
  <2>4. cut = Middle(f, d)
    BY <2>2, <2>3 DEF FrontCut
  <2> QED
    BY <2>1, <2>2, <2>3, <2>4, MiddleNear DEF FrontRoles
<1>4. CASE e.type = "speaker"
  <2>1. f = Feature(e, "speaker_grille", 0)
    BY <1>4 DEF FrontFeature
  <2>2. f.role = "speaker_grille" /\ f.w = e.w /\ f.h = e.h
    BY <2>1, FeatureFields
  <2>3. PICK side \in Nat : side = AtMost(f.w, f.h) /\ side <= e.w /\ side <= e.h
    BY <2>2 DEF AtMost
  <2>4. PICK part \in Nat : part = (22 * side) \div 100 /\ 2 * part <= side
    BY <2>3
  <2>5. PICK d \in Nat : /\ d = 2 * ((22 * AtMost(f.w, f.h)) \div 100) + 3 * Mm
                         /\ d <= e.w + 11000 /\ d <= e.h + 11000
    BY <2>3, <2>4, ShellSizes
  <2>6. cut = Middle(f, d)
    BY <2>2, <2>5 DEF FrontCut
  <2> QED
    BY <2>1, <2>2, <2>5, <2>6, MiddleNear DEF FrontRoles
<1>5. CASE e.type = "microphone"
  <2>1. f = Feature(e, "microphone_port", 0)
    BY <1>5 DEF FrontFeature
  <2>2. f.role = "microphone_port"
    BY <2>1, FeatureFields
  <2>3. cut = Middle(f, 880)
    BY <2>2, ShellSizes DEF FrontCut
  <2>4. 880 \in Nat /\ 880 <= e.w + 11000 /\ 880 <= e.h + 11000
    OBVIOUS
  <2> QED
    BY <2>1, <2>2, <2>3, <2>4, MiddleNear DEF FrontRoles
<1> QED
  BY <1>2, <1>3, <1>4, <1>5 DEF FrontFeature

\* What the rear holds for an element is near it.
LEMMA RearNear ==
    ASSUME NEW e \in PlacedElementSpec, e.w \in Nat, e.h \in Nat,
           NEW f \in RearFeature(e, DefaultShell)
    PROVE  f.role \in {"speaker_clearance", "battery_cavity"} /\ Near(f, e)
<1>1. e.x \in Int /\ e.y \in Int
  BY DEF PlacedElementSpec
<1>2. CASE e.type = "speaker"
  <2>1. f = Feature(e, "speaker_clearance", 0)
    BY <1>2 DEF RearFeature
  <2>2. f.role = "speaker_clearance" /\ f.x = e.x /\ f.y = e.y /\ f.w = e.w /\ f.h = e.h
    BY <1>1, <2>1, FeatureFields
  <2> QED
    BY <1>1, <2>2 DEF Near, IsFeature
<1>3. CASE e.type = "battery"
  <2>1. f = Feature(e, "battery_cavity", 800)
    BY <1>3, ShellSizes DEF RearFeature
  <2>2. /\ f.role = "battery_cavity" /\ f.x = e.x - 800 /\ f.y = e.y - 800
        /\ f.w = e.w + 1600 /\ f.h = e.h + 1600
    BY <1>1, <2>1, FeatureFields
  <2> QED
    BY <1>1, <2>2 DEF Near, IsFeature
<1> QED
  BY <1>2, <1>3 DEF RearFeature

\* Every part of a companion has its feature.
LEMMA FeaturesPresent ==
    ASSUME NEW e
    PROVE  /\ e.type = "display" => /\ DisplayWindow(e, DefaultShell) \in FrontFeature(e, DefaultShell)
                                    /\ DisplayWindow(e, DefaultShell).role = "display_window"
           /\ e.type = "button" => /\ Feature(e, "button_aperture", 0) \in FrontFeature(e, DefaultShell)
                                   /\ Feature(e, "button_aperture", 0).role = "button_aperture"
           /\ e.type = "speaker" => /\ Feature(e, "speaker_grille", 0) \in FrontFeature(e, DefaultShell)
                                    /\ Feature(e, "speaker_grille", 0).role = "speaker_grille"
                                    /\ Feature(e, "speaker_clearance", 0) \in RearFeature(e, DefaultShell)
                                    /\ Feature(e, "speaker_clearance", 0).role = "speaker_clearance"
           /\ e.type = "microphone" => /\ Feature(e, "microphone_port", 0) \in FrontFeature(e, DefaultShell)
                                       /\ Feature(e, "microphone_port", 0).role = "microphone_port"
           /\ e.type = "battery" =>
                  /\ Feature(e, "battery_cavity", DefaultShell.clearance) \in RearFeature(e, DefaultShell)
                  /\ Feature(e, "battery_cavity", DefaultShell.clearance).role = "battery_cavity"
<1>1. \A role, grow : Feature(e, role, grow).role = role
  BY DEF Feature
<1>2. DisplayWindow(e, DefaultShell).role = "display_window"
  BY DEF DisplayWindow
<1> QED
  BY <1>1, <1>2 DEF FrontFeature, RearFeature

LEMMA SomeOfType ==
    ASSUME NEW layout, layout.elements \in Seq(PlacedElementSpec), NEW type, NEW count \in Nat \ {0},
           Has(layout, type, count)
    PROVE  \E n \in DOMAIN layout.elements : layout.elements[n].type = type
<1>1. IsFiniteSet(OfType(layout, type)) /\ Cardinality(OfType(layout, type)) # 0
  BY FinitelyMany DEF Has
<1>2. OfType(layout, type) # {}
  BY <1>1, FS_EmptySet
<1> QED
  BY <1>2 DEF OfType

\* The shell of a layout with the parts a companion must have is complete.
LEMMA CompanionShell ==
    ASSUME NEW layout, layout.elements \in Seq(PlacedElementSpec), layout.elements # <<>>,
           \A n \in DOMAIN layout.elements :
               layout.elements[n].w \in Nat /\ layout.elements[n].h \in Nat,
           Has(layout, "button", 4),
           \A t \in {"display", "battery", "speaker", "microphone", "usb_port"} : Has(layout, t, 1)
    PROVE  ShellComplete(ShellSpec(layout, DefaultShell), OuterShell(layout, DefaultShell))
<1> DEFINE es == layout.elements
<1>1. PICK shell, outer : shell = ShellSpec(layout, DefaultShell) /\ outer = OuterShell(layout, DefaultShell)
  OBVIOUS
<1>2. \A n \in DOMAIN es : es[n] \in PlacedElementSpec
  BY ElementOfSeq
<1>3. /\ shell.front = UNION {FrontFeature(es[n], DefaultShell) : n \in DOMAIN es}
      /\ shell.rear = UNION {RearFeature(es[n], DefaultShell) : n \in DOMAIN es}
      /\ shell.ports = {[id |-> es[n].id, edge |-> EdgeForPort(es[n], outer)] :
                            n \in {n \in DOMAIN es : es[n].type = "usb_port"}}
  BY <1>1 DEF ShellSpec
<1>4. \A t \in {"display", "battery", "speaker", "microphone", "usb_port"} :
          \E n \in DOMAIN es : es[n].type = t
  <2>1. 1 \in Nat \ {0}
    OBVIOUS
  <2> QED
    BY <2>1, SomeOfType
<1>5. \A f : f \in shell.front <=> \E n \in DOMAIN es : f \in FrontFeature(es[n], DefaultShell)
  BY <1>3
<1>6. \A f : f \in shell.rear <=> \E n \in DOMAIN es : f \in RearFeature(es[n], DefaultShell)
  BY <1>3
<1>7. PICK display, button, speaker, microphone, battery, port \in DOMAIN es :
          /\ es[display].type = "display" /\ es[button].type = "button"
          /\ es[speaker].type = "speaker" /\ es[microphone].type = "microphone"
          /\ es[battery].type = "battery" /\ es[port].type = "usb_port"
  <2>1. PICK display \in DOMAIN es : es[display].type = "display"
    BY <1>4
  <2>2. PICK speaker \in DOMAIN es : es[speaker].type = "speaker"
    BY <1>4
  <2>3. PICK microphone \in DOMAIN es : es[microphone].type = "microphone"
    BY <1>4
  <2>4. PICK battery \in DOMAIN es : es[battery].type = "battery"
    BY <1>4
  <2>5. PICK port \in DOMAIN es : es[port].type = "usb_port"
    BY <1>4
  <2>6. PICK button \in DOMAIN es : es[button].type = "button"
    <3>1. 4 \in Nat \ {0}
      OBVIOUS
    <3> QED
      BY <3>1, SomeOfType
  <2> QED
    BY <2>1, <2>2, <2>3, <2>4, <2>5, <2>6
<1>8. {f.role : f \in shell.front} = FrontRoles
  <2>1. \A f \in shell.front : f.role \in FrontRoles
    BY <1>2, <1>5, FrontNear
  <2>2. /\ \E f \in shell.front : f.role = "display_window"
        /\ \E f \in shell.front : f.role = "button_aperture"
        /\ \E f \in shell.front : f.role = "speaker_grille"
        /\ \E f \in shell.front : f.role = "microphone_port"
    <3>1. \E f \in shell.front : f.role = "display_window"
      <4>1. PICK e : e = es[display] /\ e.type = "display"
        BY <1>7
      <4>2. PICK f \in FrontFeature(e, DefaultShell) : f.role = "display_window"
        BY ONLY <4>1, FeaturesPresent
      <4> QED
        BY <1>5, <4>1, <4>2
    <3>2. \E f \in shell.front : f.role = "button_aperture"
      <4>1. PICK e : e = es[button] /\ e.type = "button"
        BY <1>7
      <4>2. PICK f \in FrontFeature(e, DefaultShell) : f.role = "button_aperture"
        BY ONLY <4>1, FeaturesPresent
      <4> QED
        BY <1>5, <4>1, <4>2
    <3>3. \E f \in shell.front : f.role = "speaker_grille"
      <4>1. PICK e : e = es[speaker] /\ e.type = "speaker"
        BY <1>7
      <4>2. PICK f \in FrontFeature(e, DefaultShell) : f.role = "speaker_grille"
        BY ONLY <4>1, FeaturesPresent
      <4> QED
        BY <1>5, <4>1, <4>2
    <3>4. \E f \in shell.front : f.role = "microphone_port"
      <4>1. PICK e : e = es[microphone] /\ e.type = "microphone"
        BY <1>7
      <4>2. PICK f \in FrontFeature(e, DefaultShell) : f.role = "microphone_port"
        BY ONLY <4>1, FeaturesPresent
      <4> QED
        BY <1>5, <4>1, <4>2
    <3> QED
      BY <3>1, <3>2, <3>3, <3>4
  <2> QED
    BY <2>1, <2>2 DEF FrontRoles
<1>9. {f.role : f \in shell.rear} = {"speaker_clearance", "battery_cavity"}
  <2>1. \A f \in shell.rear : f.role \in {"speaker_clearance", "battery_cavity"}
    BY <1>2, <1>6, RearNear
  <2>2. /\ \E f \in shell.rear : f.role = "speaker_clearance"
        /\ \E f \in shell.rear : f.role = "battery_cavity"
    <3>1. \E f \in shell.rear : f.role = "speaker_clearance"
      <4>1. PICK e : e = es[speaker] /\ e.type = "speaker"
        BY <1>7
      <4>2. PICK f \in RearFeature(e, DefaultShell) : f.role = "speaker_clearance"
        BY ONLY <4>1, FeaturesPresent
      <4> QED
        BY <1>6, <4>1, <4>2
    <3>2. \E f \in shell.rear : f.role = "battery_cavity"
      <4>1. PICK e : e = es[battery] /\ e.type = "battery"
        BY <1>7
      <4>2. PICK f \in RearFeature(e, DefaultShell) : f.role = "battery_cavity"
        BY ONLY <4>1, FeaturesPresent
      <4> QED
        BY <1>6, <4>1, <4>2
    <3> QED
      BY <3>1, <3>2
  <2> QED
    BY <2>1, <2>2
<1>12. shell.ports # {}
  <2>1. [id |-> es[port].id, edge |-> EdgeForPort(es[port], outer)] \in shell.ports
    BY <1>3, <1>7
  <2> QED
    BY <2>1
<1>10. ASSUME NEW n \in DOMAIN es, NEW f, Near(f, es[n])
       PROVE  outer.x0 <= f.x /\ f.x + f.w <= outer.x1 /\ outer.y0 <= f.y /\ f.y + f.h <= outer.y1
  <2>1. PICK e : e = es[n]
    OBVIOUS
  <2>2. e.x \in Int /\ e.y \in Int /\ e.w \in Int /\ e.h \in Int
    BY <1>2, <2>1 DEF PlacedElementSpec
  <2>3. /\ outer.x0 \in Int /\ outer.x1 \in Int /\ outer.y0 \in Int /\ outer.y1 \in Int
        /\ outer.x0 + 5600 <= e.x /\ e.x + e.w + 5600 <= outer.x1
        /\ outer.y0 + 5600 <= e.y /\ e.y + e.h + 5600 <= outer.y1
    <3>1. Surrounds(OuterShell(layout, DefaultShell), es[n])
      BY OuterAround
    <3> QED
      BY <1>1, <2>1, <3>1 DEF Surrounds
  <2>4. Near(f, e)
    BY <1>10, <2>1
  <2> QED
    BY ONLY <2>2, <2>3, <2>4 DEF Near, IsFeature
<1>11. \A f \in {FrontCut(g) : g \in shell.front} \cup shell.rear :
           \E n \in DOMAIN es : Near(f, es[n])
  <2>1. \A g \in shell.front : \E n \in DOMAIN es : Near(FrontCut(g), es[n])
    BY <1>2, <1>5, FrontNear
  <2>2. \A f \in shell.rear : \E n \in DOMAIN es : Near(f, es[n])
    BY <1>2, <1>6, RearNear
  <2> QED
    BY <2>1, <2>2
<1> QED
  BY <1>1, <1>8, <1>9, <1>10, <1>11, <1>12 DEF ShellComplete, FrontRoles
=============================================================================
