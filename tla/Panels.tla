------------------------------- MODULE Panels -------------------------------
(***************************************************************************)
(* The laser-cut panel of a layout (server/geometry/plate_generator.py).   *)
(* An opening or hole is kept as the box around it as it is drawn, turned: *)
(* twice its centre, and its size, in 1/Scale of the layout's unit, so     *)
(* that nothing is rounded but the sines.  Rotations are whole degrees.    *)
(***************************************************************************)
EXTENDS Electronics

CONSTANT Turn       \* <<cosine, sine>> of every whole degree, in 1/Scale

Scale == 1000
Magnitude(n) == AtLeast(n, -n)

\* Quarter turns are exact, and no direction is shorter than its two steps.
ASSUME TurnAssumption ==
    /\ Turn \in [0 .. 359 -> (-Scale .. Scale) \X (-Scale .. Scale)]
    /\ Turn[0] = <<Scale, 0>> /\ Turn[90] = <<0, Scale>>
    /\ Turn[180] = <<-Scale, 0>> /\ Turn[270] = <<0, -Scale>>
    /\ \A angle \in 0 .. 359 : Magnitude(Turn[angle][1]) + Magnitude(Turn[angle][2]) >= Scale

DefaultPanel == [margin |-> Tenths(75), kerf |-> 0, stabilizers |-> TRUE, holes |-> TRUE]

MxCutout == 14 * Mm
MountMargin == 6 * Mm
MountDiameter == Tenths(25)

Cos(e) == Turn[e.rot % 360][1]
Sin(e) == Turn[e.rot % 360][2]
Shorter(e) == AtMost(e.w, e.h)
Longer(e) == AtLeast(e.w, e.h)

-----------------------------------------------------------------------------
(* What is cut.  dx, dy is twice the distance from the element's centre,    *)
(* before the element is turned (_rotated_point); part numbers the openings *)
(* of one element.                                                          *)

CenterX(e, dx, dy) == Scale * (2 * e.x + e.w) + dx * Cos(e) - dy * Sin(e)
CenterY(e, dx, dy) == Scale * (2 * e.y + e.h) + dx * Sin(e) + dy * Cos(e)

\* How far a turned rectangle reaches along an axis, from its side along it and the other.
Reach(e, along, across) == along * Magnitude(Cos(e)) + across * Magnitude(Sin(e))

Opening(part, cx, cy, w, h) ==
    [part |-> part, layer |-> "Cutouts", cx |-> cx, cy |-> cy, w |-> w, h |-> h]

\* A rectangle turns with its element, a circle only moves.
Box(e, part, dx, dy, w, h) ==
    Opening(part, CenterX(e, dx, dy), CenterY(e, dx, dy), Reach(e, w, h), Reach(e, h, w))

Bore(e, part, dx, dy, diameter) ==
    Opening(part, CenterX(e, dx, dy), CenterY(e, dx, dy), Scale * diameter, Scale * diameter)

Rect(e, w, h, kerf) == {Box(e, 0, 0, 0, w + kerf, h + kerf)}
Circle(e, diameter) == {Bore(e, 0, 0, 0, diameter)}

Inside(a, b) ==
    /\ b.cx - b.w <= a.cx - a.w /\ a.cx + a.w <= b.cx + b.w
    /\ b.cy - b.h <= a.cy - a.h /\ a.cy + a.h <= b.cy + b.h

\* They share more than slack on both axes.
Meet(a, b, slack) ==
    /\ a.cx - a.w < b.cx + b.w - slack /\ b.cx - b.w < a.cx + a.w - slack
    /\ a.cy - a.h < b.cy + b.h - slack /\ b.cy - b.h < a.cy + a.h - slack

-----------------------------------------------------------------------------
(* Openings by type.                                                        *)

\* _stab_wire_offset: the table is asked for the decimal text of the width in units.
\* 2u and 6.25u are found; 7u is not, for 133.35 / 19.05 is 6.999999999999999 in doubles,
\* and takes 2u's entry as every other width from 2u on does (2.25u and 2.75u have the
\* same one).  0 stands for no offset.
StabOffset(width) ==
    CASE width = (25 * UnitPitch) \div 4 -> 50 * Mm
      [] width # (25 * UnitPitch) \div 4 /\ width >= 2 * UnitPitch -> (11938 * Mm) \div 1000
      [] OTHER -> 0

Stabilized(e, config) == config.stabilizers /\ e.stab /\ StabOffset(e.w) # 0

StabOpening(e, sign, kerf) ==
    Box(e, sign, 2 * sign * StabOffset(e.w), 0, (665 * Mm) \div 100 + kerf, Tenths(123) + kerf)

\* Mutant of SwitchOpenings: drawn for every width and configuration.
SwitchOpeningsAlways(e, config) ==
    Rect(e, MxCutout, MxCutout, config.kerf)
        \cup {StabOpening(e, sign, config.kerf) : sign \in IF e.stab THEN {-1, 1} ELSE {}}

SwitchOpenings(e, config) ==
    Rect(e, MxCutout, MxCutout, config.kerf)
        \cup {StabOpening(e, sign, config.kerf) :
                  sign \in IF Stabilized(e, config) THEN {-1, 1} ELSE {}}

\* A slot when one side is 1.3 times the other, a hole otherwise.
ButtonOpening(e, kerf) ==
    IF 10 * Longer(e) >= 13 * Shorter(e)
    THEN Rect(e, AtLeast(e.w - 6 * Mm, 8 * Mm), AtLeast(e.h - 4 * Mm, 6 * Mm), kerf)
    ELSE Circle(e, AtLeast(Shorter(e) - 7 * Mm, 8 * Mm) + kerf)

SliderOpening(e, kerf) ==
    IF e.w >= e.h
    THEN Rect(e, AtLeast(e.w - 8 * Mm, 12 * Mm), AtLeast((2 * e.h) \div 5, 6 * Mm), kerf)
    ELSE Rect(e, AtLeast((2 * e.w) \div 5, 6 * Mm), AtLeast(e.h - 8 * Mm, 12 * Mm), kerf)

\* One hole in the middle and six on a ring, which is not turned with the element.
GrilleRing(e) == AtLeast((22 * Shorter(e)) \div 100, 6 * Mm)
GrilleHole(kerf) == AtLeast(3 * Mm + kerf, Tenths(24))

GrilleOffsets(ring) ==
    LET high == (1732 * ring) \div 1000
    IN  <<<<0, 0>>, <<2 * ring, 0>>, <<ring, high>>, <<-ring, high>>,
          <<-2 * ring, 0>>, <<-ring, -high>>, <<ring, -high>>>>

SpeakerGrille(e, kerf) ==
    LET offsets == GrilleOffsets(GrilleRing(e))
    IN  {Bore([e EXCEPT !.rot = 0], n, offsets[n][1], offsets[n][2], GrilleHole(kerf)) :
            n \in 1 .. 7}

JoystickHole(e, sx, sy) ==
    [Bore(e, 10 + 2 * sx + sy, sx * AtLeast(e.w - 9 * Mm, 0), sy * AtLeast(e.h - 9 * Mm, 0),
          Tenths(24)) EXCEPT !.layer = "MountingHoles"]

JoystickOpenings(e, config) ==
    Circle(e, AtMost(16 * Mm, Shorter(e) - 6 * Mm) + config.kerf)
        \cup IF config.holes THEN {JoystickHole(e, sx, sy) : sx \in {-1, 1}, sy \in {-1, 1}} ELSE {}

\* LED clusters, batteries and mounting features have no opening.
Openings(e, config) ==
    CASE e.type = "key_switch" -> SwitchOpenings(e, config)
      [] e.type = "encoder" -> Circle(e, Tenths(72) + config.kerf)
      [] e.type = "button" -> ButtonOpening(e, config.kerf)
      [] e.type = "pad" ->
            Rect(e, AtLeast(e.w - 4 * Mm, 10 * Mm), AtLeast(e.h - 4 * Mm, 10 * Mm), config.kerf)
      [] e.type = "display" ->
            Rect(e, AtLeast(e.w - 4 * Mm, 8 * Mm), AtLeast(e.h - 4 * Mm, 6 * Mm), config.kerf)
      [] e.type = "joystick" -> JoystickOpenings(e, config)
      [] e.type = "slider" -> SliderOpening(e, config.kerf)
      [] e.type = "usb_port" ->
            Rect(e, AtLeast(e.w - 2 * Mm, 8 * Mm), AtLeast(e.h - 2 * Mm, Tenths(35)), config.kerf)
      [] e.type = "speaker" -> SpeakerGrille(e, config.kerf)
      [] e.type = "microphone" -> Circle(e, AtLeast(Tenths(22) + config.kerf, Tenths(18)))
      [] e.type = "sensor" -> Circle(e, AtLeast(3 * Mm + config.kerf, Tenths(24)))
      [] OTHER -> {}

-----------------------------------------------------------------------------
(* The board.  Its outline is a box too; get_plate_bounds repeats it.       *)

\* The box around an element (_element_corners_mm), also when a size is negative.
Body(e) == Box(e, 0, 0, 0, Magnitude(e.w), Magnitude(e.h))

\* How far the elements reach on each side.
Extents(es) ==
    [left |-> Min({Body(es[n]).cx - Body(es[n]).w : n \in DOMAIN es}),
     right |-> Max({Body(es[n]).cx + Body(es[n]).w : n \in DOMAIN es}),
     low |-> Min({Body(es[n]).cy - Body(es[n]).h : n \in DOMAIN es}),
     high |-> Max({Body(es[n]).cy + Body(es[n]).h : n \in DOMAIN es})]

Outline(layout, config) ==
    LET all == Extents(layout.elements)
    IN  [cx |-> (all.left + all.right) \div 2, cy |-> (all.low + all.high) \div 2,
         w |-> (all.right - all.left) \div 2 + 2 * Scale * config.margin,
         h |-> (all.high - all.low) \div 2 + 2 * Scale * config.margin]

\* Five holes are drawn even where they fall together: part tells them apart.
Hole(part, cx, cy) ==
    [part |-> part, cx |-> cx, cy |-> cy, w |-> Scale * MountDiameter, h |-> Scale * MountDiameter]

CornerHoles(board) ==
    {Hole(2 * sx + sy, board.cx + sx * (board.w - 2 * Scale * MountMargin),
                       board.cy + sy * (board.h - 2 * Scale * MountMargin)) :
        sx \in {-1, 1}, sy \in {-1, 1}}

\* What generate_plate_dxf draws, element by element, and the holes of the board.
DrawPanel(layout, config) ==
    [openings |-> [n \in DOMAIN layout.elements |-> Openings(layout.elements[n], config)],
     holes |-> IF config.holes /\ layout.elements # <<>>
               THEN LET board == Outline(layout, config)
                    IN  CornerHoles(board) \cup {Hole(0, board.cx, board.cy)}
               ELSE {}]

PanelKind(layout) ==
    LET types == {layout.elements[n].type : n \in DOMAIN layout.elements}
    IN  CASE types \subseteq {"key_switch"} -> "switch_plate"
          [] "key_switch" \in types /\ types # {"key_switch"} -> "hybrid_control_panel"
          [] OTHER -> "control_panel"

\* summarize_plate_geometry: counted from the elements, not from the drawing.
PanelSummary(layout, config) ==
    [kind |-> PanelKind(layout),
     cutouts |-> [t \in ElementTypes \ {"led_cluster", "battery", "mounting_feature"} |->
                     Cardinality(OfType(layout, t))],
     stabilizers |-> 2 * Cardinality({n \in OfType(layout, "key_switch") :
                                          Stabilized(layout.elements[n], config)}),
     holes |-> IF config.holes /\ layout.elements # <<>>
               THEN 5 + 4 * Cardinality(OfType(layout, "joystick")) ELSE 0]

-----------------------------------------------------------------------------
(* What a panel has to be.                                                  *)

\* Of a size whose openings fit.  The ring of a speaker's grille never gets smaller
\* than 15 mm.
Ordinary(e) == Shorter(e) >= IF e.type = "speaker" THEN 15 * Mm ELSE MxCutout

\* Where the overlap check takes every element to be: it compares unturned sides.
Upright(e) == e.rot % 90 = 0 /\ (e.rot % 180 # 0 => e.w = e.h)

ClearOfBoard(openings, controls, board, corners) ==
    \A n \in controls : \A o \in openings[n] :
        Inside(o, board) /\ \A corner \in corners : ~ Meet(o, corner, 0)

ClearOfEachOther(openings, controls, slack) ==
    \A m, n \in controls : m # n =>
        \A o \in openings[m], other \in openings[n] : ~ Meet(o, other, slack)

\* What is drawn of a panel, and what of that is cut for a control.
Drawn(openings) == UNION {{<<n, o>> : o \in openings[n]} : n \in DOMAIN openings}
IsCut(c) == c[2].layer = "Cutouts"

SummaryMatches(layout, summary, panel, drawn) ==
    /\ \A t \in DOMAIN summary.cutouts :
           summary.cutouts[t] =
               Cardinality({c[1] : c \in {c \in drawn : IsCut(c)}} \cap OfType(layout, t))
    /\ summary.stabilizers =
           Cardinality({c \in drawn : IsCut(c) /\ layout.elements[c[1]].type = "key_switch"
                                          /\ c[2].part # 0})
    /\ summary.holes = Cardinality(panel.holes) + Cardinality({c \in drawn : ~ IsCut(c)})
=============================================================================
