---------------------------- MODULE HandheldShell ----------------------------
(***************************************************************************)
(* The two-piece handheld shell (server/geometry/handheld_shell_generator.py): *)
(* features of the front and the rear, ports in the side, screw holes.     *)
(* The compiler ignores rotations.  Features are [id, role, x, y, w, h].   *)
(***************************************************************************)
EXTENDS Electronics

DefaultShell == [margin |-> 14 * Mm, bezel |-> 2 * Mm, clearance |-> 2 * Mm, inset |-> 8 * Mm]

Bounds(es) ==
    [left |-> Min({es[n].x : n \in DOMAIN es}), right |-> Max({es[n].x + es[n].w : n \in DOMAIN es}),
     top |-> Min({es[n].y : n \in DOMAIN es}), bottom |-> Max({es[n].y + es[n].h : n \in DOMAIN es})]

OuterShell(layout, config) ==
    LET all == Bounds(layout.elements)
    IN  [x0 |-> all.left - config.margin, y0 |-> all.top - config.margin,
         x1 |-> all.right + config.margin, y1 |-> all.bottom + config.margin]

Feature(e, role, grow) ==
    [id |-> e.id, role |-> role, x |-> e.x - grow, y |-> e.y - grow,
     w |-> e.w + 2 * grow, h |-> e.h + 2 * grow]

DisplayWindow(e, config) ==
    [id |-> e.id, role |-> "display_window", x |-> e.x + config.bezel, y |-> e.y + config.bezel,
     w |-> AtLeast(e.w - 2 * config.bezel, 8 * Mm), h |-> AtLeast(e.h - 2 * config.bezel, 8 * Mm)]

FrontFeature(e, config) ==
    CASE e.type = "display" -> {DisplayWindow(e, config)}
      [] e.type = "button" -> {Feature(e, "button_aperture", 0)}
      [] e.type = "speaker" -> {Feature(e, "speaker_grille", 0)}
      [] e.type = "microphone" -> {Feature(e, "microphone_port", 0)}
      [] OTHER -> {}

RearFeature(e, config) ==
    CASE e.type = "speaker" -> {Feature(e, "speaker_clearance", 0)}
      [] e.type = "battery" -> {Feature(e, "battery_cavity", config.clearance)}
      [] OTHER -> {}

\* A round hole in the middle of a feature.
Middle(f, d) ==
    [id |-> f.id, role |-> f.role, x |-> f.x + (f.w - d) \div 2, y |-> f.y + (f.h - d) \div 2,
     w |-> d, h |-> d]

\* What the front drawing cuts for a feature: its rectangle, a hole in its middle,
\* or the middle hole and the outermost holes of a grille.
FrontCut(f) ==
    CASE f.role = "button_aperture" -> Middle(f, AtLeast(AtMost(f.w, f.h) - 3 * Mm, 8 * Mm))
      [] f.role = "microphone_port" -> Middle(f, Tenths(22))
      [] f.role = "speaker_grille" -> Middle(f, 2 * ((22 * AtMost(f.w, f.h)) \div 100) + 3 * Mm)
      [] OTHER -> f

\* _edge_for_port: the nearest edge, the first of these four on a tie.
EdgeForPort(e, outer) ==
    LET away == <<e.x - outer.x0, outer.x1 - (e.x + e.w), e.y - outer.y0, outer.y1 - (e.y + e.h)>>
        nearest == CHOOSE n \in 1 .. 4 : \A m \in 1 .. 4 :
                       away[n] < away[m] \/ (away[n] = away[m] /\ n <= m)
    IN  <<"left", "right", "top", "bottom">>[nearest]

ShellSpec(layout, config) ==
    LET es == layout.elements
    IN  IF es = <<>>
        THEN [front |-> {}, rear |-> {}, ports |-> {}, screws |-> {}, summary |-> <<>>]
        ELSE LET outer == OuterShell(layout, config)
                 usb == {n \in DOMAIN es : es[n].type = "usb_port"}
             IN  [front |-> UNION {FrontFeature(es[n], config) : n \in DOMAIN es},
                  rear |-> UNION {RearFeature(es[n], config) : n \in DOMAIN es},
                  ports |-> {[id |-> es[n].id, edge |-> EdgeForPort(es[n], outer)] : n \in usb},
                  screws |-> {[x |-> x, y |-> y] : x \in {outer.x0 + config.inset, outer.x1 - config.inset},
                                                   y \in {outer.y0 + config.inset, outer.y1 - config.inset}},
                  summary |-> [t \in {es[n].type : n \in DOMAIN es} |-> Cardinality(OfType(layout, t))]]

-----------------------------------------------------------------------------
\* An opening or a cavity for each part a companion must have, inside the shell.
ShellComplete(shell, outer) ==
    /\ {f.role : f \in shell.front} =
           {"display_window", "button_aperture", "speaker_grille", "microphone_port"}
    /\ {f.role : f \in shell.rear} = {"speaker_clearance", "battery_cavity"}
    /\ shell.ports # {}
    /\ \A f \in {FrontCut(g) : g \in shell.front} \cup shell.rear :
           /\ outer.x0 <= f.x /\ f.x + f.w <= outer.x1
           /\ outer.y0 <= f.y /\ f.y + f.h <= outer.y1
=============================================================================
