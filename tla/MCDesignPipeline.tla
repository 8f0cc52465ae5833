-------------------------- MODULE MCDesignPipeline --------------------------
(***************************************************************************)
(* Instances of DesignPipeline for TLC: the layouts that clients send, by  *)
(* product family.                                                         *)
(***************************************************************************)
EXTENDS DesignPipeline, TLC

\* Sines of 0 to 90 degrees, in thousandths.
FirstQuarter ==
    <<0, 17, 35, 52, 70, 87, 105, 122, 139, 156, 174, 191, 208, 225, 242, 259, 276,
      292, 309, 326, 342, 358, 375, 391, 407, 423, 438, 454, 469, 485, 500, 515,
      530, 545, 559, 574, 588, 602, 616, 629, 643, 656, 669, 682, 695, 707, 719,
      731, 743, 755, 766, 777, 788, 799, 809, 819, 829, 839, 848, 857, 866, 875,
      883, 891, 899, 906, 914, 921, 927, 934, 940, 946, 951, 956, 961, 966, 970,
      974, 978, 982, 985, 988, 990, 993, 995, 996, 998, 999, 999, 1000, 1000>>

Sine(angle) ==
    LET half == angle % 180
        rise == FirstQuarter[IF half <= 90 THEN half + 1 ELSE 181 - half]
    IN  IF angle % 360 < 180 THEN rise ELSE -rise

Turns == [angle \in 0 .. 359 |-> <<Sine(angle + 90), Sine(angle)>>]

U == UnitPitch
Half == UnitPitch \div 2

Key(id, label, x, y) ==
    [id |-> id, label |-> label, x |-> x, y |-> y, w |-> U, h |-> U, rot |-> 0,
     stab |-> FALSE, asset |-> NoAsset, at |-> NoPlace]

Element(type, id, label, x, y, w, h) ==
    [id |-> id, type |-> type, label |-> label, footprint |-> "none", x |-> x, y |-> y,
     w |-> w, h |-> h, rot |-> 0, stab |-> FALSE, asset |-> NoAsset, look |-> NoAsset,
     at |-> NoPlace]

\* Millimetres, on a grid of half key units.
Part(type, id, label, x, y, w, h) == Element(type, id, label, x * Mm, y * Mm, w * Mm, h * Mm)
Control(type, id, label, col, row) == Element(type, id, label, col * Half, row * Half, U, U)

Payload(keys, elements) == [pitch |-> UnitPitch, keys |-> keys, elements |-> elements]
OfKeys(keys) == Payload(keys, <<>>)
Of(elements) == Payload(<<>>, elements)

Name(n) == "k" \o ToString(n)
\* n keys in rows of cols; n controls of a type.
GridOf(n, cols) ==
    [i \in 1 .. n |-> Key(Name(i), "A", ((i - 1) % cols) * U, ((i - 1) \div cols) * U)]
RowOf(type, n) == [i \in 1 .. n |-> Control(type, Name(i), "X", 3 * i, 0)]

K1 == Key("k1", "A", 0, 0)
K2 == Key("k2", "B", U, 0)
K3 == Key("k3", "X", 0, U)
Knob == Control("encoder", "e1", "Vol", 0, 6)
Screen == Part("display", "d1", "Oled", 80, 0, 30, 15)

-----------------------------------------------------------------------------
\* The keyboard's: few, but with assets.
Keyboard ==
    {OfKeys(<<K1, K2>>),
     OfKeys(<<K1, [K2 EXCEPT !.asset = "a1"]>>),
     OfKeys(<<[K1 EXCEPT !.asset = "ghost"], K2>>),
     Of(<<[Control("button", "b1", "Esc", 0, 0) EXCEPT !.look = "a1"], [Knob EXCEPT !.look = "a1"]>>)}

\* The macropad's: everything about rows, ids, sizes and limits.
Grids ==
    {OfKeys(<<>>),
     OfKeys(GridOf(6, 3)), OfKeys(GridOf(25, 25)), OfKeys(GridOf(26, 26)), OfKeys(GridOf(28, 14)),
     \* centres half a unit apart, and a little more; a staircase
     OfKeys(<<K1, [K2 EXCEPT !.y = Half]>>), OfKeys(<<K1, [K2 EXCEPT !.y = Half + 1]>>),
     OfKeys([i \in 1 .. 5 |-> Key(Name(i), "A", i * U, i * (Half - 100))]),
     OfKeys([i \in 1 .. 5 |-> Key(Name(6 - i), "", (6 - i) * U, (i % 3) * (Half \div 2))]),
     \* a tall key beside two, wide keys with and without stabilisers
     OfKeys(<<K1, K3, [K2 EXCEPT !.h = 2 * U]>>),
     OfKeys(<<[K1 EXCEPT !.stab = TRUE], [K2 EXCEPT !.w = 2 * U]>>),
     OfKeys(<<[K1 EXCEPT !.w = (25 * U) \div 4, !.stab = TRUE], [K3 EXCEPT !.w = 3 * U, !.stab = TRUE]>>),
     OfKeys(<<[K1 EXCEPT !.w = 7 * U, !.stab = TRUE, !.label = "Esc"],
              [K3 EXCEPT !.w = 2 * U, !.y = U, !.stab = TRUE]>>)}

Ids ==
    {OfKeys(<<K1, [K2 EXCEPT !.id = "k1"]>>), OfKeys(<<K1, [K2 EXCEPT !.x = 0]>>),
     Of(<<Control("key_switch", "k1", "A", 0, 0), Control("key_switch", "k1", "B", 2, 0)>>),
     Of(<<Part("key_switch", "k1", "A", 0, 0, 0, 0), Part("key_switch", "k1", "B", 20, 0, 0, 0)>>),
     Of(<<Control("key_switch", "k1", "A", 0, 0), Control("encoder", "k1", "Vol", 4, 0)>>),
     \* both views, which disagree; a key that has no element; a key of a display
     Payload(<<[K1 EXCEPT !.x = 3 * U], K2>>, <<Control("key_switch", "k1", "A", 0, 0), Knob>>),
     Payload(<<K1, K2>>, <<Control("button", "k1", "", 0, 0), [Knob EXCEPT !.id = "k2"]>>),
     \* places that a client kept
     Of(<<[Knob EXCEPT !.at = <<5, 5>>], [Control("key_switch", "k1", "A", 0, 0) EXCEPT !.at = <<7, 7>>]>>)}

Boards ==
    {Of(<<Knob, Screen, Control("key_switch", "k1", "A", 0, 0)>>),
     Of(<<[Control("key_switch", "k1", "A", 0, 0) EXCEPT !.footprint = "acme_9000"]>>),
     Of(<<[Knob EXCEPT !.footprint = "rotary_encoder"], [Screen EXCEPT !.footprint = "oled_128x64"]>>),
     Of(RowOf("display", 7)), Of(RowOf("joystick", 4)), Of(RowOf("slider", 5)), Of(RowOf("pad", 6)),
     Of(RowOf("speaker", 3)), Of(RowOf("mounting_feature", 3)), Of(RowOf("button", 28) \o <<Screen>>),
     Of(<<Control("button", "b1", "A", 0, 0), [Part("slider", "s1", "", 0, 30, 15, 60) EXCEPT !.rot = 90]>>),
     Of(<<[Control("joystick", "j1", "Stick", 0, 0) EXCEPT !.rot = 90], Part("led_cluster", "l1", "", 40, 0, 5, 5)>>),
     \* turned by less: neighbours whose cutouts meet, long parts, a ring, wires and screws
     OfKeys(<<[K1 EXCEPT !.rot = 45], [K2 EXCEPT !.rot = 45]>>),
     OfKeys(<<[K1 EXCEPT !.rot = -15, !.w = 7 * U, !.stab = TRUE], [K3 EXCEPT !.rot = 90, !.y = 2 * U]>>),
     Of(<<[Control("joystick", "j1", "Stick", 0, 0) EXCEPT !.rot = 30], [Screen EXCEPT !.rot = 200],
          [Part("slider", "s1", "X", 30, 0, 15, 60) EXCEPT !.rot = 300],
          [Part("speaker", "p1", "", 50, 30, 15, 15) EXCEPT !.rot = 60]>>),
     Of(<<Part("button", "b1", "A", 0, 0, 15, 30), Part("button", "b2", "B", 15, 0, 15, 15)>>),
     Of(<<Control("pad", "p1", "", 0, 0), Control("pad", "p2", "X", 1, 0)>>),
     [pitch |-> 2 * UnitPitch, keys |-> <<K1, K2, K3>>, elements |-> <<>>]}

Midi ==
    {OfKeys(GridOf(n, 5)) : n \in {1, 2, 5, 7, 12, 16, 25}}
        \cup {Payload(GridOf(6, 3), <<Control("pad", "p1", "A", 12, 0), Control("encoder", "e1", "", 16, 0),
                                      Control("display", "d1", "Oled", 20, 0)>>)}

Gamepad ==
    {Of(<<Control("button", "b1", "A", 0, 0), Control("button", "b2", "Up", 4, 0), Control("button", "b3", "", 8, 0),
          Control("joystick", "j1", "L", 0, 6), Control("sensor", "s1", "", 8, 6)>>)}

Pedal ==
    {Of(<<Control("button", "b1", "A", 0, 0), Control("button", "b2", "B", 5, 0), Control("slider", "s1", "Exp", 10, 0)>>),
     Of(<<Control("button", "b1", "A", 0, 0), Control("slider", "s1", "Exp", 10, 0)>>)}

Breath ==
    {Of(<<Control("sensor", "s1", "", 0, 0), Control("sensor", "s2", "", 3, 0), Control("microphone", "m1", "", 6, 0),
          Control("button", "b1", "Oct-", 9, 0), Control("button", "b2", "Oct+", 14, 0)>>)}

\* The companion's parts, and then without each of them.
CompanionParts ==
    <<Part("display", "d1", "Screen", 0, 0, 60, 40), Part("button", "b1", "A", 0, 50, 12, 12),
      Part("button", "b2", "B", 20, 50, 12, 12), Part("button", "b3", "Up", 40, 50, 12, 12),
      Part("button", "b4", "Down", 60, 50, 12, 12), Part("battery", "pwr", "", 0, 70, 50, 30),
      Part("speaker", "spk", "", 60, 70, 20, 20), Part("microphone", "mic", "", 70, 10, 5, 5),
      Part("usb_port", "usb", "", 60, 100, 9, 4)>>

Companion ==
    {Of(CompanionParts)} \cup {Of(RemoveAt(CompanionParts, n)) : n \in DOMAIN CompanionParts}

LayoutsSent ==
    [keyboard |-> Keyboard, macropad |-> Grids \cup Ids \cup Boards, midi |-> Midi,
     gamepad |-> Gamepad, pedal_controller |-> Pedal, breath_controller |-> Breath,
     handheld_companion |-> Companion]

AssetsDelivered ==
    [f \in DOMAIN LayoutsSent |-> IF f = "keyboard" THEN {"a1"} ELSE {}]

PanelsAsked == {DefaultPanel, [margin |-> 10 * Mm, kerf |-> 60, stabilizers |-> FALSE, holes |-> FALSE]}
ShellsAsked == {DefaultShell}
=============================================================================
