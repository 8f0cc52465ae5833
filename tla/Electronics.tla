----------------------------- MODULE Electronics -----------------------------
(***************************************************************************)
(* The scanning matrix and the pins of a layout                            *)
(* (server/eda/matrix_compiler.py, control_surface_electronics.py) and the *)
(* catalogue check of its footprints (server/services/hardware_sources.py).*)
(*                                                                         *)
(* The code sorts keys and numbers them; here the number of a key is how   *)
(* many keys sort before it.  Python's sort is stable, so position in the  *)
(* list decides between equals.                                            *)
(***************************************************************************)
EXTENDS Layouts, FiniteSetsExt

Lex(a, b) == \E n \in DOMAIN a : a[n] < b[n] /\ \A m \in 1 .. n - 1 : a[m] = b[m]

-----------------------------------------------------------------------------
(* Physical rows: compile_matrix.                                          *)

Center(k) == 2 * k.y + k.h          \* twice the y of its centre
Tolerance == UnitPitch              \* twice ROW_CLUSTER_THRESHOLD

\* Mutant of RowStarts: a centre is compared with the one before it.
RowStartsChained(keys) ==
    LET centers == {Center(keys[i]) : i \in DOMAIN keys}
    IN  {c \in centers : \A d \in centers : d < c => c - d > Tolerance}

\* The centres beyond the tolerance of every row so far.
Beyond(starts, centers) == {c \in centers : \A s \in starts : c - s > Tolerance}

\* A row starts at the first centre beyond the tolerance of the row before it.
NextStart(before, centers) ==
    LET beyond == Beyond(before, centers)
    IN  IF beyond = {} THEN before ELSE before \cup {Min(beyond)}

StartsAmong(centers) ==
    LET starts[n \in 0 .. Cardinality(centers)] ==
            IF n = 0 THEN {} ELSE NextStart(starts[n - 1], centers)
    IN  starts[Cardinality(centers)]

RowStarts(keys) == StartsAmong({Center(keys[i]) : i \in DOMAIN keys})

ClusterRow(starts, k) == Cardinality({s \in starts : s <= Center(k)}) - 1

\* Mutant of ColumnKey: position in the list does not decide between equals.
ColumnKeyTied(keys, i) == <<keys[i].x, Center(keys[i])>>

ColumnKey(keys, i) == <<keys[i].x, Center(keys[i]), i>>

PhysicalRows(keys) ==
    LET starts == RowStarts(keys)
        row == [i \in DOMAIN keys |-> ClusterRow(starts, keys[i])]
        sortKey == [i \in DOMAIN keys |-> ColumnKey(keys, i)]
    IN  [i \in DOMAIN keys |->
            <<row[i],
              Cardinality({j \in DOMAIN keys : row[j] = row[i] /\ Lex(sortKey[j], sortKey[i])})>>]

-----------------------------------------------------------------------------
(* As square as possible: _balanced_matrix.                                *)

CeilDiv(n, rows) == (n + rows - 1) \div rows
Cost(n, rows) == rows + CeilDiv(n, rows)
Imbalance(n, rows) == LET d == rows - CeilDiv(n, rows) IN IF d < 0 THEN -d ELSE d

\* The cheapest, then the most balanced, then the fewest rows.
BestRows(n) ==
    CHOOSE r \in 1 .. n :
        \A s \in (1 .. n) \ {r} :
            Lex(<<Cost(n, r), Imbalance(n, r), r>>, <<Cost(n, s), Imbalance(n, s), s>>)

BalancedRows(keys) ==
    LET cols == CeilDiv(Len(keys), BestRows(Len(keys)))
        sortKey == [i \in DOMAIN keys |-> <<keys[i].y, keys[i].x, i>>]
        index == [i \in DOMAIN keys |->
                     Cardinality({j \in DOMAIN keys : Lex(sortKey[j], sortKey[i])})]
    IN  [i \in DOMAIN keys |-> <<index[i] \div cols, index[i] % cols>>]

-----------------------------------------------------------------------------
BalancedFamilies ==
    {"midi", "gamepad", "pedal_controller", "breath_controller", "handheld_companion"}

Strategy(family) == IF family \in BalancedFamilies THEN "balanced" ELSE "physical_rows"

PlacesOf(family, keys) ==
    IF Strategy(family) = "balanced" THEN BalancedRows(keys) ELSE PhysicalRows(keys)

Rows(family, keys) ==
    IF keys = <<>> THEN 0
    ELSE IF Strategy(family) = "balanced" THEN BestRows(Len(keys)) ELSE Cardinality(RowStarts(keys))

Cols(family, keys, places) ==
    IF keys = <<>> THEN 0
    ELSE IF Strategy(family) = "balanced" THEN CeilDiv(Len(keys), BestRows(Len(keys)))
    ELSE Max({places[i][2] : i \in DOMAIN keys}) + 1

\* The dictionary of assignments: of the keys of one id, the last one placed counts.
Assignments(keys, places) ==
    [id \in {keys[i].id : i \in DOMAIN keys} |->
        LET mine == {places[i] : i \in {j \in DOMAIN keys : keys[j].id = id}}
        IN  CHOOSE p \in mine : \A q \in mine \ {p} : Lex(q, p)]

WithPlaces(family, keys, places) ==
    [rows |-> Rows(family, keys), cols |-> Cols(family, keys, places),
     places |-> Assignments(keys, places)]

CompileMatrix(family, keys) == WithPlaces(family, keys, PlacesOf(family, keys))

\* Every element whose id was assigned a place takes it, whatever its type.
ApplyMatrix(layout, matrix) ==
    OfElements([n \in DOMAIN layout.elements |->
                   LET e == layout.elements[n]
                   IN  IF e.id \in DOMAIN matrix.places
                       THEN [e EXCEPT !.at = matrix.places[e.id]] ELSE e],
               layout.pitch)

-----------------------------------------------------------------------------
(* Pins: compile_control_surface_electronics.                              *)

DirectPins ==
    [t \in ElementTypes |->
        CASE t \in {"pad", "slider", "microphone", "led_cluster"} -> 1
          [] t \in {"encoder", "speaker", "sensor"} -> 2
          [] t = "joystick" -> 3
          [] t = "display" -> 4
          [] OTHER -> 0]

GpioBudget(controller) == IF controller = "atmega32u4" THEN 18 ELSE 26

FirmwareTarget(family) ==
    CASE family = "midi" -> "midi_control_surface"
      [] family = "pedal_controller" -> "midi_pedal_controller"
      [] family = "breath_controller" -> "midi_breath_controller"
      [] family = "gamepad" -> "hid_gamepad"
      [] family = "handheld_companion" -> "handheld_companion_proof"
      [] family = "streamdeck" -> "hid_control_surface"
      [] family = "macropad" -> "hid_macro_pad"
      [] OTHER -> "qmk_via_keyboard"

OfType(layout, type) == {n \in DOMAIN layout.elements : layout.elements[n].type = type}

\* direct_pin_usage: how many of each type that is not in the matrix.
DirectUsage(layout) ==
    [t \in {t \in ElementTypes \ KeyLike : OfType(layout, t) # {}} |->
        Cardinality(OfType(layout, t))]

\* One <<n, pin>> for each pin that the element at n takes.
MaxDirectPins == 4
DirectPinsOf(layout) ==
    {p \in (DOMAIN layout.elements) \X (1 .. MaxDirectPins) :
        p[2] <= DirectPins[layout.elements[p[1]].type]}

DirectPinsUsed(layout) == Cardinality(DirectPinsOf(layout))

PinsUsed(layout, matrix) == matrix.rows + matrix.cols + DirectPinsUsed(layout)

ElectronicsOn(family, controller, layout, matrix) ==
    [matrix |-> matrix, strategy |-> Strategy(family), usage |-> DirectUsage(layout),
     controls |-> Len(layout.keys), direct |-> DirectPinsUsed(layout),
     pins |-> PinsUsed(layout, matrix),
     remaining |-> GpioBudget(controller) - PinsUsed(layout, matrix),
     target |-> FirmwareTarget(family)]

CompileElectronics(family, controller, layout) ==
    ElectronicsOn(family, controller, layout, CompileMatrix(family, layout.keys))

-----------------------------------------------------------------------------
(* summarize_project_footprint_sources, with one footprint standing for    *)
(* each readiness of the catalogue; an element need not have one.          *)

Readiness == [mx_switch |-> "library_ready", rotary_encoder |-> "reference_only",
              oled_128x64 |-> "proof_placeholder"]

UsedFootprints(layout) ==
    {layout.elements[n].footprint : n \in DOMAIN layout.elements} \ {"none"}

UnknownFootprints(layout) == UsedFootprints(layout) \ DOMAIN Readiness
ReadinessUsed(layout) == {Readiness[f] : f \in UsedFootprints(layout) \cap DOMAIN Readiness}
=============================================================================
