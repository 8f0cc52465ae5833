------------------------------ MODULE Firmware ------------------------------
(***************************************************************************)
(* The four firmware files of a design (server/firmware/qmk_generator.py), *)
(* made from a layout to which its matrix has been applied.  Texts are     *)
(* left out; labels matter as far as they select a keycode or a button.    *)
(***************************************************************************)
EXTENDS Electronics

\* The length of the profile's list of pins; rows take the first, columns the next.
QmkPins(controller) == IF controller = "atmega32u4" THEN 18 ELSE 26

\* Part of QWERTY_MAP and of GAMEPAD_BUTTON_MAP.
Keycodes == [A |-> "KC_A", B |-> "KC_B", X |-> "KC_X", Esc |-> "KC_ESC", Up |-> "KC_UP"]
GamepadButtons == [A |-> "south", B |-> "east", X |-> "west", Start |-> "start"]

LabelToKeycode(label) == IF label \in DOMAIN Keycodes THEN Keycodes[label] ELSE "KC_NO"

Placed(layout) ==
    Kept(layout.keys, {n \in DOMAIN layout.keys : layout.keys[n].at # NoPlace})

\* generate_qmk_info; "ValueError" when the pins do not suffice.
QmkInfo(controller, layout, matrix) ==
    IF matrix.rows + matrix.cols > QmkPins(controller) THEN [error |-> "ValueError"]
    ELSE [error |-> "none",
          rowPins |-> 1 .. matrix.rows,
          colPins |-> matrix.rows + 1 .. matrix.rows + matrix.cols,
          layout |-> [n \in DOMAIN Placed(layout) |-> Placed(layout)[n].at]]

\* Mutant of Slot: rows for columns.
SlotByRows(at, matrix) == at[1] * matrix.rows + at[2] + 1

Slot(at, matrix) == at[1] * matrix.cols + at[2] + 1

\* generate_keymap: a layer of rows * cols keycodes, row by row.  The last key
\* written to a place stays; a place outside the matrix is an IndexError.
Keymap(layout, matrix) ==
    LET placed == Placed(layout)
        inside == \A n \in DOMAIN placed : placed[n].at[1] < matrix.rows /\ placed[n].at[2] < matrix.cols
    IN  IF ~ inside THEN [error |-> "IndexError"]
        ELSE [error |-> "none",
              layer |-> [s \in 1 .. matrix.rows * matrix.cols |->
                            LET n == SelectLastInSeq(placed, LAMBDA k : Slot(k.at, matrix) = s)
                            IN  IF n = 0 THEN "KC_NO" ELSE LabelToKeycode(placed[n].label)]]

-----------------------------------------------------------------------------
(* generate_via_definition: rows of places in reading order, a row starting *)
(* when the top of a key is more than half a unit from the top of the first *)
(* key of the row, which is how the matrix finds its rows from the centres. *)

ViaStarts(keys) == StartsAmong({2 * keys[n].y : n \in DOMAIN keys})

\* The row of each key, and the key's number in it.
ViaCells(keys) ==
    LET starts == ViaStarts(keys)
        row == [n \in DOMAIN keys |-> Cardinality({s \in starts : s <= 2 * keys[n].y})]
        sortKey == [n \in DOMAIN keys |-> <<keys[n].y, keys[n].x, n>>]
    IN  [n \in DOMAIN keys |->
            <<row[n],
              1 + Cardinality({m \in DOMAIN keys : row[m] = row[n] /\ Lex(sortKey[m], sortKey[n])})>>]

\* The places of the keys of one row, by their numbers.
PlacesInOrder(keys, cell, mine) ==
    [i \in 1 .. Cardinality(mine) |-> keys[CHOOSE n \in mine : cell[n][2] = i].at]

ViaRows(layout) ==
    LET keys == Placed(layout)
        cell == ViaCells(keys)
    IN  [r \in 1 .. Cardinality(ViaStarts(keys)) |->
            PlacesInOrder(keys, cell, {n \in DOMAIN keys : cell[n][1] = r})]

-----------------------------------------------------------------------------
(* generate_control_map: what each element sends, by family and type and by *)
(* how many elements of its type came before it.                            *)

Mapping(kind, channel, number) == [kind |-> kind, channel |-> channel, number |-> number]

GenericControl(index) == Mapping("generic_control", "none", index)

MidiMapping(e, index) ==
    CASE e.type = "key_switch" -> Mapping("midi_note", "1", 60 + index)
      [] e.type = "encoder" -> Mapping("midi_cc", "1", 16 + index)
      [] e.type = "pad" -> Mapping("midi_note", "10", 36 + index)
      [] e.type = "display" -> Mapping("status_display", "none", index)
      [] OTHER -> GenericControl(index)

\* A button that no label names is aux_<index + 1>, with the index of its type.
GamepadMapping(e, index) ==
    IF e.label \in {"Up", "Down", "Left", "Right"} THEN Mapping("dpad", e.label, 0)
    ELSE IF e.type = "joystick" THEN Mapping("analog_stick", "xy", index)
    ELSE IF e.label \in DOMAIN GamepadButtons
    THEN Mapping("gamepad_button", GamepadButtons[e.label], 0)
    ELSE Mapping("gamepad_button", "aux", index + 1)

PedalMapping(e, index) ==
    CASE e.type = "button" -> Mapping("midi_program_change", "1", index)
      [] e.type = "slider" -> Mapping("midi_cc", "1", 11)
      [] OTHER -> GenericControl(index)

BreathMapping(e, index) ==
    CASE e.type = "sensor" -> Mapping("midi_cc", "1", IF index = 0 THEN 2 ELSE 1)
      [] e.type = "microphone" -> Mapping("breath_articulation", "none", 0)
      [] e.type = "button" -> Mapping("octave_shift", IF e.label = "Oct-" THEN "down" ELSE "up", 0)
      [] e.type = "display" -> Mapping("status_display", "none", index)
      [] OTHER -> GenericControl(index)

CompanionMapping(e, index) ==
    CASE e.type = "button" -> Mapping("navigation_button", e.label, 0)
      [] e.type = "display" -> Mapping("display_surface", "none", index)
      [] e.type = "speaker" -> Mapping("audio_output", "mono", 0)
      [] e.type = "microphone" -> Mapping("voice_input", "none", 0)
      [] e.type = "battery" -> Mapping("power_module", "none", 0)
      [] e.type = "usb_port" -> Mapping("service_port", "none", 0)
      [] OTHER -> GenericControl(index)

KeyboardMapping(e, index) ==
    CASE e.type \in KeyLike -> Mapping("hid_keycode", LabelToKeycode(e.label), 0)
      [] e.type = "encoder" -> Mapping("encoder_delta", "none", index)
      [] e.type = "display" -> Mapping("display_region", "none", index)
      [] OTHER -> GenericControl(index)

ControlMapping(family, e, index) ==
    CASE family = "midi" -> MidiMapping(e, index)
      [] family = "gamepad" -> GamepadMapping(e, index)
      [] family = "pedal_controller" -> PedalMapping(e, index)
      [] family = "breath_controller" -> BreathMapping(e, index)
      [] family = "handheld_companion" -> CompanionMapping(e, index)
      [] OTHER -> KeyboardMapping(e, index)

ControlMap(family, layout) ==
    [n \in DOMAIN layout.elements |->
        LET e == layout.elements[n]
            index == Cardinality({m \in 1 .. n - 1 : layout.elements[m].type = e.type})
        IN  [id |-> e.id, type |-> e.type, matrix |-> e.at,
             mapping |-> ControlMapping(family, e, index)]]
=============================================================================
