------------------------------- MODULE Layouts -------------------------------
(***************************************************************************)
(* LayoutSpec (server/models/project.py): the placed elements of a product *)
(* and the keys derived from them.  A document carries both views and they *)
(* are brought into step every time it is parsed, by a PATCH and by every  *)
(* load.                                                                   *)
(*                                                                         *)
(* Lengths are whole 400ths of a millimetre, so that a quarter of the      *)
(* standard pitch is one; those of a key are 7620ths of a key unit, and    *)
(* the conversions are exact at that pitch.  A control's place in the      *)
(* matrix, the pair row and col, is <<row, col>>, <<>> when they are null. *)
(***************************************************************************)
EXTENDS Integers, Sequences, SequencesExt

CONSTANTS
    MaxKeys,        \* MAX_LAYOUT_KEYS
    MaxElements,    \* MAX_LAYOUT_ELEMENTS
    MaxItems,       \* MAX_LAYOUT_PAYLOAD_ITEMS
    Footprints      \* the footprint ids that clients name, in the catalogue or not

ASSUME LimitsAssumption == {MaxKeys, MaxElements, MaxItems} \subseteq Nat
ASSUME FootprintsAssumption == {"none", "mx_switch"} \subseteq Footprints

Mm == 400
Tenths(n) == (n * Mm) \div 10        \* n tenths of a millimetre
UnitPitch == 7620                   \* UNIT_PITCH_MM, and the parts of a key unit

AtLeast(a, b) == IF a < b THEN b ELSE a
AtMost(a, b) == IF a < b THEN a ELSE b

NoAsset == "none"
NoPlace == <<>>

\* The members of s at the positions ns, in their order.
Kept(s, ns) ==
    LET kept[n \in 0 .. Len(s)] ==
            IF n = 0 THEN <<>>
            ELSE IF n \in ns THEN Append(kept[n - 1], s[n]) ELSE kept[n - 1]
    IN  kept[Len(s)]

KeyLike == {"key_switch", "button"}
ElementTypes ==
    KeyLike \cup {"encoder", "pad", "slider", "joystick", "display", "speaker", "microphone",
                  "led_cluster", "battery", "usb_port", "sensor", "mounting_feature"}

Place == {NoPlace} \cup (Int \X Int)

KeySpec ==
    [id : STRING, label : STRING, x : Int, y : Int, w : Int, h : Int, rot : Int,
     stab : BOOLEAN, asset : STRING, at : Place]

PlacedElementSpec ==
    [id : STRING, type : ElementTypes, label : STRING, footprint : Footprints,
     x : Int, y : Int, w : Int, h : Int, rot : Int, stab : BOOLEAN,
     asset : STRING, look : STRING, at : Place]

\* The fields of a payload or a document, as far as pydantic checks them.
LayoutFields == [pitch : Nat \ {0}, keys : Seq(KeySpec), elements : Seq(PlacedElementSpec)]

\* (a * b) \div c, by way of numbers that stay small.
Scaled(a, b, c) == (a \div c) * b + ((a % c) * b) \div c

ToMm(units, pitch) == Scaled(units, pitch, UnitPitch)
ToUnits(mm, pitch) == Scaled(mm, UnitPitch, pitch)

KeyToElement(k, pitch) ==
    [id |-> k.id, type |-> "key_switch", label |-> k.label, footprint |-> "mx_switch",
     x |-> ToMm(k.x, pitch), y |-> ToMm(k.y, pitch),
     w |-> ToMm(k.w, pitch), h |-> ToMm(k.h, pitch), rot |-> k.rot,
     stab |-> k.stab, asset |-> k.asset, look |-> k.asset, at |-> k.at]

ElementToKey(e, pitch) ==
    [id |-> e.id, label |-> e.label,
     x |-> ToUnits(e.x, pitch), y |-> ToUnits(e.y, pitch),
     w |-> ToUnits(e.w, pitch), h |-> ToUnits(e.h, pitch), rot |-> e.rot,
     stab |-> e.stab, asset |-> IF e.asset # NoAsset THEN e.asset ELSE e.look, at |-> e.at]

-----------------------------------------------------------------------------
(* Parsing a payload [pitch, keys, elements].                              *)

KeyLikeOf(elements) == {n \in DOMAIN elements : elements[n].type \in KeyLike}

KeyView(elements, pitch) ==
    LET keyed == Kept(elements, KeyLikeOf(elements))
    IN  [n \in DOMAIN keyed |-> ElementToKey(keyed[n], pitch)]

\* The key that speaks for an element: the last one of its id.
KeyOf(e, keys) == SelectLastInSeq(keys, LAMBDA k : k.id = e.id)

\* Mutant of Synced: the key decides the type as well.
SyncedRetypes(e, keys, pitch) ==
    IF KeyOf(e, keys) # 0 /\ e.type \in KeyLike THEN KeyToElement(keys[KeyOf(e, keys)], pitch) ELSE e

\* A key overrides its element, except for the element's type and footprint.
Overridden(e, told) ==
    [told EXCEPT !.type = e.type,
                 !.footprint = IF e.footprint # "none" THEN e.footprint ELSE told.footprint]

Synced(e, keys, pitch) ==
    IF KeyOf(e, keys) # 0 /\ e.type \in KeyLike
    THEN Overridden(e, KeyToElement(keys[KeyOf(e, keys)], pitch)) ELSE e

\* Keys that no element carries come last, in their own order.
ExtraKeys(p) ==
    {k \in DOMAIN p.keys : \A n \in DOMAIN p.elements : p.elements[n].id # p.keys[k].id}

SyncedElements(p) ==
    LET extra == Kept(p.keys, ExtraKeys(p))
    IN  [n \in DOMAIN p.elements |-> Synced(p.elements[n], p.keys, p.pitch)]
            \o [n \in DOMAIN extra |-> KeyToElement(extra[n], p.pitch)]

WithKeyView(elements, pitch) ==
    [pitch |-> pitch, keys |-> KeyView(elements, pitch), elements |-> elements]

\* Mutant of LayoutSpec: keys that were sent are kept as they are.
LayoutSpecUnsynced(p) ==
    [WithKeyView(SyncedElements(p), p.pitch) EXCEPT !.keys = IF p.keys # <<>> THEN p.keys ELSE @]

LayoutSpec(p) == WithKeyView(SyncedElements(p), p.pitch)

\* The limits, on the payload as it came and on the two views.
WithinLimits(p) == Len(p.keys) <= MaxKeys /\ Len(p.elements) <= MaxElements

Accepted(p) ==
    /\ WithinLimits(p)
    /\ Len(p.keys) + Len(p.elements) <= MaxItems
    /\ WithinLimits(LayoutSpec(p))

\* No length of the payload is rounded when it is converted and converted back.
Lengths == {"x", "y", "w", "h"}

ExactPayload(p) ==
    /\ \A n \in DOMAIN p.keys : \A field \in Lengths :
           ToUnits(ToMm(p.keys[n][field], p.pitch), p.pitch) = p.keys[n][field]
    /\ \A n \in DOMAIN p.elements : \A field \in Lengths :
           ToMm(ToUnits(p.elements[n][field], p.pitch), p.pitch) = p.elements[n][field]

\* The handlers that change elements build the layout from them alone.
OfElements(elements, pitch) == LayoutSpec([pitch |-> pitch, keys |-> <<>>, elements |-> elements])

-----------------------------------------------------------------------------
UniqueIds(items) == \A m, n \in DOMAIN items : items[m].id = items[n].id => m = n

AssignedAsset(e) == IF e.asset # NoAsset THEN e.asset ELSE e.look
=============================================================================
