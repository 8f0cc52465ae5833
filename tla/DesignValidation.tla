-------------------------- MODULE DesignValidation --------------------------
(***************************************************************************)
(* validate_project (server/validation/engine.py): ten checks on a loaded  *)
(* design, each "pass", "warn", "fail" or "skipped".  A design is          *)
(* [family, controller, layout, switch, assets], assets a function from    *)
(* asset ids to acceptance states, switch whether a part was selected.     *)
(***************************************************************************)
EXTENDS Electronics

Epsilon == Mm \div 20               \* GEOMETRY_EPSILON_MM

Interactive == KeyLike \cup {"encoder", "pad", "slider", "joystick", "display"}

MinClearance ==
    [t \in ElementTypes |->
        CASE t \in {"key_switch", "mounting_feature"} -> 0
          [] t = "button" -> Tenths(15)
          [] t \in {"usb_port", "led_cluster"} -> 2 * Mm
          [] t = "sensor" -> Tenths(25)
          [] t \in {"encoder", "battery"} -> 4 * Mm
          [] t = "display" -> 5 * Mm
          [] t = "joystick" -> 6 * Mm
          [] OTHER -> 3 * Mm]

Canonical == {"accepted", "production_ready"}

Failing(bad) == IF bad THEN "fail" ELSE "pass"
Warning(bad) == IF bad THEN "warn" ELSE "pass"

-----------------------------------------------------------------------------
(* Bounds are those of the unrotated element.                              *)

\* Mutant of Overlap: b begins before a.
OverlapFromLeft(a, b) ==
    /\ b.x <= a.x /\ a.x < b.x + b.w - Epsilon
    /\ a.y < b.y + b.h - Epsilon /\ a.y + a.h > b.y + Epsilon

Overlap(a, b) ==
    /\ a.x < b.x + b.w - Epsilon /\ a.x + a.w > b.x + Epsilon
    /\ a.y < b.y + b.h - Epsilon /\ a.y + a.h > b.y + Epsilon

\* The gap is the longer side when one axis overlaps, the diagonal otherwise.
GapBelow(a, b, required) ==
    LET dx == AtLeast(AtLeast(a.x - (b.x + b.w), b.x - (a.x + a.w)), 0)
        dy == AtLeast(AtLeast(a.y - (b.y + b.h), b.y - (a.y + a.h)), 0)
    IN  dx < required /\ dy < required /\ dx * dx + dy * dy < required * required

SomePair(layout, Test(_, _)) ==
    \E m \in DOMAIN layout.elements : \E n \in m + 1 .. Len(layout.elements) :
        Test(layout.elements[m], layout.elements[n])

SomeElement(layout, Test(_)) == \E n \in DOMAIN layout.elements : Test(layout.elements[n])

-----------------------------------------------------------------------------
CheckLayoutNonempty(d) == Failing(d.layout.elements = <<>>)

Has(layout, type, count) == Cardinality(OfType(layout, type)) >= count

CheckFamilyRequiredModules(d) ==
    CASE d.family = "breath_controller" ->
            Failing(~ (Has(d.layout, "sensor", 2) /\ Has(d.layout, "microphone", 1)
                           /\ Has(d.layout, "button", 2)))
      [] d.family = "pedal_controller" ->
            Failing(~ (Has(d.layout, "button", 2) /\ Has(d.layout, "slider", 1)))
      [] d.family = "handheld_companion" ->
            Failing(~ (Has(d.layout, "button", 4)
                           /\ \A t \in {"display", "battery", "speaker", "microphone", "usb_port"} :
                                  Has(d.layout, t, 1)))
      [] OTHER -> "skipped"

CheckElementOverlap(d) == Failing(SomePair(d.layout, Overlap))

CheckControlClearance(d) ==
    Warning(SomePair(d.layout, LAMBDA a, b :
                /\ {a.type, b.type} \subseteq Interactive
                /\ ~ Overlap(a, b)
                /\ GapBelow(a, b, AtLeast(MinClearance[a.type], MinClearance[b.type]))))

CheckStabilizers(d) ==
    Warning(SomeElement(d.layout, LAMBDA e :
                e.type = "key_switch" /\ e.w >= 2 * d.layout.pitch /\ ~ e.stab))

PinsRemaining(d) == CompileElectronics(d.family, d.controller, d.layout).remaining

\* Mutant of CheckMatrixFeasibility: controls outside the matrix are forgotten.
CheckFeasibilityOfKeys(d) ==
    IF ~ SomeElement(d.layout, LAMBDA e : e.type \in KeyLike) THEN "skipped"
    ELSE Failing(PinsRemaining(d) < 0)

CheckMatrixFeasibility(d) ==
    IF /\ ~ SomeElement(d.layout, LAMBDA e : e.type \in KeyLike)
       /\ \A t \in DOMAIN DirectUsage(d.layout) : DirectPins[t] = 0
    THEN "skipped"
    ELSE Failing(PinsRemaining(d) < 0)

CheckFootprintSourceCoverage(d) ==
    IF UnknownFootprints(d.layout) # {} THEN "fail"
    ELSE Warning("proof_placeholder" \in ReadinessUsed(d.layout))

CheckControlLabels(d) ==
    Warning(SomeElement(d.layout, LAMBDA e : e.type \in Interactive /\ e.label = ""))

CheckSwitchSelected(d) ==
    IF ~ Has(d.layout, "key_switch", 1) THEN "skipped" ELSE Warning(~ d.switch)

\* Mutant of CheckAssignedAssetAcceptance: an asset that is not attached is passed over.
CheckAttachedAssets(d) ==
    Failing(SomeElement(d.layout, LAMBDA e :
                /\ AssignedAsset(e) \in DOMAIN d.assets
                /\ d.assets[AssignedAsset(e)] \notin Canonical))

\* Skipped while no asset is attached, even when elements refer to one.
CheckAssignedAssetAcceptance(d) ==
    IF DOMAIN d.assets = {} THEN "skipped"
    ELSE Failing(SomeElement(d.layout, LAMBDA e :
                     LET asset == AssignedAsset(e)
                     IN  /\ asset # NoAsset
                         /\ asset \in DOMAIN d.assets => d.assets[asset] \notin Canonical))

Verdict(checks) ==
    IF "fail" \in checks THEN "fail" ELSE IF "warn" \in checks THEN "warn" ELSE "pass"

ValidateProject(d) ==
    Verdict({CheckLayoutNonempty(d), CheckFamilyRequiredModules(d), CheckElementOverlap(d),
             CheckControlClearance(d), CheckStabilizers(d), CheckMatrixFeasibility(d),
             CheckFootprintSourceCoverage(d), CheckControlLabels(d), CheckSwitchSelected(d),
             CheckAssignedAssetAcceptance(d)})
=============================================================================
