--------------------------- MODULE DesignPipeline ---------------------------
(***************************************************************************)
(* One project's design on its way from a layout to an export bundle: the  *)
(* document that is saved and parsed again by every request, the pictures  *)
(* compiled from it (electronics, mechanical), the validation report and   *)
(* the bundle, and the appearance assets its elements refer to.            *)
(*                                                                         *)
(* Requests are atomic here; how they interleave is the subject of         *)
(* ProjectRevisions, KeycapGeneration and ArtifactRegistry.  What this     *)
(* module adds is what the documents contain.                              *)
(***************************************************************************)
EXTENDS ReviewBundle, Panels, HandheldShell

CONSTANTS
    Payloads,       \* for each product family, the layouts that clients send
    AssetIds,       \* for each product family, the assets a provider may deliver
    PanelConfigs,   \* plate compile requests
    ShellConfigs    \* shell compile requests

ASSUME PipelineAssumption ==
    /\ DOMAIN AssetIds = DOMAIN Payloads
    /\ \A f \in DOMAIN Payloads : \A p \in Payloads[f] : p \in LayoutFields /\ ExactPayload(p)
    /\ \A f \in DOMAIN AssetIds : AssetIds[f] \subseteq STRING \ {NoAsset}
    /\ DefaultPanel \in PanelConfigs
    /\ DefaultShell \in ShellConfigs

VARIABLES
    family,         \* product_family
    saved,          \* layout in the saved document
    switch,         \* switch_profile.part_id is set
    assets,         \* keycap_assets: acceptance state by asset_id
    electronics,    \* derived["electronics"], <<>> when there is none
    mechanical,     \* derived["mechanical"], <<>> when there is none
    report,         \* exports.validation_report_id: the verdict, and whether assets were attached
    bundle          \* exports.bundle_id: the ZIP, and whether assets were attached; <<>> when there is none

vars == <<family, saved, switch, assets, electronics, mechanical, report, bundle>>
derived == <<electronics, mechanical, report, bundle>>

Families == DOMAIN Payloads
Controller == "rp2040"              \* ControllerFamily's default; no request changes it
NoReport == [verdict |-> "none", checked |-> FALSE]
EmptyLayout == [pitch |-> UnitPitch, keys |-> <<>>, elements |-> <<>>]

\* What load_project_state parses, when it can.
Loads == Accepted(saved)
Loaded == LayoutSpec(saved)
Design ==
    [family |-> family, controller |-> Controller, layout |-> Loaded, switch |-> switch,
     assets |-> assets]

\* A new project is empty or has the layout of a template.
Init ==
    /\ family \in Families
    /\ saved \in {EmptyLayout} \cup {LayoutSpec(p) : p \in {q \in Payloads[family] : Accepted(q)}}
    /\ switch = FALSE
    /\ assets = [a \in {} |-> "candidate"]
    /\ electronics = <<>>
    /\ mechanical = <<>>
    /\ report = NoReport
    /\ bundle = <<>>

-----------------------------------------------------------------------------
\* Mutant of InvalidateDerivedState: the compiled electronics stay.
InvalidateEvidenceOnly ==
    /\ mechanical' = <<>>
    /\ report' = NoReport
    /\ bundle' = <<>>
    /\ UNCHANGED electronics

InvalidateDerivedState ==
    /\ electronics' = <<>>
    /\ mechanical' = <<>>
    /\ report' = NoReport
    /\ bundle' = <<>>

\* update_project with a layout.
PatchLayout(p) ==
    /\ Loads
    /\ Accepted(p)
    /\ saved' = LayoutSpec(p)
    /\ InvalidateDerivedState
    /\ UNCHANGED <<family, switch, assets>>

\* update_project with a switch: the document is written as it was loaded.
PatchSwitch ==
    /\ Loads
    /\ switch' = TRUE
    /\ saved' = Loaded
    /\ InvalidateDerivedState
    /\ UNCHANGED <<family, assets>>

\* What compile_pcb refuses.
CompileRefused(d) ==
    \/ d.layout.elements = <<>>
    \/ UnknownFootprints(d.layout) # {}
    \/ CompileElectronics(d.family, d.controller, d.layout).remaining < 0

CompilePcb ==
    /\ Loads
    /\ ~ CompileRefused(Design)
    /\ saved' = Compiled(Design).layout
    /\ electronics' = <<CompileElectronics(family, Controller, Loaded)>>
    /\ mechanical' = <<>>
    /\ report' = NoReport
    /\ bundle' = <<>>
    /\ UNCHANGED <<family, switch, assets>>

MechanicalSummary(config) ==
    IF family \in ShellFamilies THEN ShellSpec(Loaded, config) ELSE PanelSummary(Loaded, config)

\* compile_mechanical: a metadata write, not a revision.
CompileMechanical(config) ==
    /\ Loads
    /\ Loaded.elements # <<>>
    /\ config \in IF family \in ShellFamilies THEN ShellConfigs ELSE PanelConfigs
    /\ mechanical' = <<[config |-> config, summary |-> MechanicalSummary(config)]>>
    /\ saved' = Loaded
    /\ UNCHANGED <<family, switch, assets, electronics, report, bundle>>

ReportOn(d) == [verdict |-> ValidateProject(d), checked |-> DOMAIN d.assets # {}]

RunValidation ==
    /\ Loads
    /\ report' = ReportOn(Design)
    /\ saved' = Loaded
    /\ UNCHANGED <<family, switch, assets, electronics, mechanical, bundle>>

ExportProjectBundle ==
    /\ Loads
    /\ Loaded.elements # <<>>
    /\ ValidateProject(Design) # "fail"
    /\ report' = ReportOn(Design)
    /\ bundle' = <<[content |-> ExportBundle(Design), checked |-> DOMAIN assets # {}]>>
    /\ saved' = Loaded
    /\ UNCHANGED <<family, switch, assets, electronics, mechanical>>

-----------------------------------------------------------------------------
(* Appearance assets.                                                      *)

\* A generation completes: its mesh becomes a candidate, by a metadata write.
IngestAsset(a) ==
    /\ Loads
    /\ a \notin DOMAIN assets
    /\ assets' = [b \in DOMAIN assets \cup {a} |-> IF b = a THEN "candidate" ELSE assets[b]]
    /\ saved' = Loaded
    /\ UNCHANGED <<family, switch, derived>>

Applied(a) ==
    LET elements == Loaded.elements
    IN  \E n \in DOMAIN elements : a \in {elements[n].asset, elements[n].look}

\* update_keycap_asset_acceptance.  What touches the canonical state is a revision.
SetAcceptance(a, state) ==
    LET canonical == assets[a] \in Canonical \/ state \in Canonical \/ Applied(a)
    IN  /\ Loads
        /\ a \in DOMAIN assets
        /\ assets[a] # state
        /\ state = "rejected" => ~ Applied(a)
        /\ assets' = [assets EXCEPT ![a] = state]
        /\ saved' = Loaded
        /\ IF canonical THEN InvalidateDerivedState ELSE UNCHANGED derived
        /\ UNCHANGED <<family, switch>>

\* apply_keycap to the elements of these ids, to all when there are none.
ApplyKeycap(a, ids) ==
    LET es == Loaded.elements
        targets == {n \in DOMAIN es : es[n].type \in KeyLike /\ (ids = {} \/ es[n].id \in ids)}
    IN  /\ Loads
        /\ a \in DOMAIN assets
        /\ assets[a] \in Canonical
        /\ \E n \in targets : es[n].asset # a \/ es[n].look # a
        /\ saved' = OfElements([n \in DOMAIN es |->
                                   IF n \in targets THEN [es[n] EXCEPT !.asset = a, !.look = a]
                                   ELSE es[n]],
                               saved.pitch)
        /\ InvalidateDerivedState
        /\ UNCHANGED <<family, switch, assets>>

Next ==
    \/ \E p \in Payloads[family] : PatchLayout(p)
    \/ PatchSwitch
    \/ CompilePcb
    \/ \E config \in PanelConfigs \cup ShellConfigs : CompileMechanical(config)
    \/ RunValidation
    \/ ExportProjectBundle
    \/ \E a \in AssetIds[family] :
        \/ IngestAsset(a)
        \/ \E state \in {"accepted", "rejected", "production_ready"} : SetAcceptance(a, state)
        \/ \E ids \in {{}, {"k1"}} : ApplyKeycap(a, ids)

Spec == Init /\ [][Next]_vars

-----------------------------------------------------------------------------
(* Properties.                                                             *)

AcceptanceStates == {"candidate", "accepted", "rejected", "production_ready"}
Verdicts == {"pass", "warn", "fail"}

\* The document, its two views, what is compiled from it and its evidence have their
\* shapes.
TypeOK ==
    /\ family \in Families
    /\ saved \in LayoutFields
    /\ saved.keys = KeyView(saved.elements, saved.pitch)
    /\ switch \in BOOLEAN
    /\ DOMAIN assets \subseteq AssetIds[family]
    /\ \A a \in DOMAIN assets : assets[a] \in AcceptanceStates
    /\ Len(electronics) <= 1 /\ Len(mechanical) <= 1 /\ Len(bundle) <= 1
    /\ report.verdict \in Verdicts \cup {"none"} /\ report.checked \in BOOLEAN

SameElements(new, old) ==
    /\ Len(new) = Len(old)
    /\ \A n \in DOMAIN new :
           \A field \in {"id", "type", "label", "x", "y", "w", "h", "rot", "at"} :
               new[n][field] = old[n][field]

\* Parsing a saved document again (LayoutSpec, by every request) settles at once;
\* while ids are unique it moves and retypes nothing; and a layout of at most half
\* the combined limit can always be loaded again.
LoadingIsStable ==
    /\ Loads => LayoutSpec(Loaded) = Loaded
    /\ UniqueIds(saved.elements) => SameElements(Loaded.elements, saved.elements)
    /\ 2 * Len(saved.elements) <= MaxItems => Loads

ElectronicsTrue(now, keys) ==
    /\ electronics[1] = now
    /\ \A n \in DOMAIN keys : keys[n].at = now.matrix.places[keys[n].id]

BundleTrue(now) ==
    /\ report.verdict # "none"
    /\ \A part \in {"files", "bom", "firmware"} : bundle[1].content[part] = now[part]
    /\ bundle[1].checked => bundle[1].content = now

\* What is recorded as compiled from the document (derived, exports) is what
\* compiling or validating it now gives, after any run of metadata writes and
\* revisions; a verdict does when it was reached with assets attached (checked).
DerivedStateStaysTrue ==
    Loads =>
        /\ electronics # <<>> =>
               ElectronicsTrue(CompileElectronics(family, Controller, Loaded), Loaded.keys)
        /\ mechanical # <<>> => mechanical[1].summary = MechanicalSummary(mechanical[1].config)
        /\ report.checked => report.verdict = ValidateProject(Design)
        /\ bundle # <<>> => BundleTrue(ExportBundle(Design))

OnePlaceEach(place, rows, cols) ==
    /\ \A i, j \in DOMAIN place : place[i] = place[j] => i = j
    /\ \A i \in DOMAIN place : place[i][1] \in 0 .. rows - 1 /\ place[i][2] \in 0 .. cols - 1

\* No two ids share a place of the matrix, and every place is inside it, whatever
\* the layout (compile_project_matrix, of which two strategies exist).
MatrixPositionsDistinct ==
    Loads => LET matrix == CompileMatrix(family, Loaded.keys)
             IN  OnePlaceEach(matrix.places, matrix.rows, matrix.cols)

RowsOfTheBoard(keys, place) ==
    \A m, n \in DOMAIN keys :
        /\ place[m][1] = place[n][1] =>
            /\ Center(keys[m]) - Center(keys[n]) <= UnitPitch
            /\ place[m][2] < place[n][2] => keys[m].x <= keys[n].x
        /\ place[m][1] < place[n][1] => Center(keys[m]) < Center(keys[n])

ReadingOrderOfTheBoard(keys, place) ==
    \A m, n \in DOMAIN keys :
        Lex(place[m], place[n]) => ~ Lex(<<keys[n].y, keys[n].x>>, <<keys[m].y, keys[m].x>>)

Follows(keys, matrix, place) ==
    IF Strategy(family) = "physical_rows" THEN RowsOfTheBoard(keys, place)
    ELSE /\ ReadingOrderOfTheBoard(keys, place)
         /\ \A r \in 1 .. Len(keys) : matrix.rows + matrix.cols <= Cost(Len(keys), r)

\* The place of each key.
Places(keys, matrix) == [n \in DOMAIN keys |-> matrix.places[keys[n].id]]

\* The matrix follows the board.  Physical rows: keys of a row have centres within
\* half a unit, rows go down and columns to the right (matrix_compiler.py).
\* Balanced: reading order, on the fewest pins.
MatrixFollowsTheBoard ==
    Loads /\ UniqueIds(Loaded.keys) =>
        LET matrix == CompileMatrix(family, Loaded.keys)
        IN  Follows(Loaded.keys, matrix, Places(Loaded.keys, matrix))

Generated(firmware) == firmware.info.error = "none" /\ firmware.keymap.error = "none"

\* Of what validation lets pass, compile-pcb refuses nothing and the firmware
\* generators raise nothing; and no key shares its id with another, although no
\* check looks at ids: keys of one id are parsed onto one spot and overlap there
\* (unless they are smaller than the overlap check can see).
ValidatedDesignsCompile ==
    Loads /\ ValidateProject(Design) # "fail" =>
        /\ ~ CompileRefused(Design)
        /\ Generated(FirmwareOf(Design))
        /\ (\A n \in KeyLikeOf(Loaded.elements) : Shorter(Loaded.elements[n]) > Epsilon)
               => UniqueIds(Loaded.keys)

\* Every place is in one cell, and rows are those of the matrix for equally tall keys.
ViaAgrees(keys, rows, place, via) ==
    LET rowsOfVia == [r \in DOMAIN via |-> Range(via[r])]
    IN  /\ UNION Range(rowsOfVia) = Range(place)
        /\ \A r, s \in DOMAIN via : \A i \in DOMAIN via[r], j \in DOMAIN via[s] :
               via[r][i] = via[s][j] => r = s /\ i = j
        /\ (/\ Strategy(family) = "physical_rows"
            /\ \A m, n \in DOMAIN keys : keys[m].h = keys[n].h)
               => rowsOfVia = [r \in 1 .. rows |-> {p \in Range(place) : p[1] = r - 1}]

FirmwareAgrees(keys, matrix, place, firmware) ==
    /\ \A n \in DOMAIN keys :
           firmware.keymap.layer[place[n][1] * matrix.cols + place[n][2] + 1]
               = LabelToKeycode(keys[n].label)
    /\ \A n \in DOMAIN keys : \E e \in DOMAIN firmware.map :
           firmware.map[e].id = keys[n].id /\ firmware.map[e].matrix = place[n]
    /\ ViaAgrees(keys, matrix.rows, place, firmware.via)

BundleAgrees(keys, matrix, content, preview) ==
    content.verdict # "fail" =>
        /\ FirmwareAgrees(keys, matrix, Places(keys, matrix), content.firmware)
        /\ content.bom.controls = content.bom.matrixControls
        /\ \A part \in DOMAIN preview : preview[part] = content[part]

\* The files of one bundle agree: every key's code is at its place in the keymap,
\* VIA has every key once, and in the matrix's rows when keys are equally tall, the
\* control map tells the matrix's places, and the bill of materials counts what is
\* in the matrix; and the preview promised this bundle.
ExportedFilesAgree ==
    Loads /\ UniqueIds(Loaded.elements) =>
        BundleAgrees(Loaded.keys, CompileMatrix(family, Loaded.keys),
                     ExportBundle(Design), ExportPreview(Design))

\* The board can be cut where validation warns of nothing worse than looks: the
\* default panel's openings are inside its outline and clear of the corner holes, for
\* controls of ordinary size at any angle (generate_plate_dxf), and those of the controls
\* that stand upright are clear of each other (_check_element_overlap).  Validation is
\* blind to rotation, so nothing keeps other controls' openings apart: two adjacent 1u
\* switches turned by 45 degrees pass, with cutouts 19.80 mm wide 19.05 mm apart.
ValidatedPanelsCut ==
    Loads /\ ValidateProject(Design) # "fail" =>
        LET openings == DrawPanel(Loaded, DefaultPanel).openings
            board == Outline(Loaded, DefaultPanel)
            controls == {n \in DOMAIN Loaded.elements : Ordinary(Loaded.elements[n])}
            upright == {n \in controls : Upright(Loaded.elements[n])}
        IN  /\ ClearOfBoard(openings, controls, board, CornerHoles(board))
            /\ ClearOfEachOther(openings, upright, 2 * Scale * Epsilon)

\* What the mechanical summary counts is what the drawing has (two functions that
\* go through the elements on their own), and the shell of a validated companion,
\* whose parts have no negative size (nothing checks that), has an opening or a cavity
\* for each part it must have, inside its outer edge.
OpeningsMatchControls ==
    Loads /\ Loaded.elements # <<>> =>
        /\ LET panel == DrawPanel(Loaded, DefaultPanel)
           IN  SummaryMatches(Loaded, PanelSummary(Loaded, DefaultPanel), panel,
                              Drawn(panel.openings))
        /\ /\ family = "handheld_companion"
           /\ ValidateProject(Design) # "fail"
           /\ \A n \in DOMAIN Loaded.elements : {Loaded.elements[n].w, Loaded.elements[n].h} \subseteq Nat
           => ShellComplete(ShellSpec(Loaded, DefaultShell), OuterShell(Loaded, DefaultShell))

\* A bundle whose validation saw the assets shows only accepted ones: no element
\* of its layout refers to an asset that was rejected, that is still a candidate or
\* that is unknown, also when an older layout was patched back in before the export.
ExportsCarryAcceptedAssets ==
    LET elements == Loaded.elements
    IN  Loads /\ bundle # <<>> /\ (\A b \in Range(bundle) : b.checked) =>
            \A n \in DOMAIN elements :
                LET asset == AssignedAsset(elements[n])
                IN  asset # NoAsset => asset \in DOMAIN assets /\ assets[asset] \in Canonical
=============================================================================
