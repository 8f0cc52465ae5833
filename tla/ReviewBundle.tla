---------------------------- MODULE ReviewBundle ----------------------------
(***************************************************************************)
(* The export bundle of a design and its preview                           *)
(* (server/export/bundler.py).  A design is as in DesignValidation; the    *)
(* documents' wording is left out.                                         *)
(***************************************************************************)
EXTENDS DesignValidation, Firmware

ShellFamilies == {"handheld_companion", "retro_handheld"}

-----------------------------------------------------------------------------
(* Files.                                                                  *)

ShellFiles == {"shell/front_shell_panel.dxf", "shell/back_shell_reference.dxf",
               "shell/shell_spec.json"}
FirmwareFiles == {"firmware/info.json", "firmware/keymap.json", "firmware/via.json",
                  "firmware/control-map.json"}

\* What create_export_bundle writes into the ZIP: compilers' output, then documents,
\* then a manifest of everything written before it.
MechanicalOutput(family) == IF family \in ShellFamilies THEN ShellFiles ELSE {"plate/plate.dxf"}

BundledFiles(family) ==
    MechanicalOutput(family) \cup FirmwareFiles
        \cup {"validation_report.json", "BUILD_GUIDE.md", "BOM.md", "bom.json"}

BundleFiles(family) == BundledFiles(family) \cup {"manifest.json"}

\* What the preview lists.
IncludedFiles(family) ==
    (IF family \in ShellFamilies THEN ShellFiles ELSE {"plate/plate.dxf"})
        \cup {"firmware/info.json", "firmware/keymap.json", "firmware/via.json",
              "firmware/control-map.json", "validation_report.json", "manifest.json",
              "BUILD_GUIDE.md", "BOM.md", "bom.json"}

-----------------------------------------------------------------------------
(* The bill of materials: quantities by item.                              *)

SwitchLike(layout) == {n \in DOMAIN layout.elements : layout.elements[n].type \in KeyLike}
AcceptedAssets(d) == {a \in DOMAIN d.assets : d.assets[a] \in Canonical}

\* Items that are not needed are absent from the code's list, and 0 here.
BomOn(d, electronics) ==
    LET switches == Cardinality(SwitchLike(d.layout))
    IN  [controller |-> 1, controls |-> switches, diodes |-> switches, panel |-> 1,
         caps |-> switches, capsAccepted |-> AcceptedAssets(d) # {},
         modules |-> electronics.usage,
         placed |-> Len(d.layout.elements), matrixControls |-> electronics.controls,
         pins |-> electronics.pins, remaining |-> electronics.remaining]

ReviewBom(d) == BomOn(d, CompileElectronics(d.family, d.controller, d.layout))

-----------------------------------------------------------------------------
\* The design as previewed and bundled: a copy with its matrix applied.
Compiled(d) ==
    [d EXCEPT !.layout = ApplyMatrix(@, CompileMatrix(d.family, @.keys))]

WriteFirmwareFiles(family, controller, layout, matrix) ==
    [info |-> QmkInfo(controller, layout, matrix), keymap |-> Keymap(layout, matrix),
     via |-> ViaRows(layout), map |-> ControlMap(family, layout)]

FirmwareOf(d) ==
    WriteFirmwareFiles(d.family, d.controller, Compiled(d).layout,
                       CompileMatrix(d.family, d.layout.keys))

ReadinessOf(verdict) ==
    CASE verdict = "fail" -> "blocked" [] verdict = "pass" -> "review_ready" [] OTHER -> "candidate"

PreviewOf(compiled, verdict) ==
    [verdict |-> verdict, readiness |-> ReadinessOf(verdict),
     files |-> IncludedFiles(compiled.family), bom |-> ReviewBom(compiled)]

ExportPreview(d) == LET compiled == Compiled(d) IN PreviewOf(compiled, ValidateProject(compiled))

\* The report is that of the design as it was loaded.
BundleOf(d, verdict) ==
    [verdict |-> verdict,
     readiness |-> IF verdict = "pass" THEN "review_ready" ELSE "candidate",
     files |-> BundleFiles(d.family), bom |-> ReviewBom(Compiled(d)), firmware |-> FirmwareOf(d)]

ExportBundle(d) == BundleOf(d, ValidateProject(d))
=============================================================================
