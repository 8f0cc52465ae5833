SPECIFICATION Spec
CONSTANTS
    MaxKeys = 28
    MaxElements = 42
    MaxItems = 56
    Footprints = {"none", "mx_switch", "rotary_encoder", "oled_128x64", "acme_9000"}
    Turn <- Turns
    Payloads <- LayoutsSent
    AssetIds <- AssetsDelivered
    PanelConfigs <- PanelsAsked
    ShellConfigs <- ShellsAsked
INVARIANTS
    TypeOK
    LoadingIsStable
    DerivedStateStaysTrue
    MatrixPositionsDistinct
    MatrixFollowsTheBoard
    ValidatedDesignsCompile
    ExportedFilesAgree
    ValidatedPanelsCut
    OpeningsMatchControls
    ExportsCarryAcceptedAssets
CHECK_DEADLOCK FALSE
