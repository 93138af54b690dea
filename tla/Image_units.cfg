SPECIFICATION ImageSpec
CONSTANTS
    FunctionKinds <- MCKinds
    IntRegs <- MCIntRegs
    FloatRegs <- MCFloatRegs
    Frames <- MCAllFrames
    VaRegs <- MCVaRegs
    Consts <- MCAllConsts
    Addresses <- MCAllAddresses
    AbsStores <- MCAbsolute
    AbsFloats <- MCAbsolute
    MaxSteps <- MCMaxSteps
    EntrySp <- MCSp
    Programs <- MCPrograms
    Types <- MCTypes
    Dynamic <- MCDynamic
    Addends <- MCAddends
    Base <- MCBase
    Elsewhere <- MCElsewhere
    Targets <- MCAllTargets
    NearTargets <- MCAllNear
    OldWords <- MCAllOld
    Gots <- MCGots
    MaxRelocs <- MCMaxRelocs
    Text <- MCText
    Plt <- MCPlt
    PltEntries = 2
    MaxIndex = 4
    Objects <- MCObjects
    Expressions <- MCExpressions
    Liberties = {}
    Tccs <- MCTccs
    Layouts <- MCLayouts
    PageSize = 4
    Alignments <- MCAlignments
    MallocAlign = 1
    HeapEnd = 34
CHECK_DEADLOCK FALSE
INVARIANTS
    MeansWhatItSays
    FrameKept
    ReachesTarget
    FailsWithReason
    InitializersRight
    SectionsFit
    PagesRight
PROPERTIES
    OthersMostlyKept
    OnlyImmediates
