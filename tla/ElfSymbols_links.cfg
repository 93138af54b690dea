CONSTANTS
    Names <- MCNames
    HashOf <- MCHashOf
    Objects <- MCObjects
    Archives <- MCArchives
    Groups <- MCGroups
    MaxInputs = 3
    MaxSteps = 5
    Outputs <- MCOutputs
    Tables <- MCTables
    MaxRefs = 3
    Deviations = {}
SPECIFICATION LinkSpec
INVARIANTS RightDefinition RelocationsKept ArchivesServe ReferencesRight
CHECK_DEADLOCK FALSE
