SPECIFICATION Spec
CONSTANTS
    Texts <- MCTexts
    Empty = "nothing"
    Size <- MCSize
    Fate <- MCFate
    Including = {"header"}
    Writes <- MCWrites
    FileCounts = {0, 1, 2}
    ReadSize = 2
    WriteSize = 2
    MaxClicks = 2
INVARIANT StoredIsOutput
PROPERTY EveryClickAnswered
CHECK_DEADLOCK FALSE
