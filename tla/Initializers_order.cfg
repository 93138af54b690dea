SPECIFICATION InitSpec
CONSTANTS
    MaxIndex = 4
    Objects <- MCPointerArray
    Expressions <- MCAddressesOnly
    Liberties = {"size of an outer element"}
CHECK_DEADLOCK FALSE
INVARIANT ElementsInAnyOrder
