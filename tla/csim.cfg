SPECIFICATION Spec
CHECK_DEADLOCK FALSE
CONSTANTS
    OptionSets <- MCOptionSets
    Shapes <- MCShapes
    Addresses = {0, 1, 4, 8, 12, 15}
    Operations = {"L", "M"}
    MaxLines = 5
INVARIANTS
    is_transpose
    FewMisses
PROPERTIES
    ImplementsLru
