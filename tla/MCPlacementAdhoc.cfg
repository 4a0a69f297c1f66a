CONSTANTS
    DefaultAlloc = DefaultAlloc
    NoBounds = NoBounds
    Scenarios <- MCAdhocRadioScenarios
    Nodes <- MCNodes
    Allocators <- MCAllocators
    Directions = {}
SPECIFICATION Spec
INVARIANT
    LaidOutAsCommented
CHECK_DEADLOCK FALSE
