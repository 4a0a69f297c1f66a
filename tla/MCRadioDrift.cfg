CONSTANTS
    DefaultAlloc = DefaultAlloc
    NoBounds = NoBounds
    Scenarios <- MCDriftScenarios
    Nodes <- MCNodes
    Allocators <- MCAllocators
    Directions <- DriftDirections
SPECIFICATION Spec
INVARIANT
    EndsStayConnected
CHECK_DEADLOCK FALSE
