CONSTANTS
    DefaultAlloc = DefaultAlloc
    NoBounds = NoBounds
    Scenarios <- MCRadioScenarios
    Nodes <- MCNodes
    Allocators <- MCAllocators
    Directions <- AxisDirections
SPECIFICATION Spec
INVARIANTS
    TypeOK
    
    PlacedNearestAsCommented
    TopologyAsCommented
    WalkInsideBounds
CHECK_DEADLOCK FALSE
