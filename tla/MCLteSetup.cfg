\* The LTE set-up: placement, attach loop, core placement.
CONSTANTS
    DefaultAlloc = DefaultAlloc
    NoBounds = NoBounds
    Scenarios <- MCLteScenarios
    Nodes <- MCNodes
    Allocators <- MCAllocators
    NUes = 10
    DblMax <- MCDblMax
SPECIFICATION Spec
INVARIANT
    AttachedAsLaidOut
PROPERTY
    AttachesAsPlanned
\* main() goes on to the rest of its set-up and Run().
CHECK_DEADLOCK FALSE
