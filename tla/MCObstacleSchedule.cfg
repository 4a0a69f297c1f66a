\* Relocation callbacks over every program of up to three requests and the
\* three main()s' own programs.
CONSTANTS
    b1 = b1
    b2 = b2
    b3 = b3
    Buildings <- MCBuildings
    InitialBox <- MCInitialBox
    MeshPositions <- MCMeshPositions
    Field = 400
    Programs <- MCTimelinePrograms

SPECIFICATION Spec

INVARIANT TypeOK
INVARIANT OverlapOnlyAtRightEdge
INVARIANT MovesUpToStopFire

\* Run() returns at the stop event and the program ends there.
CHECK_DEADLOCK FALSE
