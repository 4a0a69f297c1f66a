\* The mesh-backhaul scenario as written: its seven moves, simTime = 5.0 s.
CONSTANTS
    b1 = b1
    b2 = b2
    b3 = b3
    Buildings <- MCBuildings
    InitialBox <- MCInitialBox
    MeshPositions <- MCMeshPositions
    Field = 400
    Programs <- MCMeshBackhaulPrograms

SPECIFICATION Spec

INVARIANT AllMovesFire

\* Run() returns at the stop event and the program ends there.
CHECK_DEADLOCK FALSE
