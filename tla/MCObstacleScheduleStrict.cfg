\* The avoiding callback against the specification's strict overlap test.
CONSTANTS
    b1 = b1
    b2 = b2
    b3 = b3
    Buildings <- MCBuildings
    InitialBox <- MCInitialBox
    MeshPositions <- MCMeshPositions
    Field = 400
    Programs <- MCPrograms

SPECIFICATION Spec

INVARIANT AvoidanceAsSpecified

\* Run() returns at the stop event and the program ends there.
CHECK_DEADLOCK FALSE
