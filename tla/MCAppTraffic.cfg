CONSTANTS
    NoApp = NoApp
    Scenarios <- MCScenarios
    Delays = {0, 1}
    StreamTick = 10
SPECIFICATION Spec
INVARIANTS
    TypeOK
    NoTrafficToClosedPort
PROPERTIES
    EveryFlowDelivers
CHECK_DEADLOCK FALSE
