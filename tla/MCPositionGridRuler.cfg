\* The LTE playfield scenario's own map: 400 m field, 10 m cells, the ruler
\* indented by five spaces.
CONSTANTS
    Field = 400
    Cell = 10
    NoMobility = NoMobility
    RulerIndent = 5
    NodeLists <- MCLteNodeLists
    BoxLists <- MCScenarioBoxLists

SPECIFICATION Spec

INVARIANT RulerAligned

\* WriteAsciiPositionGrid returns after the ruler.
CHECK_DEADLOCK FALSE
