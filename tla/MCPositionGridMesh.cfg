\* The mesh-backhaul scenario's own map: 400 m field, 10 m cells.
CONSTANTS
    Field = 400
    Cell = 10
    NoMobility = NoMobility
    RulerIndent = 5
    NodeLists <- MCMeshNodeLists
    BoxLists <- MCScenarioBoxLists

SPECIFICATION Spec

INVARIANT GlyphShowsRole

\* WriteAsciiPositionGrid returns after the ruler.
CHECK_DEADLOCK FALSE
