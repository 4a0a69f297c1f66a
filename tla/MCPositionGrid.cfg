\* The rasterizer on every UE list of up to three nodes and every list of up
\* to two buildings, 5 x 5 grid.
CONSTANTS
    Field = 40
    Cell = 10
    NoMobility = NoMobility
    RulerIndent = 5
    NodeLists <- MCNodeLists
    BoxLists <- MCBoxLists

SPECIFICATION Spec

INVARIANT TypeOK
INVARIANT ObstacleCellsExact
INVARIANT NodeCellsFaithful
INVARIANT GlyphShowsRole

\* WriteAsciiPositionGrid returns after the ruler (the rows and listings
\* that follow only print the state).
CHECK_DEADLOCK FALSE
