---------------------------- MODULE PositionGrid ----------------------------
(***************************************************************************)
(* The scene rasterizer WriteAsciiPositionGrid.  It fills a W x H grid of  *)
(* '.', paints every building's cell range with '#' (floor of the box      *)
(* edges, clamped to the grid), overlays every node's glyph at the rounded *)
(* cell of its position (skipping nodes without a mobility model or out of *)
(* the grid), then writes a header, a ruler labelling every 5th column,    *)
(* one line per grid row (row 0 is the northmost, y = (H-1) * cell) and    *)
(* the node and building listings.                                         *)
(*                                                                         *)
(* Each loop iteration is an action.  Glyphs are ASCII codes, so the       *)
(* code's character arithmetic ('0' + i, 'A' + i) is modelled as it is.    *)
(* Output text is modelled only where a property reads it: the ruler, as   *)
(* the character columns each label occupies.  The listings copy the       *)
(* inputs and are left out.                                                *)
(*                                                                         *)
(* Nodes are records [grp, idx, pos]: grp "UE" for the single container of *)
(* the UE/Wi-Fi playfield variant (glyph by index in the container), and   *)
(* "B", "M", "S", "Y" for the backhaul, mesh, STA and Sayed/Sadia          *)
(* containers of the mesh-backhaul variant, overlaid in that order.        *)
(***************************************************************************)
EXTENDS Integers, Sequences, FiniteSets

CONSTANTS
    Field,       \* fieldMeters
    Cell,        \* cellMeters
    NodeLists,   \* the node sequences the scenario can pass
    BoxLists,    \* the building sequences (current boundaries) it can pass
    NoMobility,  \* pos of a node whose GetObject<MobilityModel>() is null
    RulerIndent  \* spaces written before the ruler: "     " in both the UE
                 \* and the mesh-backhaul variant

ASSUME Field \in Nat /\ Cell \in Nat \ {0}

\* const int W = static_cast<int>((fieldMax - fieldMin) / cellMeters) + 1
W == Field \div Cell + 1
H == W

Rows == 0..(H - 1)
Cols == 0..(W - 1)
Cells == Rows \X Cols

\* ASCII codes of the glyphs.
Dot == 46
Hash == 35
ChS == 83
ChD == 68
ChB == 66
ChY == 89
Ch0 == 48
ChA == 65
Cha == 97

MaxOf(a, b) == IF a >= b THEN a ELSE b
MinOf(a, b) == IF a <= b THEN a ELSE b

\* static_cast<int>(std::floor(v / c))
FloorDiv(v, c) == v \div c

\* static_cast<int>(std::round(v / c)): half-way cases away from zero.
RoundDiv(v, c) ==
    IF v >= 0 THEN (2 * v + c) \div (2 * c)
              ELSE -((2 * (-v) + c) \div (2 * c))

\* The storage row of grid y index gy: grid[H - 1 - gy].
RowOf(gy) == H - 1 - gy

\* Writers of a cell other than a node (nodes are 1..Len(nodes)).
NoOwner == 0
BuildingOwner == -1

VARIABLES
    nodes,      \* the NodeContainer(s), in overlay order
    buildings,  \* the BuildingContainer's boundaries
    grid,       \* [Cells -> glyph]: grid[row][col]
    owner,      \* [Cells -> NoOwner | BuildingOwner | node index]: who set a cell
    b,          \* building loop index (1-based)
    k,          \* node loop index (1-based)
    gx,         \* ruler loop index
    col,        \* output column where the ruler writes next
    ruler       \* [labelled gx -> [first, last]]: columns of each label

vars == <<nodes, buildings, grid, owner, b, k, gx, col, ruler>>

-----------------------------------------------------------------------------
(* Glyph selection.                                                        *)

NumUes == Cardinality({j \in DOMAIN nodes : nodes[j].grp = "UE"})

\* Mutant: the digit case tested before the last-node case.
UeCharDigitFirst(i) ==
    IF i = 0 THEN ChS
    ELSE IF i < 10 THEN Ch0 + i
    ELSE IF i + 1 = NumUes THEN ChD
    ELSE Cha + (i - 10)

\* nodeChar(i) of the UE/Wi-Fi playfield variant.
UeChar(i) ==
    IF i = 0 THEN ChS
    ELSE IF i + 1 = NumUes THEN ChD
    ELSE IF i < 10 THEN Ch0 + i
    ELSE Cha + (i - 10)

\* nodeChar(type, i) of the mesh-backhaul variant, and the Sayed/Sadia
\* overlay (i == 0) ? 'Y' : 'D'.
MeshChar(grp, i) ==
    CASE grp = "B" -> ChB
      [] grp = "M" -> Ch0 + i
      [] grp = "S" -> ChA + i
      [] grp = "Y" -> IF i = 0 THEN ChY ELSE ChD

Glyph(n) == IF n.grp = "UE" THEN UeChar(n.idx) ELSE MeshChar(n.grp, n.idx)

-----------------------------------------------------------------------------

Init ==
    /\ nodes \in NodeLists
    /\ buildings \in BoxLists
    /\ grid = [c \in Cells |-> Dot]
    /\ owner = [c \in Cells |-> NoOwner]
    /\ b = 1
    /\ k = 1
    /\ gx = 0
    /\ col = RulerIndent
    /\ ruler = [g \in {} |-> 0]

\* Mutant: grid[gy][gx] = '#', the row flip forgotten.
PaintBuildingNoFlip ==
    /\ b <= Len(buildings)
    /\ LET bx == buildings[b]
           x0 == MaxOf(0, FloorDiv(bx.xMin, Cell))
           x1 == MinOf(W - 1, FloorDiv(bx.xMax, Cell))
           y0 == MaxOf(0, FloorDiv(bx.yMin, Cell))
           y1 == MinOf(H - 1, FloorDiv(bx.yMax, Cell))
           covered == {c \in Cells : c[1] \in y0..y1 /\ c[2] \in x0..x1}
       IN /\ grid' = [c \in Cells |-> IF c \in covered THEN Hash ELSE grid[c]]
          /\ owner' = [c \in Cells |-> IF c \in covered THEN BuildingOwner ELSE owner[c]]
    /\ b' = b + 1
    /\ UNCHANGED <<nodes, buildings, k, gx, col, ruler>>

\* One iteration of "Mark buildings as '#'".
PaintBuilding ==
    /\ b <= Len(buildings)
    /\ LET bx == buildings[b]
           x0 == MaxOf(0, FloorDiv(bx.xMin, Cell))
           x1 == MinOf(W - 1, FloorDiv(bx.xMax, Cell))
           y0 == MaxOf(0, FloorDiv(bx.yMin, Cell))
           y1 == MinOf(H - 1, FloorDiv(bx.yMax, Cell))
           covered == {c \in Cells : c[1] \in {RowOf(gy) : gy \in y0..y1}
                                     /\ c[2] \in x0..x1}
       IN /\ grid' = [c \in Cells |-> IF c \in covered THEN Hash ELSE grid[c]]
          /\ owner' = [c \in Cells |-> IF c \in covered THEN BuildingOwner ELSE owner[c]]
    /\ b' = b + 1
    /\ UNCHANGED <<nodes, buildings, k, gx, col, ruler>>

\* Mutant: std::floor where the code rounds.
NodeCellFloor(p) == <<FloorDiv(p.x, Cell), FloorDiv(p.y, Cell)>>

\* The cell a node's position rounds to, as <<gx, gy>>.
NodeCell(p) == <<RoundDiv(p.x, Cell), RoundDiv(p.y, Cell)>>

InGrid(g) == g[1] >= 0 /\ g[1] < W /\ g[2] >= 0 /\ g[2] < H

\* One iteration of "Overlay node markers" that draws: grid[H-1-gy][gx] =
\* nodeChar(...).
OverlayNode ==
    /\ b > Len(buildings)
    /\ k <= Len(nodes)
    /\ nodes[k].pos # NoMobility
    /\ LET g == NodeCell(nodes[k].pos)
           c == <<RowOf(g[2]), g[1]>>
       IN /\ InGrid(g)
          /\ grid' = [grid EXCEPT ![c] = Glyph(nodes[k])]
          /\ owner' = [owner EXCEPT ![c] = k]
    /\ k' = k + 1
    /\ UNCHANGED <<nodes, buildings, b, gx, col, ruler>>

\* if (!mm) continue;
SkipNodeWithoutMobility ==
    /\ b > Len(buildings)
    /\ k <= Len(nodes)
    /\ nodes[k].pos = NoMobility
    /\ k' = k + 1
    /\ UNCHANGED <<nodes, buildings, grid, owner, b, gx, col, ruler>>

\* if (gx < 0 || gx >= W || gy < 0 || gy >= H) continue;
SkipNodeOutOfGrid ==
    /\ b > Len(buildings)
    /\ k <= Len(nodes)
    /\ nodes[k].pos # NoMobility
    /\ ~InGrid(NodeCell(nodes[k].pos))
    /\ k' = k + 1
    /\ UNCHANGED <<nodes, buildings, grid, owner, b, gx, col, ruler>>

\* (gx * static_cast<int>(cellMeters)) / 10 % 100
RulerLabel(g) == ((g * Cell) \div 10) % 100

RECURSIVE NumDigits(_)
NumDigits(v) == IF v < 10 THEN 1 ELSE 1 + NumDigits(v \div 10)

\* Mutant: the ruler loop runs while gx <= W.
WriteRulerColumnOffByOne ==
    /\ b > Len(buildings)
    /\ k > Len(nodes)
    /\ gx <= W
    /\ IF gx % 5 = 0
       THEN LET width == MaxOf(2, NumDigits(RulerLabel(gx))) IN
            /\ ruler' = [g \in DOMAIN ruler \cup {gx} |->
                            IF g = gx THEN [first |-> col, last |-> col + width - 1]
                                      ELSE ruler[g]]
            /\ col' = col + width
       ELSE /\ col' = col + 1
            /\ UNCHANGED ruler
    /\ gx' = gx + 1
    /\ UNCHANGED <<nodes, buildings, grid, owner, b, k>>

\* One iteration of the ruler loop, after ofs << "     ": a label
\* std::setw(2) wide on every 5th column, a single space otherwise.
WriteRulerColumn ==
    /\ b > Len(buildings)
    /\ k > Len(nodes)
    /\ gx < W
    /\ IF gx % 5 = 0
       THEN LET width == MaxOf(2, NumDigits(RulerLabel(gx))) IN
            /\ ruler' = [g \in DOMAIN ruler \cup {gx} |->
                            IF g = gx THEN [first |-> col, last |-> col + width - 1]
                                      ELSE ruler[g]]
            /\ col' = col + width
       ELSE /\ col' = col + 1
            /\ UNCHANGED ruler
    /\ gx' = gx + 1
    /\ UNCHANGED <<nodes, buildings, grid, owner, b, k>>

Next ==
    \/ PaintBuilding
    \/ OverlayNode
    \/ SkipNodeWithoutMobility
    \/ SkipNodeOutOfGrid
    \/ WriteRulerColumn

Spec == Init /\ [][Next]_vars /\ WF_vars(Next)

-----------------------------------------------------------------------------
(* Properties.                                                             *)

TypeOK ==
    /\ grid \in [Cells -> 0..127]
    /\ owner \in [Cells -> {NoOwner, BuildingOwner} \cup DOMAIN nodes]
    /\ b \in 1..(Len(buildings) + 1)
    /\ k \in 1..(Len(nodes) + 1)
    /\ gx \in 0..W
    /\ DOMAIN ruler \subseteq Cols

\* Reference geometry: the square of grid cell (gxi, gyi) is
\* [gxi * Cell, (gxi + 1) * Cell) x [gyi * Cell, (gyi + 1) * Cell).
Intersects(bx, gxi, gyi) ==
    /\ bx.xMin < (gxi + 1) * Cell /\ bx.xMax >= gxi * Cell
    /\ bx.yMin < (gyi + 1) * Cell /\ bx.yMax >= gyi * Cell

\* Obstacles are drawn exactly: a cell no node has drawn over shows '#' iff
\* the square of that cell, read with y growing upward from the bottom row,
\* meets a building painted so far (the floor, the clamps and the row flip
\* of the building loop agree with the geometry).
ObstacleCellsExact ==
    \A c \in Cells :
        owner[c] \in {NoOwner, BuildingOwner} =>
            (grid[c] = Hash <=>
                \E j \in 1..(b - 1) : Intersects(buildings[j], c[2], H - 1 - c[1]))

\* Reference rounding: the grid index whose cell centre is nearest to v,
\* half-way values going up (the positions are never negative).
NearestIndex(v) ==
    CHOOSE g \in -1..(W + 1) : 2 * g * Cell - Cell <= 2 * v /\ 2 * v < 2 * g * Cell + Cell

DrawnCell(j) ==
    LET p == nodes[j].pos IN
    IF p = NoMobility THEN <<-1, -1>>
    ELSE <<H - 1 - NearestIndex(p.y), NearestIndex(p.x)>>

Drawn(j) == DrawnCell(j) \in Cells

\* Nodes are drawn where they are and over everything drawn before: for every
\* node overlaid so far that has a position in the grid, the cell whose
\* centre is nearest to it (y flipped) shows the glyph of the last node so
\* far with that cell, whether a building was painted there or not.
NodeCellsFaithful ==
    \A j \in 1..(k - 1) :
        Drawn(j) =>
            LET c == DrawnCell(j)
                last == CHOOSE l \in j..(k - 1) :
                            /\ Drawn(l) /\ DrawnCell(l) = c
                            /\ \A m \in (l + 1)..(k - 1) : DrawnCell(m) # c
            IN owner[c] = last /\ grid[c] = Glyph(nodes[last])

\* The role the legend line gives a glyph, per variant.
UeLegendRole(g) ==
    CASE g = ChS -> "source"
      [] g = ChD -> "destination"
      [] OTHER   -> "ue"

MeshLegendRole(g) ==
    CASE g = ChB                 -> "backhaul"
      [] g = ChY                 -> "sayed"
      [] g = ChD                 -> "sadia"
      [] g \in Ch0..(Ch0 + 9)    -> "mesh"
      [] g \in ChA..(ChA + 25)   -> "sta"
      [] OTHER                   -> "unknown"

\* The role of a node: node 0 is Sayed (the source), the last is Sadia (the
\* destination) in the UE variant; the container in the mesh variant.
Role(n) ==
    IF n.grp = "UE"
    THEN IF n.idx = 0 THEN "source"
         ELSE IF n.idx + 1 = NumUes THEN "destination" ELSE "ue"
    ELSE CASE n.grp = "B" -> "backhaul"
           [] n.grp = "M" -> "mesh"
           [] n.grp = "S" -> "sta"
           [] n.grp = "Y" -> IF n.idx = 0 THEN "sayed" ELSE "sadia"

\* Read through the legend, every node glyph on the map names the role of
\* the node that drew it.
GlyphShowsRole ==
    \A c \in Cells :
        owner[c] \notin {NoOwner, BuildingOwner} =>
            LET n == nodes[owner[c]] IN
            IF n.grp = "UE" THEN UeLegendRole(grid[c]) = Role(n)
                            ELSE MeshLegendRole(grid[c]) = Role(n)

\* Grid rows start after std::setw(4) << yMeters << " ".
RowPrefix == MaxOf(4, NumDigits((H - 1) * Cell)) + 1

\* Every ruler label stands over the grid column it labels: the characters
\* it occupies include the column of that cell in the rows below.
RulerAligned ==
    \A g \in DOMAIN ruler :
        ruler[g].first <= RowPrefix + g /\ RowPrefix + g <= ruler[g].last

=============================================================================
