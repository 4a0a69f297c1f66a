--------------------------- MODULE MCPositionGrid ---------------------------
(***************************************************************************)
(* Model values for PositionGrid.                                          *)
(*                                                                         *)
(* The UE-variant inputs use a 40 m field of 10 m cells (a 5 x 5 grid) and *)
(* points that reach every branch: a corner, the far corner, a half-way    *)
(* value (5 m rounds up to cell 1), two points in one cell, a point that   *)
(* rounds outside the grid, and a node without a mobility model.  The      *)
(* boxes include one on the grid edge and one sticking out of the field.   *)
(*                                                                         *)
(* The mesh-backhaul inputs are the positions main() installs before it    *)
(* calls WriteAsciiPositionGrid (part_002 lines 255-318, 321-339).         *)
(***************************************************************************)
EXTENDS PositionGrid
LOCAL INSTANCE SequencesExt

Pt(x, y) == [x |-> x, y |-> y]
BoxOf(x0, x1, y0, y1) == [xMin |-> x0, xMax |-> x1, yMin |-> y0, yMax |-> y1]

UePositions ==
    { Pt(0, 0), Pt(40, 40), Pt(5, 15), Pt(14, 16), Pt(46, 10), NoMobility }

\* A NodeContainer of n UEs with the given positions.
UeList(ps) == [j \in DOMAIN ps |-> [grp |-> "UE", idx |-> j - 1, pos |-> ps[j]]]

MCNodeLists == { UeList(ps) : ps \in SeqOf(UePositions, 3) \ {<<>>} }

BoxPool ==
    { BoxOf(0, 6, 9, 11), BoxOf(10, 20, 15, 25), BoxOf(35, 60, -5, 3) }

MCBoxLists == SeqOf(BoxPool, 2)

\* Mesh-backhaul scenario: containers overlaid in the order backhaul, mesh,
\* STA, Sayed/Sadia.
Nd(grp, idx, x, y) == [grp |-> grp, idx |-> idx, pos |-> Pt(x, y)]

\* STA i sits 35 m east (i even) or west (i odd) of mesh AP i / 2.
MeshBackhaulNodes ==
    << Nd("B", 0, 30, 200),
       Nd("M", 0, 50, 50), Nd("M", 1, 150, 100),
       Nd("M", 2, 250, 150), Nd("M", 3, 350, 200),
       Nd("S", 0, 85, 50), Nd("S", 1, 15, 50),
       Nd("S", 2, 185, 100), Nd("S", 3, 115, 100),
       Nd("S", 4, 285, 150), Nd("S", 5, 215, 150),
       Nd("S", 6, 385, 200), Nd("S", 7, 315, 200),
       Nd("Y", 0, 55, 55), Nd("Y", 1, 345, 195) >>

\* The seven buildings as created (the moves are scheduled later).
ScenarioBoxes ==
    << BoxOf(0, 60, 96, 104), BoxOf(340, 400, 96, 104),
       BoxOf(0, 60, 296, 304), BoxOf(340, 400, 296, 304),
       BoxOf(80, 140, 220, 228), BoxOf(170, 250, 220, 228),
       BoxOf(255, 335, 20, 28) >>

\* LTE playfield scenario (part_000 lines 138-175): Sayed at the origin,
\* Sadia at (field, field), UE i at i/9 of the diagonal (rounded to whole
\* metres, which keeps every cell).
LteUeNodes ==
    UeList(<< Pt(0, 0), Pt(44, 44), Pt(89, 89), Pt(133, 133), Pt(178, 178),
              Pt(222, 222), Pt(267, 267), Pt(311, 311), Pt(356, 356),
              Pt(400, 400) >>)

MCLteNodeLists == {LteUeNodes}
MCMeshNodeLists == {MeshBackhaulNodes}
MCScenarioBoxLists == {ScenarioBoxes}

=============================================================================
