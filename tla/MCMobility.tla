----------------------------- MODULE MCMobility -----------------------------
(***************************************************************************)
(* The set-up statements of every scenario's main() that place nodes, in  *)
(* program order, and the placements their comments state.  Coordinates   *)
(* are in ninths of a metre, so that the diagonal points i/9 of the 400 m *)
(* field are exact; P(x, y) is the point (x m, y m).  Node numbers follow *)
(* the order the containers are created in.                               *)
(***************************************************************************)
EXTENDS Integers, Sequences, TLC, PlacementValues

Scale == 9
Field == 400

P(x, y) == [x |-> x * Scale, y |-> y * Scale]
\* A comment that puts node b d metres from node a.
Apart(a, b, d) == [a |-> a, b |-> b, d |-> d * Scale]

AddStmt(a, p) == [op |-> "add", alloc |-> a, pt |-> p]
InstallStmt(a, m, ns) == [op |-> "install", alloc |-> a, model |-> m, nodes |-> ns]
SetPosStmt(n, p) == [op |-> "set", node |-> n, pt |-> p]
GridStmt(a, g) == [op |-> "grid", alloc |-> a, grid |-> g]

Rect(x0, x1, y0, y1) == [x0 |-> x0 * Scale, x1 |-> x1 * Scale,
                         y0 |-> y0 * Scale, y1 |-> y1 * Scale]
ConstantPosition == [kind |-> "ConstantPosition", bounds |-> NoBounds]
RandomWalk2d == [kind |-> "RandomWalk2d", bounds |-> Rect(0, Field, 0, Field)]

(* frac = i / (n - 1); Vector(frac * field, frac * field) *)
DiagPoint(i, n) == [x |-> (i * Field * Scale) \div (n - 1),
                    y |-> (i * Field * Scale) \div (n - 1)]

(* for (i = 1; i < n - 1; ++i) midPos->AddStmt(...) *)
MidAdds(n) == [j \in 1..(n - 2) |-> AddStmt("midPos", DiagPoint(j, n))]

(* fixedMob.InstallStmt(nodes.Get(0)); fixedMob.InstallStmt(nodes.Get(n - 1)) *)
FixedEnds(n) ==
    << AddStmt("fixedPos", P(0, 0)), AddStmt("fixedPos", P(Field, Field)),
       InstallStmt("fixedPos", ConstantPosition, <<0>>),
       InstallStmt("fixedPos", ConstantPosition, <<n - 1>>) >>

(* Sayed at the origin, Sadia at the far corner, node i at i/9 of the    *)
(* diagonal (wifi_mesh_playfield_traces.cc lines 142-151).               *)
DiagonalLayout(n) ==
    [i \in 0..(n - 1) |-> IF i = n - 1 THEN P(Field, Field) ELSE DiagPoint(i, n)]

Range1(lo, hi) == [j \in 1..(hi - lo + 1) |-> lo + j - 1]

(* lte_playfield_traces.cc lines 112-151: UEs 0-9, eNBs 10-12. *)
LteUeStmts ==
    FixedEnds(10) \o MidAdds(10)
    \o << InstallStmt("midPos", RandomWalk2d, Range1(1, 8)),
          AddStmt("enbPos", P(100, 200)), AddStmt("enbPos", P(100, 50)),
          AddStmt("enbPos", P(300, 300)),
          InstallStmt("enbPos", ConstantPosition, <<10, 11, 12>>) >>

(* Mutant: the PGW/SGW Install given eNB2 in place of the SGW. *)
LteCoreStmtsOnEnb ==
    << AddStmt("remoteHostPos", P(200, 450)),
       InstallStmt("remoteHostPos", ConstantPosition, <<13>>),
       AddStmt("epcPos", P(200, 500)), AddStmt("epcPos", P(120, 500)),
       InstallStmt("epcPos", ConstantPosition, <<14, 12>>) >>

(* lte_playfield_traces.cc lines 334-356: remote host 13, PGW 14, SGW 15. *)
LteCoreStmts ==
    << AddStmt("remoteHostPos", P(200, 450)),
       InstallStmt("remoteHostPos", ConstantPosition, <<13>>),
       AddStmt("epcPos", P(200, 500)), AddStmt("epcPos", P(120, 500)),
       InstallStmt("epcPos", ConstantPosition, <<14, 15>>) >>

LteScenario ==
    [stmts |-> LteUeStmts \o LteCoreStmts,
     commented |-> DiagonalLayout(10) @@ (10 :> P(100, 200)) @@ (11 :> P(100, 50)),
     nearest |-> <<>>, aps |-> {}, apart |-> {}]

(* part_000 lines 147-185 and part_001 lines 29-67: the copies with two   *)
(* eNBs, left-center and right-center; both then place the same core      *)
(* nodes after their attach loops (part_000 lines 286-308, part_001 lines *)
(* 136-163).                                                              *)
TwoTowerUeStmts ==
    FixedEnds(10) \o MidAdds(10)
    \o << InstallStmt("midPos", RandomWalk2d, Range1(1, 8)),
          AddStmt("enbPos", P(100, 200)), AddStmt("enbPos", P(300, 200)),
          InstallStmt("enbPos", ConstantPosition, <<10, 11>>) >>
TwoTowerScenario ==
    [stmts |-> TwoTowerUeStmts \o LteCoreStmts, commented |-> DiagonalLayout(10),
     nearest |-> <<>>, aps |-> {}, apart |-> {}]

(* wifi_mesh_playfield_traces.cc lines 140-201: three helpers share midPos. *)
PlayfieldStmts ==
    FixedEnds(10) \o MidAdds(10)
    \o << InstallStmt("midPos", RandomWalk2d, Range1(1, 3)),
          InstallStmt("midPos", RandomWalk2d, Range1(4, 6)),
          InstallStmt("midPos", RandomWalk2d, Range1(7, 8)) >>
PlayfieldScenario ==
    [stmts |-> PlayfieldStmts, commented |-> DiagonalLayout(10),
     nearest |-> <<>>, aps |-> {}, apart |-> {}]

(* wifi_mesh_playfield_traces_fixed.cc lines 146-177. *)
FixedStmts ==
    FixedEnds(10) \o MidAdds(10)
    \o << InstallStmt("midPos", RandomWalk2d, Range1(1, 8)) >>
FixedScenario ==
    [stmts |-> FixedStmts, commented |-> DiagonalLayout(10),
     nearest |-> <<>>, aps |-> {}, apart |-> {}]

(* wifi_mesh.cc lines 24-93: six nodes from a 3-wide grid with Gauss-     *)
(* Markov mobility, the special node 6 at the corner (40, 40).            *)
\* Mutant: the six nodes laid out in one row (GridWidth 6).
GridAttrsOneRow == [minX |-> 0, minY |-> 0, dX |-> 10 * Scale, dY |-> 10 * Scale,
                    width |-> 6]
GridAttrs == [minX |-> 0, minY |-> 0, dX |-> 10 * Scale, dY |-> 10 * Scale,
              width |-> 3]
WifiMeshStmts ==
    << GridStmt("gridPos", GridAttrs),
       InstallStmt("gridPos", [kind |-> "GaussMarkov", bounds |-> Rect(0, 40, 0, 40)],
               Range1(0, 5)),
       AddStmt("specialPos", P(40, 40)),
       InstallStmt("specialPos",
               [kind |-> "RandomDirection2d", bounds |-> Rect(0, 40, 0, 40)], <<6>>) >>
WifiMeshScenario ==
    [stmts |-> WifiMeshStmts, commented |-> (6 :> P(40, 40)),
     nearest |-> <<>>, aps |-> {}, apart |-> {}]

(* STA i of the mesh-backhaul scenario (part_002 lines 266-292): around  *)
(* mesh AP i / 2 at 35 m, angle (i % 2) * pi, clamped to [10, field-10].  *)
(* cos 0 = 1 and cos pi = -1; sin pi * 35 (about 4e-15) is left out.     *)
MeshAp(j) == CASE j = 0 -> P(50, 50) [] j = 1 -> P(150, 100)
               [] j = 2 -> P(250, 150) [] OTHER -> P(350, 200)
Clamp(v) == IF v < 10 * Scale THEN 10 * Scale
            ELSE IF v > (Field - 10) * Scale THEN (Field - 10) * Scale ELSE v
StaPointSwapped(i) ==
    [x |-> Clamp(MeshAp(i % 2).x + (IF (i \div 2) % 2 = 0 THEN 35 ELSE -35) * Scale),
     y |-> Clamp(MeshAp(i % 2).y)]
StaPoint(i) ==
    [x |-> Clamp(MeshAp(i \div 2).x + (IF i % 2 = 0 THEN 35 ELSE -35) * Scale),
     y |-> Clamp(MeshAp(i \div 2).y)]

(* part_002 lines 251-318: one allocator for all four Install calls.     *)
(* Backhaul 0, mesh APs 1-4, STAs 5-12, Sayed 13, Sadia 14.               *)
BackhaulStmts ==
    << AddStmt("positionAlloc", P(30, Field \div 2)) >>
    \o [j \in 1..4 |-> AddStmt("positionAlloc", MeshAp(j - 1))]
    \o [j \in 1..8 |-> AddStmt("positionAlloc", StaPoint(j - 1))]
    \o << AddStmt("positionAlloc", P(55, 55)), AddStmt("positionAlloc", P(345, 195)),
          InstallStmt("positionAlloc", ConstantPosition, <<0>>),
          InstallStmt("positionAlloc", ConstantPosition, Range1(1, 4)),
          InstallStmt("positionAlloc", RandomWalk2d, Range1(5, 12)),
          InstallStmt("positionAlloc", ConstantPosition, <<13, 14>>) >>
BackhaulScenario ==
    [stmts |-> BackhaulStmts,
     commented |-> [j \in 1..4 |-> MeshAp(j - 1)],
     nearest |-> [s \in 5..14 |-> CASE s = 13 -> 1 [] s = 14 -> 4
                                   [] OTHER -> 1 + (s - 5) \div 2],
     aps |-> 1..4, apart |-> {}]

(* simple_tcp_wifi_test_adhoc.cc lines 57-71: mesh APs 0-1, Sayed 2,     *)
(* Sadia 3; the helper has no allocator, then every position is set.     *)
AdhocStmts ==
    << InstallStmt(DefaultAlloc, ConstantPosition, Range1(0, 3)),
       SetPosStmt(0, P(0, 0)), SetPosStmt(1, P(10, 0)), SetPosStmt(2, P(10, 0)),
       SetPosStmt(3, P(12, 0)) >>
(* "Mesh AP1 at origin", "Mesh AP2 100m away", "Sayed closer to Mesh  *)
(* AP1", "Sadia closer to Mesh AP2".                                    *)
AdhocScenario ==
    [stmts |-> AdhocStmts, commented |-> (0 :> P(0, 0)),
     nearest |-> (2 :> 0) @@ (3 :> 1), aps |-> {0, 1},
     apart |-> {Apart(0, 1, 100)}]

(* simple_tcp_wifi_test.cc lines 44-73: the same four nodes; "Mesh AP1   *)
(* at origin", "Mesh AP2 50m away (closer)", "Sayed very close to Mesh   *)
(* AP1", "Sadia very close to Mesh AP2".                                  *)
WifiTestStmts ==
    << InstallStmt(DefaultAlloc, ConstantPosition, Range1(0, 3)),
       SetPosStmt(0, P(0, 0)), SetPosStmt(1, P(100, 0)), SetPosStmt(2, P(10, 0)),
       SetPosStmt(3, P(110, 0)) >>
WifiTestScenario ==
    [stmts |-> WifiTestStmts, commented |-> (0 :> P(0, 0)),
     nearest |-> (2 :> 0) @@ (3 :> 1), aps |-> {0, 1},
     apart |-> {Apart(0, 1, 50)}]

(* simple_tcp_mesh_test.cc lines 46-77: Internet server 0, mesh AP 1,     *)
(* Sayed 2, Sadia 3; "Mesh AP in center".                                 *)
MeshTestStmts ==
    << InstallStmt(DefaultAlloc, ConstantPosition, Range1(0, 3)),
       SetPosStmt(0, P(-50, 0)), SetPosStmt(1, P(0, 0)), SetPosStmt(2, P(50, 0)),
       SetPosStmt(3, P(0, 50)) >>
MeshTestScenario ==
    [stmts |-> MeshTestStmts, commented |-> (1 :> P(0, 0)), nearest |-> <<>>, aps |-> {}, apart |-> {}]

MCScenarios == {LteScenario, PlayfieldScenario, FixedScenario, WifiMeshScenario,
                BackhaulScenario, AdhocScenario, WifiTestScenario, MeshTestScenario}
MCAdhocScenarios == {AdhocScenario}
MCNodes == 0..15
MCAllocators == {"fixedPos", "midPos", "enbPos", "remoteHostPos", "epcPos",
                 "gridPos", "specialPos", "positionAlloc"}
=============================================================================
