------------------------- MODULE MCObstacleSchedule -------------------------
(***************************************************************************)
(* Model values for ObstacleSchedule.  The three buildings the scenarios   *)
(* move (cluster250a, cluster250b, cluster50), the                        *)
(* four mesh APs of the mesh-backhaul scenario, the 400 m field, and times *)
(* in tenths of a second.                                                  *)
(***************************************************************************)
EXTENDS ObstacleSchedule
LOCAL INSTANCE SequencesExt

CONSTANTS b1, b2, b3

MCBuildings == {b1, b2, b3}

\* cluster250a (b1), cluster50 (b2) and cluster250b (b3) as created:
\* SetBoundaries(Box(80, 140, 220, 228, ...)), Box(255, 335, 20, 28, ...),
\* Box(170, 250, 220, 228, ...).
MCInitialBox ==
    (b1 :> [xMin |-> 80, xMax |-> 140, yMin |-> 220, yMax |-> 228]) @@
    (b2 :> [xMin |-> 255, xMax |-> 335, yMin |-> 20, yMax |-> 28]) @@
    (b3 :> [xMin |-> 170, xMax |-> 250, yMin |-> 220, yMax |-> 228])

\* Mesh0 (50, 50), Mesh1 (150, 100), Mesh2 (250, 150), Mesh3 (350, 200).
MCMeshPositions ==
    {[x |-> 50, y |-> 50], [x |-> 150, y |-> 100],
     [x |-> 250, y |-> 150], [x |-> 350, y |-> 200]}

Req(kind, b, at, x, y, w, h) ==
    [kind |-> kind, b |-> b, at |-> at, x |-> x, y |-> y, w |-> w, h |-> h]

\* A scenario uses one of the callbacks only.  Avoiding requests that
\* exercise every branch of the nudge loop:
\*  - a box over Mesh0 that needs two nudges;
\*  - a box over Mesh3 at exactly the stop time, stuck at the right clamp;
\*  - a box past the clamp over Mesh3 (the clamp moves it left);
\*  - one of the code's own moves (cluster50 to (255, 80)), and one after
\*    the stop time;
\*  - a box whose corner touches Mesh1 (150, 100).
AvoidPool ==
    { Req("avoid", b1, 20, 20, 45, 60, 8),
      Req("avoid", b2, 40, 90, 100, 60, 8),
      Req("avoid", b1, 50, 300, 196, 60, 8),
      Req("avoid", b2, 30, 345, 195, 60, 8),
      Req("avoid", b2, 25, 255, 80, 80, 8),
      Req("avoid", b1, 60, 150, 180, 60, 8) }

\* UpdateBuildingPosition requests: onto Mesh1 (unchecked), one at exactly
\* the stop time, one after it.
UpdatePool ==
    { Req("update", b2, 30, 130, 95, 60, 8),
      Req("update", b1, 50, 150, 180, 60, 8),
      Req("update", b1, 60, 250, 130, 60, 8) }

\* Every program of one to three pool requests, stopped at 5.0 s.
MCPrograms == {[reqs |-> r, stop |-> 50] :
                  r \in (SeqOf(AvoidPool, 3) \cup SeqOf(UpdatePool, 3)) \ {<<>>}}

\* The seven scheduleMoveAvoidingMesh calls of the mesh-backhaul main(),
\* in program order (part_002 lines 388-398), and simTime = 5.0.
MeshBackhaulRequests ==
    << Req("avoid", b1, 20, 150, 180, 60, 8),
       Req("avoid", b1, 40, 250, 130, 60, 8),
       Req("avoid", b1, 70, 100, 280, 60, 8),
       Req("avoid", b3, 25, 200, 180, 80, 8),
       Req("avoid", b3, 50, 130, 300, 80, 8),
       Req("avoid", b2, 30, 255, 80, 80, 8),
       Req("avoid", b2, 60, 215, 180, 80, 8) >>
MeshBackhaulProgram == [reqs |-> MeshBackhaulRequests, stop |-> 50]

MCMeshBackhaulPrograms == {MeshBackhaulProgram}

\* The seven UpdateBuildingPosition calls that lte_playfield_traces.cc
\* (lines 211-228) and wifi_mesh_playfield_traces_fixed.cc (lines 215-232)
\* both make, in program order.
PlayfieldRequests ==
    << Req("update", b1, 50, 150, 180, 60, 8),
       Req("update", b1, 80, 250, 130, 60, 8),
       Req("update", b1, 120, 100, 280, 60, 8),
       Req("update", b3, 60, 200, 180, 80, 8),
       Req("update", b3, 100, 130, 300, 80, 8),
       Req("update", b2, 70, 255, 80, 80, 8),
       Req("update", b2, 110, 215, 180, 80, 8) >>

\* That program under each main()'s Simulator::Stop: simStop = 10.0 in the
\* LTE scenario (line 104), Stop(Seconds(15.0)) in the fixed Wi-Fi one
\* (line 339).
LteProgram == [reqs |-> PlayfieldRequests, stop |-> 100]
FixedProgram == [reqs |-> PlayfieldRequests, stop |-> 150]
MCPlayfieldPrograms == {LteProgram, FixedProgram}

\* The pool programs and the programs of the three main()s.
MCTimelinePrograms == MCPrograms \cup MCMeshBackhaulPrograms \cup MCPlayfieldPrograms


=============================================================================
