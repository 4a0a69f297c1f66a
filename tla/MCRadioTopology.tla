--------------------------- MODULE MCRadioTopology ---------------------------
(***************************************************************************)
(* Every placement scenario of MCMobility.  The Wi-Fi playfield ones come *)
(* with what their radio set-up adds: the Wi-Fi nodes 0-9 (Sayed 0,      *)
(* Sadia 9), MaxRange, and the leg of the middle nodes' RandomWalk2d      *)
(* (Speed * Time), in ninths of a metre.                                 *)
(***************************************************************************)
EXTENDS RadioTopology, MCMobility

\* A scenario without the range-limited Wi-Fi channel: no radios, no walk.
NoRadio(s) == s @@ [radios |-> {}, ends |-> <<>>, range |-> 0, step |-> 0,
                    legs |-> 0, claim |-> "none"]

\* A scenario with its radio parameters: MaxRange and the leg in metres.
Radio(s, range, step, legs, claim) ==
    s @@ [radios |-> 0..9, ends |-> <<0, 9>>, range |-> range * Scale,
          step |-> step * Scale, legs |-> legs, claim |-> claim]

\* wifi_mesh_playfield_traces.cc lines 253-256: MaxRange 65 m.  The walkers
\* have three different periods (0.3 s, 1.0 s, 0.1 s), so only the set-up
\* layout is checked: no leg is taken.
PlayfieldRadio == Radio(PlayfieldScenario, 65, 0, 0, "chain")

\* wifi_mesh_playfield_traces_fixed.cc lines 165-176 and 241-242: Speed
\* 50 m/s, Time 1.0 s, MaxRange 200 m.
FixedRadio(legs) == Radio(FixedScenario, 200, 50, legs, "connected")

\* Periods explored: the first leg, and the first two (t = 2 s, before the
\* UDP flow starts at 3 s).
OneLeg == 1
TwoLegs == 2

AxisDirections == {[x |-> 1, y |-> 0], [x |-> -1, y |-> 0],
                   [x |-> 0, y |-> 1], [x |-> 0, y |-> -1]}
\* Two of the directions: east and south.
DriftDirections == {[x |-> 1, y |-> 0], [x |-> 0, y |-> -1]}

MCRadioScenarios ==
    {PlayfieldRadio, FixedRadio(OneLeg)}
    \cup {NoRadio(s) : s \in {LteScenario, WifiMeshScenario, BackhaulScenario,
                              MeshTestScenario, TwoTowerScenario}}
MCDriftScenarios == {FixedRadio(TwoLegs)}
\* The two simple TCP Wi-Fi tests, whose placement comments the code
\* contradicts.
MCAdhocRadioScenarios == {NoRadio(AdhocScenario), NoRadio(WifiTestScenario)}
=============================================================================
