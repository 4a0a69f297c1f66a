----------------------------- MODULE MCLteSetup -----------------------------
(***************************************************************************)
(* The LTE scenarios' placement statements (MCMobility), with the attach  *)
(* loop after the UE and eNB statements (in lte_playfield_traces.cc lines  *)
(* 112-151 come before the loop at lines 272-290, the core nodes' lines    *)
(* 334-356 after it).                                                       *)
(***************************************************************************)
EXTENDS LteSetup, MCMobility

\* "eNB2 near UE9 to improve path" (line 148).
LteServing == (9 :> 2)

\* enbNodes.Get(0..2) are nodes 10-12.
LteSetupScenario ==
    LteScenario @@ [attachAt |-> Len(LteUeStmts), enbNodes |-> <<10, 11, 12>>,
                    serving |-> LteServing]

\* The two-tower copies (part_000, part_001), which run the same statements:
\* attach loop at part_000 lines 258-276 and part_001 lines 113-131, then
\* the core nodes; nodes 10 and 11 the eNBs; the comments name no serving
\* eNB.
TwoTowerSetup(s) ==
    s @@ [attachAt |-> Len(TwoTowerUeStmts), enbNodes |-> <<10, 11>>,
          serving |-> <<>>]

MCLteScenarios ==
    {LteSetupScenario, TwoTowerSetup(TwoTowerScenario)}

\* Above every squared distance in the 400 m field, in ninths of a metre.
MCDblMax == 2 * (Field * Scale) * (Field * Scale) + 1
=============================================================================
