---------------------------- MODULE MCNearestEnb ----------------------------
(***************************************************************************)
(* Model values for NearestEnb: the eNB layouts of the two LTE scenarios   *)
(* and UE points that include Sayed (0, 0), Sadia (400, 400) and points at *)
(* exactly equal distance from two eNBs.                                   *)
(***************************************************************************)
EXTENDS NearestEnb

Pt(x, y) == [x |-> x, y |-> y]

\* enbPos: (field * 0.25, field * 0.5) and (field * 0.75, field * 0.5).
TwoTowerEnbs == << Pt(100, 200), Pt(300, 200) >>

\* enbPos: (100, 200), (100, 50), (300, 300).
ThreeTowerEnbs == << Pt(100, 200), Pt(100, 50), Pt(300, 300) >>

\* eNB e at the (e + 1)-th point of a layout.
Layout(s) == [j \in 0..(Len(s) - 1) |-> s[j + 1]]
MCEnbLayout == Layout(ThreeTowerEnbs)

\* (200, 200) ties both two-tower eNBs; (200, 250) ties eNB0 and eNB2 and
\* (100, 125) ties eNB0 and eNB1 of the three-tower layout.
MCUePoints == { Pt(0, 0), Pt(400, 400), Pt(200, 200), Pt(200, 250), Pt(100, 125) }

\* Above every squared distance in a 400 m field (2 * 400^2).
MCDblMax == 2 * 400 * 400 + 1

=============================================================================
