----------------------------- MODULE NearestEnb -----------------------------
(***************************************************************************)
(* Nearest-anchor assignment: the "Attach each UE to the nearest eNB by    *)
(* distance" loop of the LTE scenarios.  For every UE, in index order, the *)
(* code scans the eNBs in index order keeping the strictly smallest        *)
(* squared distance seen so far (bestDist starts at DBL_MAX, bestEnbIdx at *)
(* 0), then calls lteHelper->Attach(ue, enb[bestEnbIdx]).                 *)
(*                                                                         *)
(* Each loop step is an action, so the loop state (i, e, bestDist,         *)
(* bestEnbIdx) is visible to the invariants.  Positions are the values     *)
(* GetPosition() returns at setup time, before Simulator::Run, and are     *)
(* chosen in Init from a small set of points.                              *)
(***************************************************************************)
EXTENDS Integers, Sequences, FiniteSets

CONSTANTS
    NUes,          \* ueNodes.GetN()
    EnbLayout,     \* [0 .. enbNodes.GetN() - 1 -> point]: where the eNBs
                   \* stand when the loop runs
    UePoints,      \* the points a UE may occupy when the loop runs
    DblMax         \* std::numeric_limits<double>::max(), above every dist2

ASSUME NUes \in Nat \ {0}

Ues == 0..(NUes - 1)

VARIABLES
    uePos,       \* [Ues -> point]: ueMob->GetPosition()
    enbPos,      \* [Enbs -> point]: em->GetPosition()
    i,           \* outer loop index over UEs
    e,           \* inner loop index over eNBs
    bestDist,    \* squared distance of the best eNB so far
    bestEnbIdx,  \* index of the best eNB so far
    attached,    \* [Ues -> Enbs \cup {NotAttached}]: the Attach calls made
    pc           \* "ue" (top of the outer body), "scan" (inner loop), "done"

vars == <<uePos, enbPos, i, e, bestDist, bestEnbIdx, attached, pc>>

NotAttached == -1

\* enbNodes.GetN(), and the eNB indices.
Enbs == DOMAIN enbPos
NEnbs == Cardinality(Enbs)

EnbPos(k) == enbPos[k]

\* dx * dx + dy * dy
Dist2(p, q) == (p.x - q.x) * (p.x - q.x) + (p.y - q.y) * (p.y - q.y)

Init ==
    /\ uePos \in [Ues -> UePoints]
    /\ enbPos = EnbLayout
    /\ i = 0
    /\ e = 0
    /\ bestDist = DblMax
    /\ bestEnbIdx = 0
    /\ attached = [u \in Ues |-> NotAttached]
    /\ pc = "ue"

\* Top of the outer loop body: read the UE position, reset the running best.
StartUe ==
    /\ pc = "ue"
    /\ i < NUes
    /\ bestDist' = DblMax
    /\ bestEnbIdx' = 0
    /\ e' = 0
    /\ pc' = "scan"
    /\ UNCHANGED <<uePos, enbPos, i, attached>>

\* Mutant: the comparison made non-strict, so the last of tied eNBs wins.
ScanEnbNonStrict ==
    /\ pc = "scan"
    /\ e < NEnbs
    /\ LET d == Dist2(uePos[i], EnbPos(e)) IN
        IF d <= bestDist
        THEN bestDist' = d /\ bestEnbIdx' = e
        ELSE UNCHANGED <<bestDist, bestEnbIdx>>
    /\ e' = e + 1
    /\ UNCHANGED <<uePos, enbPos, i, attached, pc>>

\* One inner iteration: if (dist2 < bestDist) { bestDist = dist2;
\* bestEnbIdx = e; }
ScanEnb ==
    /\ pc = "scan"
    /\ e < NEnbs
    /\ LET d == Dist2(uePos[i], EnbPos(e)) IN
        IF d < bestDist
        THEN bestDist' = d /\ bestEnbIdx' = e
        ELSE UNCHANGED <<bestDist, bestEnbIdx>>
    /\ e' = e + 1
    /\ UNCHANGED <<uePos, enbPos, i, attached, pc>>

\* Mutant: Attach with the inner loop's index instead of bestEnbIdx.
AttachUeWrongIndex ==
    /\ pc = "scan"
    /\ e = NEnbs
    /\ attached' = [attached EXCEPT ![i] = e]
    /\ i' = i + 1
    /\ pc' = IF i + 1 < NUes THEN "ue" ELSE "done"
    /\ UNCHANGED <<uePos, enbPos, e, bestDist, bestEnbIdx>>

\* Inner loop done: lteHelper->Attach(ueDevs.Get(i), enbDevs.Get(bestEnbIdx)).
AttachUe ==
    /\ pc = "scan"
    /\ e = NEnbs
    /\ attached' = [attached EXCEPT ![i] = bestEnbIdx]
    /\ i' = i + 1
    /\ pc' = IF i + 1 < NUes THEN "ue" ELSE "done"
    /\ UNCHANGED <<uePos, enbPos, e, bestDist, bestEnbIdx>>

Next == StartUe \/ ScanEnb \/ AttachUe

\* The loop is straight-line setup code: it runs to its end.
Spec == Init /\ [][Next]_vars /\ WF_vars(Next)

-----------------------------------------------------------------------------
(* Properties.                                                             *)

TypeOK ==
    /\ i \in 0..NUes
    /\ e \in 0..NEnbs
    /\ bestDist \in Nat
    /\ bestEnbIdx \in Enbs
    /\ attached \in [Ues -> Enbs \cup {NotAttached}]
    /\ pc \in {"ue", "scan", "done"}

\* Reference definition: the eNBs at minimum squared distance from p, and the
\* lowest-indexed of them (the tie-break the strict < is meant to give).
Nearest(p) == {k \in Enbs : \A j \in Enbs : Dist2(p, EnbPos(k)) <= Dist2(p, EnbPos(j))}
FirstNearest(p) == CHOOSE k \in Nearest(p) : \A j \in Nearest(p) : k <= j

\* Every attached UE is attached to a nearest eNB, and on an exact tie to the
\* lowest-indexed one; the attachment of one UE never depends on the scan of
\* the previous UE.
AttachedToFirstNearest ==
    \A u \in Ues : attached[u] # NotAttached => attached[u] = FirstNearest(uePos[u])

\* The loop's view as AttachPlan: the plan is finished when the loop is;
\* LteSetup checks the plan's safety with placement composed in front.
Plan == INSTANCE AttachPlan WITH finished <- (pc = "done")
=============================================================================
