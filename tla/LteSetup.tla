------------------------------ MODULE LteSetup ------------------------------
(***************************************************************************)
(* The set-up of lte_playfield_traces.cc as main() runs it: the UE and eNB *)
(* placement statements (Mobility), then the nearest-eNB attach loop       *)
(* (NearestEnb) over the positions GetPosition() returns at that point,    *)
(* then the placement of the remote host, PGW and SGW.  The attach loop    *)
(* reads both the UEs' and the eNBs' positions from their mobility models, *)
(* so neither is an input here: both are what placement left.              *)
(***************************************************************************)
EXTENDS Integers, Sequences, PlacementValues

CONSTANTS
    Scenarios,      \* Mobility scenarios, each with attachAt (the number of
                    \* placement statements main() runs before the attach
                    \* loop), enbNodes (the node of enbNodes.Get(e) is
                    \* enbNodes[e + 1]) and serving (the eNB comments expect
                    \* a UE on)
    Nodes,
    Allocators,
    NUes,           \* ueNodes.GetN(): UEs are nodes 0 .. NUes - 1
    DblMax          \* std::numeric_limits<double>::max()

VARIABLES
    scn, pc, k, lists, cursor, grids, pos, model,   \* of Mobility
    i, e, bestDist, bestEnbIdx, attached,           \* of the attach loop
    attachPc        \* the attach loop's pc: "ue", "scan" or "done"

Mob == INSTANCE Mobility

Att == INSTANCE NearestEnb WITH
    EnbLayout <- <<>>,
    UePoints <- {},
    uePos <- [u \in 0..(NUes - 1) |-> pos[u]],
    enbPos <- [j \in 0..(Len(scn.enbNodes) - 1) |-> pos[scn.enbNodes[j + 1]]],
    pc <- attachPc

mobVars == <<scn, pc, k, lists, cursor, grids, pos, model>>
attVars == <<i, e, bestDist, bestEnbIdx, attached, attachPc>>
vars == <<mobVars, attVars>>

Init ==
    /\ Mob!Init
    /\ i = 0
    /\ e = 0
    /\ bestDist = DblMax
    /\ bestEnbIdx = 0
    /\ attached = [u \in 0..(NUes - 1) |-> Att!NotAttached]
    /\ attachPc = "ue"

\* A placement statement: those before the attach loop, then, once the loop
\* has ended, those after it.
Place ==
    /\ pc <= scn.attachAt \/ attachPc = "done"
    /\ Mob!Next
    /\ UNCHANGED attVars

\* One step of the attach loop, when main() has reached it.
Attach ==
    /\ pc = scn.attachAt + 1
    /\ UNCHANGED mobVars
    /\ Att!Next

Next == Place \/ Attach

Spec == Init /\ [][Next]_vars /\ WF_vars(Next)

-----------------------------------------------------------------------------
(* Properties.                                                             *)

\* When the loop has ended, every UE is attached to the eNB the comments
\* of main() expect it to use (UE9, Sadia, to "eNB2 near UE9"), and each UE
\* to the first of the eNBs nearest to where placement left it: the
\* positions the loop reads are those of the placement statements, shared
\* allocators and all.
AttachedAsLaidOut ==
    attachPc = "done" =>
        /\ \A u \in DOMAIN scn.serving : attached[u] = scn.serving[u]
        /\ \A u \in 0..(NUes - 1) : attached[u] = Att!FirstNearest(pos[u])

\* Composed with placement, the loop still implements AttachPlan: no
\* placement statement moves a UE or an eNB once the first Attach call is
\* made (the core nodes placed after the loop are neither), and the UEs
\* are attached in index order to a nearest eNB.
AttachesAsPlanned == Att!Plan!Safety

=============================================================================
