------------------------------ MODULE Mobility ------------------------------
(***************************************************************************)
(* Initial placement of the scenarios' nodes.  main() fills               *)
(* ListPositionAllocators, gives MobilityHelpers an allocator and a        *)
(* mobility model, and calls MobilityHelper::Install on node containers;   *)
(* the ad-hoc test then sets positions by hand.  The ns-3 semantics the    *)
(* code relies on, which the actions below carry:                          *)
(*  - ListPositionAllocator::Add appends an entry and resets the cursor to *)
(*    the first one; GetNext returns the entry under the cursor and moves  *)
(*    it on, back to the first entry after the last;                       *)
(*  - a helper keeps a pointer to its allocator, so every Install through  *)
(*    any helper given the same allocator advances one shared cursor;      *)
(*  - a GridPositionAllocator (RowFirst) returns, for its n-th call,       *)
(*    (MinX + DeltaX * (n % GridWidth), MinY + DeltaY * (n / GridWidth));  *)
(*  - a helper given no allocator places every node at the origin;         *)
(*  - Install aggregates a new model only on a node that has none, then    *)
(*    sets the node's position to the allocator's next point.              *)
(* Coordinates are integers in 1/Scale metre (the MC module chooses Scale  *)
(* so that the diagonal points i/9 of the field are exact).  Heights are   *)
(* left out: no bound or property in the code depends on z.               *)
(***************************************************************************)
EXTENDS Integers, Sequences, FiniteSets, PlacementValues

CONSTANTS
    Scenarios,      \* [stmts: Seq(statement), commented, nearest, aps]
    Nodes,          \* the node numbers any scenario uses
    Allocators      \* the allocator objects main() creates

Origin == [x |-> 0, y |-> 0]
NoModel == [kind |-> "none", bounds |-> NoBounds]
NoGrid == [width |-> 0]

VARIABLES
    scn,       \* the scenario whose main() runs
    pc,        \* index of the set-up statement being executed
    k,         \* index of the node within the current Install call
    lists,     \* entries added to each ListPositionAllocator
    cursor,    \* each allocator's cursor (GetNext calls for a grid)
    grids,     \* attributes of each GridPositionAllocator, or NoGrid
    pos,       \* each node's position
    model      \* each node's mobility model: [kind, bounds], or NoModel

vars == <<scn, pc, k, lists, cursor, grids, pos, model>>

Stmt == scn.stmts[pc]
Done == pc > Len(scn.stmts)

Init ==
    /\ scn \in Scenarios
    /\ pc = 1
    /\ k = 1
    /\ lists = [a \in Allocators |-> <<>>]
    /\ cursor = [a \in Allocators |-> 0]
    /\ grids = [a \in Allocators |-> NoGrid]
    /\ pos = [n \in Nodes |-> Origin]
    /\ model = [n \in Nodes |-> NoModel]

(* positionAlloc->Add(Vector(x, y, z)) *)
Add ==
    /\ ~Done
    /\ Stmt.op = "add"
    /\ lists' = [lists EXCEPT ![Stmt.alloc] = Append(@, Stmt.pt)]
    /\ cursor' = [cursor EXCEPT ![Stmt.alloc] = 0]
    /\ pc' = pc + 1
    /\ UNCHANGED <<scn, k, grids, pos, model>>

(* helper.SetPositionAllocator("ns3::GridPositionAllocator", ...) creates *)
(* a fresh grid allocator for that helper.                                *)
SetGridAllocator ==
    /\ ~Done
    /\ Stmt.op = "grid"
    /\ grids' = [grids EXCEPT ![Stmt.alloc] = Stmt.grid]
    /\ cursor' = [cursor EXCEPT ![Stmt.alloc] = 0]
    /\ pc' = pc + 1
    /\ UNCHANGED <<scn, k, lists, pos, model>>

GridPointNoWrap(g, n) ==
    [x |-> g.minX + g.dX * n, y |-> g.minY + g.dY * (n \div g.width)]

(* GridPositionAllocator::GetNext, RowFirst layout, n-th call. *)
GridPoint(g, n) ==
    [x |-> g.minX + g.dX * (n % g.width), y |-> g.minY + g.dY * (n \div g.width)]

NextPointFromFirst(a) ==
    CASE a = DefaultAlloc   -> Origin
      [] grids[a] # NoGrid  -> GridPoint(grids[a], k - 1)
      [] OTHER              -> lists[a][((k - 1) % Len(lists[a])) + 1]

(* GetNext(): the point under the allocator's cursor. *)
NextPoint(a) ==
    CASE a = DefaultAlloc   -> Origin
      [] grids[a] # NoGrid  -> GridPoint(grids[a], cursor[a])
      [] OTHER              -> lists[a][cursor[a] + 1]

AdvancedNoWrap(a) ==
    IF a = DefaultAlloc THEN 0 ELSE cursor[a] + 1

(* The cursor after GetNext(): a list allocator wraps to its first entry. *)
Advanced(a) ==
    CASE a = DefaultAlloc   -> 0
      [] grids[a] # NoGrid  -> cursor[a] + 1
      [] OTHER              -> (cursor[a] + 1) % Len(lists[a])

(* GetNext on an empty list allocator would dereference end(). *)
HasNext(a) ==
    IF a = DefaultAlloc THEN TRUE ELSE grids[a] # NoGrid \/ lists[a] # <<>>

(* One node of helper.Install(container): the model is aggregated if the  *)
(* node has none, and the position is set from the allocator.             *)
InstallNode ==
    /\ ~Done
    /\ Stmt.op = "install"
    /\ HasNext(Stmt.alloc)
    /\ LET n == Stmt.nodes[k] IN
         /\ model' = [model EXCEPT ![n] = IF @ = NoModel THEN Stmt.model ELSE @]
         /\ pos' = [pos EXCEPT ![n] = NextPoint(Stmt.alloc)]
    /\ cursor' = IF Stmt.alloc = DefaultAlloc THEN cursor
                 ELSE [cursor EXCEPT ![Stmt.alloc] = Advanced(Stmt.alloc)]
    /\ IF k = Len(Stmt.nodes)
         THEN pc' = pc + 1 /\ k' = 1
         ELSE pc' = pc /\ k' = k + 1
    /\ UNCHANGED <<scn, lists, grids>>

(* node->GetObject<MobilityModel>()->SetPosition(Vector(x, y, z)); the   *)
(* node must already have a model, or the call dereferences null.        *)
SetPosition ==
    /\ ~Done
    /\ Stmt.op = "set"
    /\ model[Stmt.node] # NoModel
    /\ pos' = [pos EXCEPT ![Stmt.node] = Stmt.pt]
    /\ pc' = pc + 1
    /\ UNCHANGED <<scn, k, lists, cursor, grids, model>>

Next == Add \/ SetGridAllocator \/ InstallNode \/ SetPosition

Spec == Init /\ [][Next]_vars /\ WF_vars(Next)

-----------------------------------------------------------------------------
Point == [x : Int, y : Int]

(* Type invariant: a list allocator's cursor always names one of its      *)
(* entries (GetNext wraps it), so no Install reads past the last entry.    *)
TypeOK ==
    /\ pc \in 1..(Len(scn.stmts) + 1)
    /\ k \in Nat \ {0}
    /\ pos \in [Nodes -> Point]
    /\ \A a \in Allocators :
         grids[a] = NoGrid /\ lists[a] # <<>> => cursor[a] \in 0..(Len(lists[a]) - 1)

InsideBounds(p, r) == r.x0 <= p.x /\ p.x <= r.x1 /\ r.y0 <= p.y /\ p.y <= r.y1

Dist2(p, q) == (p.x - q.x) ^ 2 + (p.y - q.y) ^ 2

(* Every node the code's comments place (Sayed at the origin, Sadia at    *)
(* the far corner, the middle nodes evenly along the diagonal, the eNBs,  *)
(* the mesh APs, the corner node) ends set-up at that point, although the *)
(* points come from allocators shared by several Install calls; and every *)
(* pair a comment puts some metres apart ("Mesh AP2 100m away") ends set- *)
(* up that far apart.                                                     *)
PositionsAsCommented ==
    Done => /\ \A n \in DOMAIN scn.commented : pos[n] = scn.commented[n]
            /\ \A c \in scn.apart : Dist2(pos[c.a], pos[c.b]) = c.d * c.d

(* Every node given a bounded mobility model (RandomWalk2d, GaussMarkov,   *)
(* RandomDirection2d) starts inside the model's Bounds, as the models     *)
(* assert when they start walking.                                         *)
InsideMobilityBounds ==
    \A n \in Nodes :
        model[n].bounds # NoBounds => InsideBounds(pos[n], model[n].bounds)

(* Every station a comment places "close to" or "around" an access point  *)
(* is strictly nearer to that access point than to any other.             *)
NearestAsCommented ==
    Done => \A s \in DOMAIN scn.nearest :
              \A ap \in scn.aps \ {scn.nearest[s]} :
                  Dist2(pos[s], pos[scn.nearest[s]]) < Dist2(pos[s], pos[ap])
=============================================================================
