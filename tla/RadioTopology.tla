--------------------------- MODULE RadioTopology ---------------------------
(***************************************************************************)
(* The radio topology of the Wi-Fi playfield scenarios: the placement of  *)
(* Mobility, followed by the random walk of every node Install gave a     *)
(* RandomWalk2d model, and the links RangePropagationLossModel allows.    *)
(*                                                                         *)
(* RangePropagationLossModel returns the transmit power within MaxRange  *)
(* and -1000 dBm beyond it, so a pair of nodes further apart than        *)
(* MaxRange can never hear each other; the range graph is an upper bound *)
(* of the radio links whatever the other loss models do.                  *)
(*                                                                         *)
(* RandomWalk2d, in mode Time, draws a direction every Time seconds and   *)
(* walks Speed * Time in it, rebounding off the Bounds rectangle.  A leg  *)
(* is one such period; every walker takes one leg per period, in the     *)
(* order their walk events were inserted (node order).  A draw is one of *)
(* the unit vectors in Directions, a subset of the angles ns-3 draws.     *)
(* Links are read only between legs, when every walker has finished one.  *)
(***************************************************************************)
EXTENDS Integers, FiniteSets, PlacementValues

CONSTANTS
    Scenarios,      \* Mobility scenarios, with radios, range, step, legs,
                    \* ends and claim
    Nodes,
    Allocators,
    Directions      \* unit vectors [x, y] a direction draw may give

VARIABLES
    scn, pc, k, lists, cursor, grids, pos, model,   \* of Mobility
    leg,       \* walk periods completed since Simulator::Run
    walked     \* walkers that have taken their step in the current period

Mob == INSTANCE Mobility

mobVars == <<scn, pc, k, lists, cursor, grids, pos, model>>
vars == <<scn, pc, k, lists, cursor, grids, pos, model, leg, walked>>

Walkers == {n \in Nodes : model[n].kind = "RandomWalk2d"}

Init == Mob!Init /\ leg = 0 /\ walked = {}

\* A placement statement of main(), before Simulator::Run.
Place == Mob!Next /\ UNCHANGED <<leg, walked>>

\* RandomWalk2dMobilityModel::Rebound: the component that would leave
\* [lo, hi] is reflected at the edge.
Rebound(v, lo, hi) ==
    IF v > hi THEN 2 * hi - v ELSE IF v < lo THEN 2 * lo - v ELSE v

\* The next walker of this period takes a leg of scn.step in a drawn
\* direction.
Walk ==
    /\ Mob!Done
    /\ leg < scn.legs
    /\ Walkers # {}
    /\ LET todo == Walkers \ walked
           n    == CHOOSE m \in todo : \A j \in todo : m <= j
           b    == model[n].bounds
       IN
       /\ \E d \in Directions :
            pos' = [pos EXCEPT ![n] =
                      [x |-> Rebound(pos[n].x + d.x * scn.step, b.x0, b.x1),
                       y |-> Rebound(pos[n].y + d.y * scn.step, b.y0, b.y1)]]
       /\ IF todo = {n}
            THEN walked' = {} /\ leg' = leg + 1
            ELSE walked' = walked \cup {n} /\ leg' = leg
    /\ UNCHANGED <<scn, pc, k, lists, cursor, grids, model>>

Next == Place \/ Walk

Spec == Init /\ [][Next]_vars /\ WF_vars(Next)

-----------------------------------------------------------------------------
(* The range graph.                                                        *)

\* Mutant: MaxRange compared with the squared distance.
LinkedUnsquared(a, b) == Mob!Dist2(pos[a], pos[b]) <= scn.range

\* RangePropagationLossModel: a and b hear each other iff their distance is
\* at most MaxRange.
Linked(a, b) == a # b /\ Mob!Dist2(pos[a], pos[b]) <= scn.range * scn.range

\* The nodes reachable from S over the range graph.
RECURSIVE Reach(_)
Reach(S) ==
    LET S2 == S \cup {b \in scn.radios : \E a \in S : Linked(a, b)}
    IN IF S2 = S THEN S ELSE Reach(S2)

Between == Mob!Done /\ walked = {}

-----------------------------------------------------------------------------
(* Properties.                                                             *)

\* Type invariant: Mobility's, and the walk's period bookkeeping.
TypeOK == Mob!TypeOK /\ leg \in 0..scn.legs /\ walked \subseteq Walkers

\* Every node a comment places stands there, and every pair a comment puts
\* some metres apart is that far apart, when main() calls Simulator::Run,
\* before the first walk leg (Mobility's PositionsAsCommented on the
\* composed behaviour).
PlacedAsCommented == (Between /\ leg = 0) => Mob!PositionsAsCommented

\* Every station a comment places "close to" or "around" an access point is
\* strictly nearer to it than to any other access point when the run starts.
PlacedNearestAsCommented == (Between /\ leg = 0) => Mob!NearestAsCommented

\* Everything the placement comments of a main() say holds when the run
\* starts: where they put nodes, how far apart, and which access point a
\* station is closest to.
LaidOutAsCommented == PlacedAsCommented /\ PlacedNearestAsCommented

\* When main() has placed the nodes, before any walk, the range graph is
\* what the comments about MaxRange say: in wifi_mesh_playfield_traces.cc
\* "connect only adjacent diagonal neighbors" (a chain Sayed-1-...-Sadia, so
\* every flow is multi-hop); in the fixed variant the range "ensure[s]
\* connectivity across [the] diagonal" from Sayed to Sadia.
TopologyAsCommented ==
    (Between /\ leg = 0) =>
        /\ scn.claim = "chain" =>
             \A a, b \in scn.radios : Linked(a, b) <=> (a - b = 1 \/ b - a = 1)
        /\ scn.claim = "connected" => scn.ends[2] \in Reach({scn.ends[1]})

\* Every node with a bounded mobility model (RandomWalk2d, GaussMarkov,
\* RandomDirection2d) is inside its Bounds: where the allocators of main()
\* put it (wifi_mesh.cc's 3-wide grid under a 40 m Box, the corner node on
\* the corner of its Rectangle), and after every walk leg.
WalkInsideBounds == Mob!InsideMobilityBounds

\* Sayed can reach Sadia over the range graph at every period of the run,
\* as the fixed variant's comments promise (middle nodes "fixed along the
\* diagonal", MaxRange 200 m "to ensure connectivity across diagonal").
EndsStayConnected == Between => scn.ends[2] \in Reach({scn.ends[1]})
=============================================================================
