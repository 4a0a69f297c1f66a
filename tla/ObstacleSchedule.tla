-------------------------- MODULE ObstacleSchedule --------------------------
(***************************************************************************)
(* The obstacle model and its relocation scheduler.                        *)
(*                                                                         *)
(* A scenario creates its buildings with an initial Box, then, during      *)
(* setup, registers one-shot relocation callbacks on the discrete-event    *)
(* simulator, calls Simulator::Stop(simStop) and Simulator::Run().  The    *)
(* simulator fires events in (time, insertion order) and ends the run at   *)
(* the stop event; events behind it never fire.                            *)
(*                                                                         *)
(* Two callbacks exist in the code:                                        *)
(*  - UpdateBuildingPosition (LTE and Wi-Fi playfield scenarios): replace  *)
(*    the box by the requested one, no check;                              *)
(*  - the lambda of scheduleMoveAvoidingMesh (mesh-backhaul scenario):     *)
(*    nudge the requested box right, 20 m at a time and at most 50 times,  *)
(*    clamped at the right field edge, while it contains a mesh AP.        *)
(* A callback runs atomically (single-threaded simulator), so each is one  *)
(* action; its loop is the recursive operator NudgeRight.                  *)
(*                                                                         *)
(* Coordinates are metres and times are abstract ticks (the MC modules use *)
(* tenths of a second); every literal in the code is an integer there, so  *)
(* Int is exact.  The z extent (0..10 m) is never read by the core and is  *)
(* left out.                                                               *)
(***************************************************************************)
EXTENDS Integers, Sequences, FiniteSets

CONSTANTS
    Buildings,      \* the Ptr<Building> objects of the scenario
    InitialBox,     \* [Buildings -> Box]: the SetBoundaries call at creation
    MeshPositions,  \* positions of the fixed mesh APs that overlapsMesh reads
    Field,          \* const double field (side of the square playfield)
    Programs        \* [reqs, stop]: the relocation requests a main() issues,
                    \* in program order, and its Simulator::Stop time

VARIABLES
    program,   \* the requests main() issues and its stop time
    pc,        \* index of the next request main() registers
    queue,     \* pending simulator events
    nextUid,   \* insertion counter of the simulator's event queue
    now,       \* Simulator::Now()
    phase,     \* "setup" (in main), "running" (in Run), "done"
    stopSet,   \* Simulator::Stop has registered the stop event
    boxes,     \* [Buildings -> Box]: each building's current boundaries
    lastMove   \* [Buildings -> the event that set the box, or NoMove]

vars == <<program, pc, queue, nextUid, now, phase, stopSet, boxes, lastMove>>

Box == [xMin : Int, xMax : Int, yMin : Int, yMax : Int]

\* A relocation request: the arguments of one Schedule call.
Request == [kind : {"update", "avoid"}, b : Buildings, at : Nat,
            x : Int, y : Int, w : Nat, h : Nat]

\* lastMove of a building no callback has moved yet.
NoMove == [kind |-> "init"]

-----------------------------------------------------------------------------
(* Geometry of the callbacks.                                              *)

\* Mutant: the y bounds passed to Box in the wrong order.
BoxAtSwappedY(x, y, w, h) == [xMin |-> x, xMax |-> x + w, yMin |-> y + h, yMax |-> y]

\* Box newBounds(newPosition.x, newPosition.x + width, newPosition.y,
\*               newPosition.y + height, 0.0, 10.0)
BoxAt(x, y, w, h) == [xMin |-> x, xMax |-> x + w, yMin |-> y, yMax |-> y + h]

\* overlapsMesh: some mesh AP lies in the box, boundaries included.
OverlapsMesh(bx) ==
    \E p \in MeshPositions :
        /\ p.x >= bx.xMin /\ p.x <= bx.xMax
        /\ p.y >= bx.yMin /\ p.y <= bx.yMax

\* The literals of the nudge loop.
NudgeStep == 20
\* Mutant: a retry bound too small for the distances of the field.
NudgeGuardTooSmall == 1
NudgeGuard == 50
EdgeMargin == 1

MinOf(a, b) == IF a <= b THEN a ELSE b

\* desired.x = std::min(field - w - 1.0, desired.x + 20.0)
NudgedX(x, w) == MinOf(Field - w - EdgeMargin, x + NudgeStep)

\* while (overlapsMesh() && guard < 50) { ...; guard++; } : the final x.
RECURSIVE NudgeRight(_, _, _, _, _)
NudgeRight(x, y, w, h, guard) ==
    IF OverlapsMesh(BoxAt(x, y, w, h)) /\ guard < NudgeGuard
    THEN NudgeRight(NudgedX(x, w), y, w, h, guard + 1)
    ELSE x

\* The box the avoiding callback passes to SetBoundaries.
AvoidingBox(e) == BoxAt(NudgeRight(e.x, e.y, e.w, e.h, 0), e.y, e.w, e.h)

-----------------------------------------------------------------------------
(* The simulator's event queue, seen from the core.                        *)

AsEvent(r, uid) == [kind |-> r.kind, b |-> r.b, at |-> r.at, x |-> r.x,
                    y |-> r.y, w |-> r.w, h |-> r.h, uid |-> uid]

StopEvent(uid) == [kind |-> "stop", b |-> CHOOSE b \in Buildings : TRUE,
                   at |-> program.stop, x |-> 0, y |-> 0, w |-> 0, h |-> 0,
                   uid |-> uid]

\* e is the event the simulator processes next: earliest time, then
\* earliest insertion.
Earliest(e) ==
    \A f \in queue : e.at < f.at \/ (e.at = f.at /\ e.uid <= f.uid)

-----------------------------------------------------------------------------

Init ==
    /\ program \in Programs
    /\ pc = 1
    /\ queue = {}
    /\ nextUid = 0
    /\ now = 0
    /\ phase = "setup"
    /\ stopSet = FALSE
    /\ boxes = InitialBox
    /\ lastMove = [b \in Buildings |-> NoMove]

\* main() registers the next request: Simulator::Schedule(Seconds(at),
\* &UpdateBuildingPosition, building, Vector(x, y, 0), w, h).
ScheduleUpdate ==
    /\ phase = "setup"
    /\ pc <= Len(program.reqs)
    /\ program.reqs[pc].kind = "update"
    /\ queue' = queue \cup {AsEvent(program.reqs[pc], nextUid)}
    /\ nextUid' = nextUid + 1
    /\ pc' = pc + 1
    /\ UNCHANGED <<program, now, phase, stopSet, boxes, lastMove>>

\* main() calls scheduleMoveAvoidingMesh(at, building, desired, w, h), which
\* registers its lambda with the captured request.
ScheduleMoveAvoidingMesh ==
    /\ phase = "setup"
    /\ pc <= Len(program.reqs)
    /\ program.reqs[pc].kind = "avoid"
    /\ queue' = queue \cup {AsEvent(program.reqs[pc], nextUid)}
    /\ nextUid' = nextUid + 1
    /\ pc' = pc + 1
    /\ UNCHANGED <<program, now, phase, stopSet, boxes, lastMove>>

\* Mutant: Simulator::Stop called before the remaining Schedule calls.
SimulatorStopEarly ==
    /\ phase = "setup"
    /\ ~stopSet
    /\ queue' = queue \cup {StopEvent(nextUid)}
    /\ nextUid' = nextUid + 1
    /\ stopSet' = TRUE
    /\ UNCHANGED <<program, pc, now, phase, boxes, lastMove>>

\* Simulator::Stop(Seconds(simStop)): registers the stop event; main()
\* calls it after all its Schedule calls.
SimulatorStop ==
    /\ phase = "setup"
    /\ ~stopSet
    /\ pc > Len(program.reqs)
    /\ queue' = queue \cup {StopEvent(nextUid)}
    /\ nextUid' = nextUid + 1
    /\ stopSet' = TRUE
    /\ UNCHANGED <<program, pc, now, phase, boxes, lastMove>>

\* Simulator::Run(): the last setup statement before the event loop.
SimulatorRun ==
    /\ phase = "setup"
    /\ stopSet
    /\ pc > Len(program.reqs)
    /\ phase' = "running"
    /\ UNCHANGED <<program, pc, queue, nextUid, now, stopSet, boxes, lastMove>>

\* The simulator fires an UpdateBuildingPosition event.
FireUpdateBuildingPosition ==
    /\ phase = "running"
    /\ \E e \in queue :
        /\ Earliest(e)
        /\ e.kind = "update"
        /\ boxes' = [boxes EXCEPT ![e.b] = BoxAt(e.x, e.y, e.w, e.h)]
        /\ lastMove' = [lastMove EXCEPT ![e.b] = e]
        /\ queue' = queue \ {e}
        /\ now' = e.at
    /\ UNCHANGED <<program, pc, nextUid, phase, stopSet>>

\* The simulator fires the lambda of scheduleMoveAvoidingMesh.
FireMoveAvoidingMesh ==
    /\ phase = "running"
    /\ \E e \in queue :
        /\ Earliest(e)
        /\ e.kind = "avoid"
        /\ boxes' = [boxes EXCEPT ![e.b] = AvoidingBox(e)]
        /\ lastMove' = [lastMove EXCEPT ![e.b] = e]
        /\ queue' = queue \ {e}
        /\ now' = e.at
    /\ UNCHANGED <<program, pc, nextUid, phase, stopSet>>

\* The stop event: Run() returns; pending events never fire.
FireStop ==
    /\ phase = "running"
    /\ \E e \in queue :
        /\ Earliest(e)
        /\ e.kind = "stop"
        /\ queue' = queue \ {e}
        /\ now' = e.at
    /\ phase' = "done"
    /\ UNCHANGED <<program, pc, nextUid, stopSet, boxes, lastMove>>

Next ==
    \/ ScheduleUpdate
    \/ ScheduleMoveAvoidingMesh
    \/ SimulatorStop
    \/ SimulatorRun
    \/ FireUpdateBuildingPosition
    \/ FireMoveAvoidingMesh
    \/ FireStop

\* main() runs to completion and Run() processes events until the stop
\* event: both are straight-line code, hence weak fairness.
Spec == Init /\ [][Next]_vars /\ WF_vars(Next)

-----------------------------------------------------------------------------
(* Properties.                                                             *)

TypeOK ==
    /\ program.reqs \in Seq(Request) /\ program.stop \in Nat
    /\ pc \in 1..(Len(program.reqs) + 1)
    /\ nextUid \in Nat
    /\ now \in Nat
    /\ phase \in {"setup", "running", "done"}
    /\ stopSet \in BOOLEAN
    /\ boxes \in [Buildings -> Box]
    /\ \A b \in Buildings : lastMove[b] = NoMove \/ lastMove[b].kind \in {"update", "avoid"}
    /\ \A b \in Buildings : boxes[b].xMin <= boxes[b].xMax
                            /\ boxes[b].yMin <= boxes[b].yMax

Width(bx) == bx.xMax - bx.xMin

\* Avoidance is best effort, but the bound of 50 nudges never cuts the search
\* short: a building placed by scheduleMoveAvoidingMesh that still contains a
\* mesh AP has been pushed to the right clamp field - w - 1 and could not
\* move further.
OverlapOnlyAtRightEdge ==
    \A b \in Buildings :
        (lastMove[b].kind = "avoid" /\ OverlapsMesh(boxes[b]))
            => boxes[b].xMin = Field - Width(boxes[b]) - EdgeMargin

\* A relocation registered for a time at or before simStop does fire: when
\* the run has ended, every event still pending is later than the stop time
\* (main() calls Simulator::Stop after all its Schedule calls, so a move at
\* exactly simStop precedes the stop event).
MovesUpToStopFire ==
    phase = "done" => \A e \in queue : e.at > program.stop

\* The mesh-backhaul scenario prints that all building movements are
\* preserved: every relocation main() registers has fired when Run() ends.
AllMovesFire ==
    phase = "done" => queue = {}

\* The overlap test of the specification (section 4.1, step 2): an anchor
\* strictly within the box's bounds.
StrictlyOverlapsMesh(bx) ==
    \E p \in MeshPositions :
        /\ p.x > bx.xMin /\ p.x < bx.xMax
        /\ p.y > bx.yMin /\ p.y < bx.yMax

\* The avoidance loop as the specification states it, with the strict test.
RECURSIVE SpecNudgeRight(_, _, _, _, _)
SpecNudgeRight(x, y, w, h, guard) ==
    IF StrictlyOverlapsMesh(BoxAt(x, y, w, h)) /\ guard < NudgeGuard
    THEN SpecNudgeRight(NudgedX(x, w), y, w, h, guard + 1)
    ELSE x

\* The specification's avoidance: a building placed by the avoiding
\* callback sits where the strict-overlap loop would put it; a box that
\* only touches an anchor with its edge is accepted unmoved.
AvoidanceAsSpecified ==
    \A b \in Buildings :
        lastMove[b].kind = "avoid" =>
            LET r == lastMove[b] IN
            boxes[b] = BoxAt(SpecNudgeRight(r.x, r.y, r.w, r.h, 0), r.y, r.w, r.h)
=============================================================================
