----------------------------- MODULE AttachPlan -----------------------------
(***************************************************************************)
(* What "Attach each UE to the nearest eNB by distance" promises, without *)
(* the loop that does it: the UEs are attached one at a time, in index     *)
(* order, each exactly once, to an eNB at minimum distance from where it   *)
(* stands; no UE or eNB moves from the first attachment on (main() may    *)
(* still be placing them before it); and the attaching ends with every     *)
(* UE attached.  Which of several equally near eNBs is taken is left open  *)
(* here: it is the loop's business, checked by NearestEnb's invariants.    *)
(***************************************************************************)
EXTENDS Integers

CONSTANTS
    NUes            \* ueNodes.GetN()

VARIABLES
    uePos,          \* [Ues -> point]
    enbPos,         \* [Enbs -> point]
    attached,       \* [Ues -> Enbs \cup {NotAttached}]
    finished        \* every Attach call has been made

avars == <<uePos, enbPos, attached, finished>>

Ues == 0..(NUes - 1)
NotAttached == -1
Enbs == DOMAIN enbPos

Dist2(p, q) == (p.x - q.x) * (p.x - q.x) + (p.y - q.y) * (p.y - q.y)
NearestTo(p) == {k \in Enbs : \A j \in Enbs : Dist2(p, enbPos[k]) <= Dist2(p, enbPos[j])}

Waiting == {u \in Ues : attached[u] = NotAttached}

Init ==
    /\ attached = [u \in Ues |-> NotAttached]
    /\ finished = FALSE

\* Before the first attachment, main() may still move UEs and eNBs.
Settle ==
    /\ Waiting = Ues
    /\ ~finished
    /\ UNCHANGED <<attached, finished>>

\* The lowest UE not yet attached is attached to one of its nearest eNBs.
AttachOne ==
    /\ ~finished
    /\ Waiting # {}
    /\ LET u == CHOOSE w \in Waiting : \A v \in Waiting : w <= v IN
         /\ \E k \in NearestTo(uePos[u]) : attached' = [attached EXCEPT ![u] = k]
         /\ finished' = (Waiting = {u})
    /\ UNCHANGED <<uePos, enbPos>>

Next == Settle \/ AttachOne

Safety == Init /\ [][Next]_avars

Spec == Safety /\ WF_avars(AttachOne)
=============================================================================
