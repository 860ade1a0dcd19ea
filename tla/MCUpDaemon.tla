----------------------------- MODULE MCUpDaemon -----------------------------
(* Instances of UpDaemon for TLC. *)
EXTENDS UpDaemon, TLC

CONSTANTS c1, c2, a1, a2

\* A data site, then an access point.
CollectThenUpload == <<{c1}, {a1}>>
\* A bare way point between an access point and the last stop.
WayPoints == <<{a1}, {}, {c1}>>
\* The path ends at a bare way point.
EndsOpen == <<{c1}, {a1}, {}>>

Apart == [i \in Stop |-> i]
Depot == 1
OffPath == 0
NoWhere == -1

PlanOneEach == [c \in Chunk |-> IF c = c1 THEN a1 ELSE a2]
PlanOnA1 == [c \in Chunk |-> IF c = c1 THEN a1 ELSE None]
PlanNone == [c \in Chunk |-> None]
=============================================================================
