------------------------- MODULE MCEmergencyShuttle -------------------------
(* The emergency shuttle, with a berth at the station, and one escape pod; *)
(* and the shuttle alone, with its two berths.                             *)
EXTENDS EmergencyShuttle, TLC

CONSTANTS escape, dock, centcom, pod, berth

MCControllers == {escape, dock, pod, berth}
MCFerries == {escape, pod}
MCRoutes == {<<escape, dock>>, <<pod, berth>>}
MCTarget == [s \in MCFerries |-> [l \in 0 .. 1 |->
                IF l = 1 THEN NoTag ELSE IF s = escape THEN dock ELSE berth]]

SoloControllers == {escape, dock, centcom}
SoloFerries == {escape}
SoloRoutes == {escape} \X {dock, centcom}
SoloTarget == [s \in SoloFerries |-> [l \in 0 .. 1 |->
                  IF l = 1 THEN centcom ELSE dock]]
=============================================================================
