--------------------------- MODULE MCFerryShuttle ---------------------------
(* One ferry that commutes between two berths, and one that shares a berth *)
(* with it and docks nowhere else.                                         *)
EXTENDS FerryShuttle, TLC

CONSTANTS mining, escape, station, outpost

MCControllers == {mining, escape, station, outpost}
MCFerries == {mining, escape}
EscapeOnly == {escape}
MCRoutes == {<<mining, station>>, <<mining, outpost>>, <<escape, outpost>>}
MCTarget == [s \in MCFerries |->
                IF s = mining THEN [l \in Places |-> IF l = 0 THEN station ELSE outpost]
                ELSE [l \in Places |-> IF l = 0 THEN NoTag ELSE outpost]]

(* One ferry alone. *)
SoloControllers == {mining, station, outpost}
SoloFerries == {mining}
SoloRoutes == {<<mining, station>>, <<mining, outpost>>}
SoloTarget == [s \in SoloFerries |-> [l \in Places |-> IF l = 0 THEN station ELSE outpost]]
NoFerries == {}

(* One ferry that has a berth at the station only. *)
OneBerthControllers == {mining, station}
OneBerthRoutes == {<<mining, station>>}
OneBerthTarget == [s \in SoloFerries |-> [l \in Places |-> IF l = 0 THEN station ELSE NoTag]]
=============================================================================
