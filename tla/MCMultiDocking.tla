--------------------------- MODULE MCMultiDocking ---------------------------
(* Two shuttles that contend for one berth, and a berth only one of them   *)
(* uses.  The contended berth has two airlocks, like escape_dock of the    *)
(* map.                                                                    *)
EXTENDS MultiDocking, TLC

CONSTANTS shuttleA, shuttleB, berth1, berth2, north, south

MCControllers == {shuttleA, shuttleB, berth1, berth2}
MCRoutes == {<<shuttleA, berth1>>, <<shuttleB, berth1>>, <<shuttleB, berth2>>}
MCMaster == [a \in {north, south} |-> berth1]
=============================================================================
