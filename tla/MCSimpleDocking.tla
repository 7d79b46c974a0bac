--------------------------- MODULE MCSimpleDocking ---------------------------
(* A shuttle and its berth, each with a hatch. *)
EXTENDS SimpleDocking, TLC

CONSTANTS shuttle, berth

MCControllers == {shuttle, berth}
MCRoutes == {<<shuttle, berth>>}
=============================================================================
