------------------------------ MODULE MCVoting ------------------------------
(* A lobby of three steps that calls its vote after the first, and         *)
(* explosions that overlap.                                                *)
EXTENDS Voting, TLC
=============================================================================
