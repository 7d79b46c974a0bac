------------------------------ MODULE MCNanoUi ------------------------------
(* A window whose nanoui gets one of two references. *)
EXTENDS NanoUi, TLC

CONSTANTS ref1, ref2

MCRefs == {ref1, ref2}
=============================================================================
