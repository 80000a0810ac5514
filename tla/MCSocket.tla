------------------------------ MODULE MCSocket ------------------------------
(***************************************************************************)
(* Instances of Socket for TLC.                                            *)
(***************************************************************************)
EXTENDS Socket

CONSTANTS unit, byHand, compositor

MCProcesses == {unit, byHand, compositor}
MCTwo       == {unit, compositor}
=============================================================================
