------------------------------ MODULE MCUpkeep ------------------------------
(***************************************************************************)
(* A small instance of Upkeep for TLC.                                     *)
(***************************************************************************)
EXTENDS Upkeep
=============================================================================
