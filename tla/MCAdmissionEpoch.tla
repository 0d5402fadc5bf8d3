-------------------------- MODULE MCAdmissionEpoch --------------------------
(***************************************************************************)
(* A small instance of AdmissionEpoch for TLC.  No behaviour of it reaches *)
(* the last generation: a recovery leaves a generation for each fault or   *)
(* switch, twice at most.                                                  *)
(***************************************************************************)
EXTENDS AdmissionEpoch
MCGenerations == 0..8
=============================================================================
