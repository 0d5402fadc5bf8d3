----------------------- MODULE MCAdmissionConsumption -----------------------
(***************************************************************************)
(* A small instance of AdmissionConsumption for TLC.                       *)
(***************************************************************************)
EXTENDS AdmissionConsumption
=============================================================================
