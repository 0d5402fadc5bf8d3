------------------------- MODULE MCAdmissionPolling -------------------------
(***************************************************************************)
(* A small instance of AdmissionPolling for TLC.                           *)
(***************************************************************************)
EXTENDS AdmissionPolling
=============================================================================
