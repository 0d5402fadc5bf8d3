----------------------------- MODULE MCDemoPage -----------------------------
(***************************************************************************)
(* A small instance of DemoPage for TLC.                                   *)
(***************************************************************************)
EXTENDS DemoPage
=============================================================================
