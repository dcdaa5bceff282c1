---------------------------- MODULE MCOneShotRun -----------------------------
(***************************************************************************)
(* Instances of OneShotRun for TLC; the constants are numbers in the cfgs. *)
(***************************************************************************)
EXTENDS OneShotRun
=============================================================================
