---------------------------- MODULE MCChildHandle ----------------------------
(***************************************************************************)
(* The instance of ChildHandle that TLC checks.                            *)
(***************************************************************************)
EXTENDS ChildHandle
=============================================================================
