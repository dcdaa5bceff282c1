--------------------------- MODULE MCDynamicMounts ---------------------------
(***************************************************************************)
(* Instance of DynamicMounts for TLC.                                      *)
(***************************************************************************)
EXTENDS DynamicMounts
=============================================================================
