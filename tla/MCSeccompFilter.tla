--------------------------- MODULE MCSeccompFilter ---------------------------
(***************************************************************************)
(* The instance of SeccompFilter that TLC checks.                          *)
(***************************************************************************)
EXTENDS SeccompFilter
=============================================================================
