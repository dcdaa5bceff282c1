--------------------------- MODULE MCCgroupLimits ----------------------------
(***************************************************************************)
(* Instances of CgroupLimits for TLC.                                      *)
(***************************************************************************)
EXTENDS CgroupLimits, TLC

(* Sandboxes are interchangeable.                                          *)
MCSymmetry == Permutations(Sandboxes)
=============================================================================
