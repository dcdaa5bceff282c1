-------------------------- MODULE MCSpawnProtocol ----------------------------
(***************************************************************************)
(* Instances of SpawnProtocol for TLC.  MCSymmetry is used only in runs    *)
(* that check no liveness property and treat the two sandboxes alike.      *)
(***************************************************************************)
EXTENDS SpawnProtocol, TLC

MCSymmetry == Permutations(Sandboxes)
=============================================================================
