---------------------------- MODULE MCNvsConfig ----------------------------
(***************************************************************************)
(* Instances of NvsConfig for TLC: the networks may be exchanged.          *)
(***************************************************************************)
EXTENDS NvsConfig, TLC

NetworkSymmetry == Permutations(Network)
=============================================================================
