-------------------------- MODULE MCMasterElection --------------------------
(* Small instances of MasterElection for TLC. *)
EXTENDS MasterElection, TLC

Symmetry == Permutations(Node)
=============================================================================
