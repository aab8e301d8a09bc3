---------------------------- MODULE MCSequencing ----------------------------
(* Small instances of Sequencing for TLC. *)
EXTENDS Sequencing, TLC

Symmetry == Permutations(Node) \cup Permutations(Hash)

(* The state without the history variables, for runs whose properties do not *)
(* mention them: no guard and no other variable depends on them.             *)
WithoutHistory ==
    <<entries, mapping, serving, signed, cached, master, db, fe, seqVars,
      cleanVars, clock, faults>>
=============================================================================
