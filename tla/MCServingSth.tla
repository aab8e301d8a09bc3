---------------------------- MODULE MCServingSth ----------------------------
(* Small instances of ServingSth for TLC. *)
EXTENDS ServingSth, TLC

Symmetry == Permutations(Node)

(***************************************************************************)
(* The part of the state on which later steps depend: which version the    *)
(* updater waits for only until it has arrived, and what a node that can   *)
(* never be master calculates not at all.                                  *)
(***************************************************************************)
Relevant ==
    <<served, announced, size, newest, joined, configured, updating, master,
      faults, checkFailed,
      [n \in Node |-> IF Handover \/ master[n]
                      THEN <<stored[n], calculated[n], required[n],
                             awaited[n] > stored[n]>>
                      ELSE <<>>]>>
=============================================================================
