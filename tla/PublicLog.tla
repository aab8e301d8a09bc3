----------------------------- MODULE PublicLog -----------------------------
(***************************************************************************)
(* What the cluster as a whole promises to its clients: one log, that only *)
(* ever grows at its end, of submissions that were accepted, each of them  *)
(* once, and every accepted submission sooner or later.                    *)
(***************************************************************************)
EXTENDS Naturals, Sequences

CONSTANT Leaf

VARIABLES
    accepted,  \* submissions the log has taken on
    log        \* the public log

vars == <<accepted, log>>

Leaves(s) == {s[i] : i \in DOMAIN s}

Init == accepted = {} /\ log = << >>

Accept ==
    /\ \E l \in Leaf \ accepted : accepted' = accepted \cup {l}
    /\ UNCHANGED log

(* The log grows by one or more accepted submissions it does not have yet. *)
Publish ==
    /\ Len(log) < Len(log')
    /\ SubSeq(log', 1, Len(log)) = log
    /\ Leaves(log') \subseteq accepted
    /\ \A i, j \in DOMAIN log' : log'[i] = log'[j] => i = j
    /\ UNCHANGED accepted

Next == Accept \/ Publish

Spec == Init /\ [][Next]_vars

(* The maximum merge delay without its bound. *)
Merged == \A l \in Leaf : l \in accepted ~> l \in Leaves(log)
=============================================================================
