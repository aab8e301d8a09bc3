----------------------------- MODULE ServingHead -----------------------------
(***************************************************************************)
(* What a cluster promises about its serving STH: the sequence of heads    *)
(* that /serving_sth has had is extended one by one, each time by a        *)
(* strictly newer head of a tree that is not smaller.                      *)
(***************************************************************************)
EXTENDS Naturals, Sequences

CONSTANTS MaxSize, MaxTime      \* bounds: entries, timestamps

ASSUME HeadAssumption == MaxSize \in Nat /\ MaxTime \in Nat \ {0}

(* A tree head; its root hash is determined by its size. *)
Sth == [size : 0 .. MaxSize, time : 1 .. MaxTime]
(* An unset proto: no head at all. *)
NoSth == [size |-> 0, time |-> 0]

(* UpdateTree's timestamps after that of its last head: the clock never goes *)
(* back, and stops at the bound.                                             *)
Timestamps(last) == IF last.time = MaxTime THEN {MaxTime} ELSE last.time + 1 .. MaxTime

VARIABLE served     \* etcd: the values /serving_sth has had

ServedAt(p) == IF p = 0 THEN NoSth ELSE served[p]
Serving == ServedAt(Len(served))

HeadInit == served = <<>>

Serve(sth) ==
    /\ sth.time > Serving.time
    /\ sth.size >= Serving.size
    /\ served' = Append(served, sth)

HeadNext == \E sth \in Sth : Serve(sth)

HeadSpec == HeadInit /\ [][HeadNext]_served
=============================================================================
