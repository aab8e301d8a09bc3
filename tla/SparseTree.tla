----------------------------- MODULE SparseTree -----------------------------
(***************************************************************************)
(* SparseMerkleTree and the VerifiableMap on top of it.  A leaf sits at the *)
(* first free node of its path; when another leaf needs that node it is     *)
(* pushed down a level.  Hashes of inner nodes are cached until a leaf      *)
(* below them is set.  Hashes are terms.  A node is at <<depth, index>>.    *)
(***************************************************************************)
EXTENDS Integers, Sequences, Functions

CONSTANTS
    Bits,       \* kDigestSizeBits
    IndexBits,  \* the width of IndexType: 64 there, for paths of 256
    Value, MaxSets

VARIABLES
    nodes,      \* tree_, the levels together
    rootHash,   \* root_hash_
    values,     \* VerifiableMap::values_
    sets        \* calls of Set, at most MaxSets

vars == <<nodes, rootHash, values, sets>>

Path == [0..(Bits - 1) -> {0, 1}]   \* PathBit(path, n) is path[n]

Unset == [unset |-> TRUE]
HashLeaf(v) == [leaf |-> v]
HashChildren(l, r) == [left |-> l, right |-> r]

\* GetNullHashes, with the last level's at Bits - 1.
RECURSIVE NullHash(_)
NullHash(depth) ==
    IF depth = Bits - 1 THEN HashLeaf("")
    ELSE HashChildren(NullHash(depth + 1), NullHash(depth + 1))

Leaf(path, hash) == [type |-> "leaf", path |-> path, hash |-> hash]
Internal(hash) == [type |-> "internal", hash |-> hash]

Shift(index) == (2 * index) % 2^IndexBits

With(t, at, n) == [x \in DOMAIN t \cup {at} |-> IF x = at THEN n ELSE t[x]]

\* "Mark the internal node hash dirty"
Dirtied(node) == Internal(Unset)

\* The loop of SetLeaf from a depth down; the level is there when it is needed.
RECURSIVE SetFrom(_, _, _, _, _)
SetFrom(t, path, hash, depth, above) ==
    LET index == (above + path[depth]) % 2^IndexBits
        at == <<depth, index>>
    IN  IF at \notin DOMAIN t THEN With(t, at, Leaf(path, hash))
        ELSE IF t[at].type = "internal"
        THEN SetFrom(With(t, at, Dirtied(t[at])), path, hash, depth + 1, Shift(index))
        ELSE IF t[at].path = path THEN With(t, at, Leaf(path, hash))
        ELSE LET child == (Shift(index) + t[at].path[depth + 1]) % 2^IndexBits
             IN  SetFrom(With(With(t, <<depth + 1, child>>, t[at]), at, Internal(Unset)),
                         path, hash, depth + 1, Shift(index))

\* What the loop of CalculateSubtreeHash over a leaf's missing levels computes.
RECURSIVE LeafUp(_, _, _, _)
LeafUp(path, hash, i, depth) ==
    IF i = depth THEN hash
    ELSE LeafUp(path, IF path[i] = 0 THEN HashChildren(hash, NullHash(i))
                      ELSE HashChildren(NullHash(i), hash), i - 1, depth)

RECURSIVE CalculateSubtreeHash(_, _, _)
CalculateSubtreeHash(t, depth, index) ==
    LET at == <<depth, index>>
    IN  IF at \notin DOMAIN t THEN NullHash(depth)
        ELSE IF t[at].type = "leaf" THEN LeafUp(t[at].path, t[at].hash, Bits - 1, depth)
        ELSE IF t[at].hash # Unset THEN t[at].hash
        ELSE HashChildren(CalculateSubtreeHash(t, depth + 1, Shift(index)),
                          CalculateSubtreeHash(t, depth + 1, (Shift(index) + 1) % 2^IndexBits))

\* The caches CalculateSubtreeHash leaves behind.
Cached(t) ==
    [at \in DOMAIN t |->
        IF t[at].type = "internal" THEN Internal(CalculateSubtreeHash(t, at[1], at[2]))
        ELSE t[at]]

Root(t) == HashChildren(CalculateSubtreeHash(t, 0, 0), CalculateSubtreeHash(t, 0, 1))

Init == nodes = <<>> /\ rootHash = Unset /\ values = <<>> /\ sets = 0

\* VerifiableMap::Set: SetLeaf, then the value.
Set(path, v) ==
    /\ sets < MaxSets
    /\ sets' = sets + 1
    /\ rootHash' = Unset
    /\ nodes' = SetFrom(nodes, path, HashLeaf(v), 0, 0)
    /\ values' = With(values, path, v)

CurrentRoot ==
    /\ rootHash = Unset
    /\ rootHash' = Root(nodes)
    /\ nodes' = Cached(nodes)
    /\ UNCHANGED <<values, sets>>

\* VerifiableMap::Get, with NOT_FOUND as the empty value of an unset leaf.
Get(vs, path) == IF path \in DOMAIN vs THEN vs[path] ELSE ""

Next == CurrentRoot \/ \E path \in Path, v \in Value : Set(path, v)

Spec == Init /\ [][Next]_vars

-----------------------------------------------------------------------------
(* Properties.                                                             *)

\* The root of the full tree with the map's values, hashed level by level.
RECURSIVE FullRoot(_, _)
FullRoot(vs, prefix) ==
    IF Len(prefix) = Bits
    THEN LET p == [i \in 0..(Bits - 1) |-> prefix[i + 1]]
         IN  HashLeaf(Get(vs, p))
    ELSE HashChildren(FullRoot(vs, Append(prefix, 0)), FullRoot(vs, Append(prefix, 1)))

\* The root depends on the map's values alone: not on the order of the sets, on
\* which leaves were pushed down, or on which hashes were cached in between.
RootIsOfValues ==
    Root(nodes) = FullRoot(values, <<>>) /\ rootHash \in {Unset, Root(nodes)}
=============================================================================
