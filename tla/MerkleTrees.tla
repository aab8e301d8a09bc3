----------------------------- MODULE MerkleTrees -----------------------------
(***************************************************************************)
(* merkletree/: the lazily evaluated MerkleTree, the CompactMerkleTree made *)
(* from it, and the MerkleVerifier that clients check proofs with.  Hashes  *)
(* are terms, so that two are equal only if what was hashed is.  The loops  *)
(* of the code are recursive operators over the tree, whose levels are      *)
(* sequences here and strings of digests there.                             *)
(***************************************************************************)
EXTENDS Integers, Sequences, SequencesExt

CONSTANT MaxLeaves  \* bound on the leaves of both trees

VARIABLES
    tree,       \* a MerkleTree: tree_, leaves_processed_, level_count_
    compact     \* a CompactMerkleTree and how many leaves its model had; or None

vars == <<tree, compact>>

None == [none |-> TRUE]

\* TreeHasher: the prefixes keep leaves and nodes apart.
HashEmpty == [empty |-> TRUE]
HashLeaf(i) == [leaf |-> i]
HashChildren(l, r) == [left |-> l, right |-> r]

\* An empty string where a hash is expected, and a failed assert.
NoHash == [nohash |-> TRUE]
AssertFails == [assert |-> TRUE]

Parent(n) == n \div 2
IsRightChild(n) == n % 2 = 1
Sibling(n) == IF IsRightChild(n) THEN n - 1 ELSE n + 1
IsPowerOfTwoPlusOne(n) == n = 1 \/ \E k \in 0..n : n = 2^k + 1

-----------------------------------------------------------------------------
(* MerkleTree.  Level l of the code is levels[l + 1].                      *)

EmptyTree == [levels |-> <<>>, processed |-> 0, levelCount |-> 0]

LeafCount(t) == IF t.levels = <<>> THEN 0 ELSE Len(t.levels[1])

NodeIn(levels, level, i) ==
    IF level < Len(levels) /\ i < Len(levels[level + 1]) THEN levels[level + 1][i + 1]
    ELSE AssertFails

Root(t) == IF Len(Last(t.levels)) = 1 THEN Last(t.levels)[1] ELSE AssertFails

Added(t, hash) ==
    [levels |-> IF t.levels = <<>> THEN <<<<hash>>>>
                ELSE [t.levels EXCEPT ![1] = Append(@, hash)],
     processed |-> IF t.levels = <<>> THEN 1 ELSE t.processed,
     levelCount |-> IF IsPowerOfTwoPlusOne(LeafCount(t) + 1) THEN t.levelCount + 1
                    ELSE t.levelCount]

\* The parents' level, without the one that is about to be computed again.
ParentsFrom(levels, level, first) ==
    IF Len(levels) <= level + 1 THEN Append(levels, <<>>)
    ELSE IF Len(levels[level + 2]) = Parent(first) + 1
         THEN [levels EXCEPT ![level + 2] = Front(@)]
         ELSE levels

RECURSIVE UpdateLevels(_, _, _, _)
UpdateLevels(levels, level, first, last) ==
    IF last = 0 THEN levels
    ELSE LET base == ParentsFrom(levels, level, first)
             even == 2 * Parent(first)
             pairs == [i \in 1..((last - even + 1) \div 2) |->
                          HashChildren(NodeIn(base, level, even + 2 * i - 2),
                                       NodeIn(base, level, even + 2 * i - 1))]
             lone == IF IsRightChild(last) THEN <<>> ELSE <<NodeIn(base, level, last)>>
         IN  UpdateLevels([base EXCEPT ![level + 2] = @ \o pairs \o lone],
                          level + 1, Parent(first), Parent(last))

\* The tree after UpdateToSnapshot.
UpdateToSnapshot(t, snapshot) ==
    IF snapshot <= 1 \/ snapshot = t.processed THEN t
    ELSE [t EXCEPT !.levels = UpdateLevels(@, 0, t.processed, snapshot - 1),
                   !.processed = snapshot]

\* ... and the root it returns.
UpdatedRoot(t, snapshot) ==
    CASE snapshot = 0 -> HashEmpty
      [] snapshot = 1 -> NodeIn(t.levels, 0, 0)
      [] OTHER -> Root(UpdateToSnapshot(t, snapshot))

\* The second loop of RecomputePastSnapshot, with what it assigns to *node.
RECURSIVE RecomputeUp(_, _, _, _, _, _)
RecomputeUp(t, level, last, sub, nodeLevel, node) ==
    IF last = 0 THEN [root |-> sub, node |-> node]
    ELSE LET up == IF IsRightChild(last)
                   THEN HashChildren(NodeIn(t.levels, level, last - 1), sub) ELSE sub
         IN  RecomputeUp(t, level + 1, Parent(last), up, nodeLevel,
                         IF nodeLevel = level + 1 THEN up ELSE node)

\* ... after the first loop, which follows right children up.
RECURSIVE RecomputeFrom(_, _, _, _, _)
RecomputeFrom(t, level, last, nodeLevel, node) ==
    LET here == NodeIn(t.levels, level, last)
        noted == IF nodeLevel = level THEN here ELSE node
    IN  IF IsRightChild(last)
        THEN RecomputeFrom(t, level + 1, Parent(last), nodeLevel, noted)
        ELSE RecomputeUp(t, level, last, here, nodeLevel, noted)

RecomputePastSnapshot(t, snapshot, nodeLevel) ==
    IF snapshot = t.processed
    THEN [root |-> Root(t),
          node |-> IF Len(t.levels) <= nodeLevel THEN NoHash
                   ELSE IF nodeLevel > 0 THEN Last(t.levels[nodeLevel + 1])
                   ELSE NodeIn(t.levels, 0, snapshot - 1)]
    ELSE RecomputeFrom(t, 0, snapshot - 1, nodeLevel, NoHash)

RootAtSnapshot(t, snapshot) ==
    CASE snapshot = 0 -> HashEmpty
      [] snapshot > LeafCount(t) -> NoHash
      [] snapshot >= t.processed /\ snapshot > 0 /\ snapshot <= LeafCount(t) ->
            UpdatedRoot(t, snapshot)
      [] OTHER -> RecomputePastSnapshot(t, snapshot, 0).root

\* Mutant: the sibling at the edge of the snapshot is read from the tree.
EdgeNodeStored(t, snapshot, level, last) == NodeIn(t.levels, level, last)

\* The last node of a level in the snapshot.
EdgeNode(t, snapshot, level, last) == RecomputePastSnapshot(t, snapshot, level).node

RECURSIVE PathUp(_, _, _, _, _)
PathUp(t, node, level, last, snapshot) ==
    IF last = 0 THEN <<>>
    ELSE LET s == Sibling(node)
         IN  (CASE s < last -> <<NodeIn(t.levels, level, s)>>
                [] s = last -> <<EdgeNode(t, snapshot, level, last)>>
                [] OTHER -> <<>>)
             \o PathUp(t, Parent(node), level + 1, Parent(last), snapshot)

\* The tree after PathFromNodeToRootAtSnapshot, and what it returns.
UpToDate(t, snapshot) ==
    IF snapshot > t.processed THEN UpdateToSnapshot(t, snapshot) ELSE t

PathFromNodeToRootAtSnapshot(t, node, level, snapshot) ==
    LET last == (snapshot - 1) \div 2^level
    IN  IF snapshot = 0 \/ level >= t.levelCount \/ node > last
           \/ snapshot > LeafCount(t)
        THEN <<>>
        ELSE PathUp(UpToDate(t, snapshot), node, level, last, snapshot)

PathToRootAtSnapshot(t, leaf, snapshot) ==
    IF leaf > snapshot \/ snapshot > LeafCount(t) \/ leaf = 0 THEN <<>>
    ELSE PathFromNodeToRootAtSnapshot(t, leaf - 1, 0, snapshot)

RECURSIVE FirstLeftChild(_, _)
FirstLeftChild(node, level) ==
    IF IsRightChild(node) THEN FirstLeftChild(Parent(node), level + 1)
    ELSE [node |-> node, level |-> level]

SnapshotConsistency(t, snapshot1, snapshot2) ==
    IF snapshot1 = 0 \/ snapshot1 >= snapshot2 \/ snapshot2 > LeafCount(t) THEN <<>>
    ELSE LET at == FirstLeftChild(snapshot1 - 1, 0)
             u == UpToDate(t, snapshot2)
         IN  (IF at.node > 0 THEN <<NodeIn(u.levels, at.level, at.node)>> ELSE <<>>)
             \o PathFromNodeToRootAtSnapshot(u, at.node, at.level, snapshot2)

-----------------------------------------------------------------------------
(* CompactMerkleTree: at each level the lone left node, or NoHash.         *)

EmptyCompact ==
    [levels |-> <<>>, leafCount |-> 0, processed |-> 0, levelCount |-> 0,
     root |-> HashEmpty]

RECURSIVE PushBack(_, _, _)
PushBack(levels, level, node) ==
    IF Len(levels) <= level THEN Append(levels, node)
    ELSE IF levels[level + 1] = NoHash THEN [levels EXCEPT ![level + 1] = node]
    ELSE [PushBack(levels, level + 1, HashChildren(levels[level + 1], node))
             EXCEPT ![level + 1] = NoHash]

CompactAdded(c, hash) ==
    [c EXCEPT !.levels = PushBack(@, 0, hash),
              !.leafCount = @ + 1,
              !.levelCount = IF IsPowerOfTwoPlusOne(c.leafCount + 1) THEN @ + 1 ELSE @]

RECURSIVE PullUp(_, _, _)
PullUp(levels, level, right) ==
    IF level = Len(levels) THEN right
    ELSE LET here == levels[level + 1]
         IN  PullUp(levels, level + 1,
                    CASE here = NoHash -> right
                      [] here # NoHash /\ right = NoHash -> here
                      [] OTHER -> HashChildren(here, right))

UpdateRoot(c) ==
    IF c.processed = c.leafCount THEN c
    ELSE [c EXCEPT !.root = PullUp(c.levels, 0, NoHash), !.processed = c.leafCount]

\* The loop of the constructor that places a path in the levels.
RECURSIVE FromPath(_, _, _, _)
FromPath(path, size, level, levels) ==
    IF size = 0 THEN levels
    ELSE IF size % 2 = 1
         THEN FromPath(Tail(path), size \div 2, level + 1,
                       [levels EXCEPT ![level + 1] = Head(path)])
         ELSE FromPath(path, size \div 2, level + 1, levels)

CompactFrom(t) ==
    LET n == LeafCount(t)
        path == PathToRootAtSnapshot(t, n, n)
        blank == [i \in 1..(IF t.levelCount = 0 THEN 0 ELSE t.levelCount - 1) |-> NoHash]
        before == IF path = <<>> THEN blank ELSE FromPath(path, n - 1, 0, blank)
    IN  IF n = 0 THEN EmptyCompact
        ELSE [levels |-> PushBack(before, 0, NodeIn(t.levels, 0, n - 1)),
              leafCount |-> n, processed |-> 0, levelCount |-> t.levelCount,
              root |-> HashEmpty]

-----------------------------------------------------------------------------
(* MerkleVerifier.                                                         *)

RECURSIVE ClimbPath(_, _, _, _)
ClimbPath(node, last, path, hash) ==
    IF last = 0 THEN IF path = <<>> THEN hash ELSE NoHash
    ELSE IF path = <<>> THEN NoHash
    ELSE CASE IsRightChild(node) ->
                 ClimbPath(Parent(node), Parent(last), Tail(path),
                           HashChildren(Head(path), hash))
           [] ~IsRightChild(node) /\ node < last ->
                 ClimbPath(Parent(node), Parent(last), Tail(path),
                           HashChildren(hash, Head(path)))
           [] OTHER -> ClimbPath(Parent(node), Parent(last), path, hash)

RootFromPath(leaf, size, path, hash) ==
    IF leaf > size \/ leaf = 0 THEN NoHash
    ELSE ClimbPath(leaf - 1, size - 1, path, hash)

VerifyPath(leaf, size, path, root, hash) ==
    LET r == RootFromPath(leaf, size, path, hash) IN r # NoHash /\ r = root

\* The last loop of VerifyConsistency and its verdict.
RECURSIVE ClimbSecond(_, _, _, _)
ClimbSecond(last, proof, hash2, root2) ==
    IF last = 0 THEN hash2 = root2 /\ proof = <<>>
    ELSE proof # <<>>
         /\ ClimbSecond(Parent(last), Tail(proof), HashChildren(hash2, Head(proof)), root2)

\* ... after the loop that recomputes both roots.
RECURSIVE ClimbBoth(_, _, _, _, _, _, _)
ClimbBoth(node, last, proof, hash1, hash2, root1, root2) ==
    IF node = 0 THEN hash1 = root1 /\ ClimbSecond(last, proof, hash2, root2)
    ELSE /\ proof # <<>>
         /\ IF IsRightChild(node)
            THEN ClimbBoth(Parent(node), Parent(last), Tail(proof),
                           HashChildren(Head(proof), hash1),
                           HashChildren(Head(proof), hash2), root1, root2)
            ELSE IF node < last
            THEN ClimbBoth(Parent(node), Parent(last), Tail(proof), hash1,
                           HashChildren(hash2, Head(proof)), root1, root2)
            ELSE ClimbBoth(Parent(node), Parent(last), proof, hash1, hash2, root1, root2)

VerifyConsistency(snapshot1, snapshot2, root1, root2, proof) ==
    IF snapshot1 > snapshot2 THEN FALSE
    ELSE IF snapshot1 = snapshot2 THEN root1 = root2 /\ proof = <<>>
    ELSE IF snapshot1 = 0 THEN proof = <<>>
    ELSE /\ proof # <<>>
         /\ LET at == FirstLeftChild(snapshot1 - 1, 0)
                last == (snapshot2 - 1) \div 2^at.level
            IN  IF at.node > 0
                THEN ClimbBoth(at.node, last, Tail(proof), Head(proof), Head(proof),
                               root1, root2)
                ELSE ClimbSecond(last, proof, root1, root2)

-----------------------------------------------------------------------------
Init == tree = EmptyTree /\ compact = None

AddLeafHash ==
    /\ LeafCount(tree) < MaxLeaves
    /\ tree' = Added(tree, HashLeaf(LeafCount(tree) + 1))
    /\ UNCHANGED compact

\* A query brings the tree up to date; which of them asks does not matter.
Query(snapshot) ==
    /\ snapshot \in 1..LeafCount(tree)
    /\ tree' = UpToDate(tree, snapshot)
    /\ UNCHANGED compact

\* CompactMerkleTree(model): PathToCurrentRoot brings the model up to date.
NewCompact ==
    /\ tree' = UpToDate(tree, LeafCount(tree))
    /\ compact' = UpdateRoot(CompactFrom(tree))

CompactAddLeafHash ==
    /\ compact # None
    /\ compact.leafCount < MaxLeaves
    /\ compact' = CompactAdded(compact, HashLeaf(compact.leafCount + 1))
    /\ UNCHANGED tree

CompactCurrentRoot ==
    /\ compact # None
    /\ compact' = UpdateRoot(compact)
    /\ UNCHANGED tree

Next ==
    \/ AddLeafHash \/ NewCompact \/ CompactAddLeafHash \/ CompactCurrentRoot
    \/ \E snapshot \in 1..MaxLeaves : Query(snapshot)

Spec == Init /\ [][Next]_vars

-----------------------------------------------------------------------------
(* The tree of RFC 6962: the reference the code is checked against.        *)

Split(n) == CHOOSE k \in {2^e : e \in 0..n} : k < n /\ 2 * k >= n

\* MTH(D[lo:hi])
RECURSIVE MTH(_, _)
MTH(lo, hi) ==
    CASE lo = hi -> HashEmpty
      [] hi = lo + 1 -> HashLeaf(hi)
      [] OTHER -> LET k == Split(hi - lo)
                  IN  HashChildren(MTH(lo, lo + k), MTH(lo + k, hi))

\* PATH(m, D[lo:hi])
RECURSIVE AuditPath(_, _, _)
AuditPath(m, lo, hi) ==
    IF hi = lo + 1 THEN <<>>
    ELSE LET k == Split(hi - lo)
         IN  IF m < k THEN Append(AuditPath(m, lo, lo + k), MTH(lo + k, hi))
             ELSE Append(AuditPath(m - k, lo + k, hi), MTH(lo, lo + k))

\* SUBPROOF(m, D[lo:hi], whole)
RECURSIVE SubProof(_, _, _, _)
SubProof(m, lo, hi, whole) ==
    IF m = hi - lo THEN IF whole THEN <<>> ELSE <<MTH(lo, hi)>>
    ELSE LET k == Split(hi - lo)
         IN  IF m <= k THEN Append(SubProof(m, lo, lo + k, whole), MTH(lo + k, hi))
             ELSE Append(SubProof(m - k, lo + k, hi, FALSE), MTH(lo, lo + k))

(* Properties.                                                             *)

Sizes == 1..LeafCount(tree)

\* Whatever was asked before, and however far the lazy evaluation got, the root
\* at every snapshot is the hash of the tree with its first leaves.
RootsRight ==
    /\ \A s \in Sizes : RootAtSnapshot(tree, s) = MTH(0, s)
    /\ RootAtSnapshot(tree, 0) = HashEmpty
    /\ RootAtSnapshot(tree, LeafCount(tree) + 1) = NoHash

\* So are the audit paths and the consistency proofs, between past snapshots and
\* ones that are not evaluated yet alike.
ProofsRight ==
    \A s \in Sizes, m \in Sizes : m <= s =>
        /\ PathToRootAtSnapshot(tree, m, s) = AuditPath(m - 1, 0, s)
        /\ SnapshotConsistency(tree, m, s) = SubProof(m, 0, s, TRUE)

\* A compact tree has the root and the level count of the whole tree, for every
\* size of the tree it was made from and every number of leaves added since.
CompactAgrees ==
    compact # None =>
        /\ UpdateRoot(compact).root = MTH(0, compact.leafCount)
        /\ compact.leafCount = LeafCount(tree) => compact.levelCount = tree.levelCount

\* Proofs with a node missing, added or another in its place.
Spoilt(p) ==
    {RemoveAt(p, i) : i \in DOMAIN p} \cup {Append(p, HashLeaf(1)), <<HashLeaf(1)>> \o p}
    \cup {[p EXCEPT ![i] = HashEmpty] : i \in DOMAIN p}

\* The verifier accepts the proofs of the tree for its roots, and none that is
\* spoilt.
VerifierExact ==
    \A s \in Sizes, m \in Sizes : m <= s =>
        LET path == PathToRootAtSnapshot(tree, m, s)
            proof == SnapshotConsistency(tree, m, s)
        IN  /\ VerifyPath(m, s, path, MTH(0, s), HashLeaf(m))
            /\ \A p \in Spoilt(path) : ~VerifyPath(m, s, p, MTH(0, s), HashLeaf(m))
            /\ VerifyConsistency(m, s, MTH(0, m), MTH(0, s), proof)
            /\ \A p \in Spoilt(proof) :
                   ~VerifyConsistency(m, s, MTH(0, m), MTH(0, s), p)
=============================================================================
