---------------------------- MODULE FetcherProofs ----------------------------
(***************************************************************************)
(* Theorems about Fetcher, for any peers, size of a batch, number of       *)
(* concurrent requests and number of errors.                               *)
(***************************************************************************)
EXTENDS Fetcher, FiniteSetTheorems, WellFoundedInduction, TLAPS

\* Leaves that name no prover are given to SMT and then to Zenon, with time
\* enough for a busy machine.
USE SMTT(15), ZenonT(25)

-----------------------------------------------------------------------------
(* A fact about numbers. *)

\* Of some numbers there is a least one.
LEMMA LeastExists ==
    ASSUME NEW S, S \subseteq Nat, S # {}
    PROVE  \E n \in S : \A m \in S : n <= m
<1> DEFINE R == {x \in Nat \X Nat : x[1] < x[2]}
<1>1. IsWellFoundedOn(R, Nat)
  BY NatLessThanWellFounded DEF OpToRel
<1>2. PICK n \in S : \A m \in S : <<m, n>> \notin R
  <2> HIDE DEF R
  <2> QED
    BY <1>1, WFMin, Zenon
<1>3. ASSUME NEW m \in S
      PROVE  n <= m
  <2>1. m \in Nat /\ n \in Nat
    OBVIOUS
  <2>2. ~(m < n)
    BY <1>2, <2>1, Zenon
  <2> QED
    BY <2>1, <2>2
<1> QED
  BY <1>3

-----------------------------------------------------------------------------
(* The inductive invariant. *)

\* At least one request of at least one entry may be made.
FetchSetting == MaxTree \in Nat /\ BatchSize \in Nat \ {0} /\ Concurrent \in Nat \ {0}

FetchShape ==
    /\ db \subseteq Index
    /\ peerTree \in [Peer -> -1..MaxTree]
    /\ remoteSize \in -1..MaxTree /\ start \in 0..MaxTree
    /\ range \in [Index -> {"NONE", "WANT", "FETCHING", "HAVE"}]
    /\ requests \subseteq Request /\ stuck \subseteq Request
    /\ returned \in Nat /\ walkers \in Nat

\* Some peer still has all that is to be fetched.
GroupHasAll == remoteSize = -1 \/ \E p \in Peer : remoteSize <= peerTree[p]

\* What has been pruned is in the database, the rest is in the list.
PrunedIsStored ==
    /\ 0..(start - 1) \subseteq db
    /\ \A i \in start..(remoteSize - 1) : range[i] # "NONE"

\* A fetch with nothing to do is over.
ListIsLeft ==
    start <= remoteSize \/ (task = "OK" /\ requests = {} /\ returned = 0 /\ walkers = 0)

\* The indexes being fetched are those of the requests, which do not overlap.
FetchingIsAsked ==
    /\ requests \cap stuck = {}
    /\ \A r \in requests \cup stuck : r.index + r.size <= remoteSize
    /\ \A i \in Index :
           range[i] = "FETCHING" <=> \E r \in requests \cup stuck : i \in Covered(r)
    /\ \A r, s \in requests \cup stuck : r # s => Covered(r) \cap Covered(s) = {}

StuckIsOver == stuck # {} => task # "ACTIVE"

FetchInv ==
    /\ FetchShape /\ GroupHasAll /\ PrunedIsStored /\ ListIsLeft /\ FetchingIsAsked
    /\ StuckIsOver /\ HaveMeansStored /\ OkMeansComplete /\ NeverStalls

-----------------------------------------------------------------------------
(* What the choices of the walk are. *)

\* TreeSize counts entries that are all there.
LEMMA DatabaseSizeIs ==
    ASSUME FetchSetting, NEW entries, entries \subseteq Index
    PROVE  /\ DatabaseSize(entries) \in 0..MaxTree
           /\ 0..(DatabaseSize(entries) - 1) \subseteq entries
<1> DEFINE S == {m \in 0..MaxTree : m \notin entries}
           Fits(n) == 0..(n - 1) \subseteq entries /\ n \notin entries
<1>1. S \subseteq Nat /\ MaxTree \in S
  BY DEF FetchSetting, Index
<1>2. PICK n \in S : \A m \in S : n <= m
  BY <1>1, LeastExists, Zenon
<1>3. n \in 0..MaxTree /\ n \notin entries
  OBVIOUS
<1>4. ASSUME NEW k \in 0..(n - 1)
      PROVE  k \in entries
  <2>1. k \in 0..MaxTree /\ ~(n <= k)
    BY <1>3 DEF FetchSetting
  <2> QED
    BY <1>2, <2>1
<1>5. Fits(n)
  BY <1>3, <1>4
<1>6. DatabaseSize(entries) = CHOOSE m \in 0..MaxTree : Fits(m)
  BY DEF DatabaseSize
<1>7. DatabaseSize(entries) \in 0..MaxTree /\ Fits(DatabaseSize(entries))
  <2> HIDE DEF Fits
  <2> QED
    BY <1>3, <1>5, <1>6
<1> QED
  BY <1>7

\* The group's tree is the largest of its peers.
LEMMA GroupSizeIs ==
    ASSUME FetchSetting, peerTree \in [Peer -> -1..MaxTree]
    PROVE  /\ GroupSize \in -1..MaxTree
           /\ \A p \in Peer : peerTree[p] <= GroupSize
           /\ GroupSize = -1 \/ \E p \in Peer : peerTree[p] = GroupSize
<1> DEFINE S == {peerTree[p] : p \in Peer} \cup {-1}
           T == {MaxTree - x : x \in S}
<1>1. S \subseteq -1..MaxTree /\ -1 \in S
  BY DEF FetchSetting
<1>2. T \subseteq Nat /\ T # {}
  <2>1. \A x \in S : MaxTree - x \in Nat
    BY <1>1 DEF FetchSetting
  <2> HIDE DEF S
  <2> QED
    BY <1>1, <2>1
<1>3. PICK t \in T : \A u \in T : t <= u
  BY <1>2, LeastExists, Zenon
<1>4. PICK x \in S : t = MaxTree - x
  BY <1>3
<1>5. \A y \in S : x >= y
  <2> TAKE y \in S
  <2>1. t <= MaxTree - y
    BY <1>3
  <2>2. x \in Int /\ y \in Int /\ MaxTree \in Int
    BY <1>1 DEF FetchSetting
  <2> QED
    BY <1>4, <2>1, <2>2
<1>6. GroupSize \in S /\ \A y \in S : GroupSize >= y
  <2> HIDE DEF S
  <2>1. Max(S) \in S /\ \A y \in S : Max(S) >= y
    BY <1>5 DEF Max
  <2>2. GroupSize = Max(S)
    BY DEF GroupSize, S
  <2> QED
    BY <2>1, <2>2
<1>7. \A y \in S : y \in Int
  BY <1>1 DEF FetchSetting
<1> QED
  BY <1>1, <1>6, <1>7

LEMMA GroupCovers ==
    ASSUME FetchSetting, FetchShape, GroupHasAll
    PROVE  remoteSize <= GroupSize
BY GroupSizeIs DEF FetchSetting, FetchShape, GroupHasAll

\* Only what we have is pruned: the list ends within the group's tree.
LEMMA PrunedIs ==
    ASSUME FetchSetting, FetchShape, GroupHasAll, start <= remoteSize
    PROVE  /\ Pruned(start) \in start..remoteSize
           /\ \A i \in start..(Pruned(start) - 1) : range[i] = "HAVE"
           /\ Pruned(start) < remoteSize => range[Pruned(start)] # "HAVE"
<1> DEFINE Out(i) == range[i] = "HAVE" \/ (range[i] = "WANT" /\ GroupSize < i)
           S == {m \in start..remoteSize : m = remoteSize \/ ~Out(m)}
           Fits(n) == /\ \A i \in start..(n - 1) : Out(i)
                      /\ n < remoteSize => ~Out(n)
<1>1. start \in Nat /\ remoteSize \in Nat /\ S \subseteq Nat /\ remoteSize \in S
  BY DEF FetchSetting, FetchShape
<1>2. PICK n \in S : \A m \in S : n <= m
  <2> HIDE DEF S
  <2> QED
    BY <1>1, LeastExists, Zenon
<1>3. n \in start..remoteSize /\ n \in Nat /\ (n < remoteSize => ~Out(n))
  BY <1>1
<1>4. ASSUME NEW i \in start..(n - 1)
      PROVE  Out(i)
  <2>1. i \in start..remoteSize /\ ~(n <= i) /\ i # remoteSize
    BY <1>1, <1>3
  <2>2. i \notin S
    BY <1>2, <2>1
  <2> QED
    BY <2>1, <2>2
<1>5. Fits(n)
  BY <1>3, <1>4
<1>6. Pruned(start) \in start..remoteSize /\ Fits(Pruned(start))
  <2>1. Pruned(start) = CHOOSE m \in start..remoteSize : Fits(m)
    BY DEF Pruned
  <2> HIDE DEF Fits
  <2> QED
    BY <1>3, <1>5, <2>1
<1>7. ASSUME NEW i \in start..(Pruned(start) - 1)
      PROVE  range[i] = "HAVE"
  <2>1. Out(i) /\ i \in Int /\ i < remoteSize
    BY <1>1, <1>6
  <2>2. remoteSize <= GroupSize /\ GroupSize \in Int
    BY GroupCovers, GroupSizeIs DEF FetchSetting, FetchShape
  <2> QED
    BY <1>1, <2>1, <2>2
<1> QED
  BY <1>6, <1>7

\* A run of wanted indexes ends after it began.
LEMMA WantEndIs ==
    ASSUME FetchSetting, FetchShape, NEW i \in Nat, i < remoteSize, range[i] = "WANT"
    PROVE  /\ WantEnd(i) \in (i + 1)..remoteSize
           /\ \A k \in i..(WantEnd(i) - 1) : range[k] = "WANT"
           /\ WantEnd(i) = remoteSize \/ range[WantEnd(i)] # "WANT"
<1> DEFINE S == {m \in (i + 1)..remoteSize : m = remoteSize \/ range[m] # "WANT"}
           Fits(n) == /\ \A k \in i..(n - 1) : range[k] = "WANT"
                      /\ n = remoteSize \/ range[n] # "WANT"
<1>1. remoteSize \in Nat /\ S \subseteq Nat /\ remoteSize \in S
  BY DEF FetchSetting, FetchShape
<1>2. PICK n \in S : \A m \in S : n <= m
  <2> HIDE DEF S
  <2> QED
    BY <1>1, LeastExists, Zenon
<1>3. n \in (i + 1)..remoteSize /\ n \in Nat /\ (n = remoteSize \/ range[n] # "WANT")
  BY <1>1
<1>4. ASSUME NEW k \in i..(n - 1)
      PROVE  range[k] = "WANT"
  <2>1. CASE k = i
    BY <2>1
  <2>2. CASE k # i
    <3>1. k \in (i + 1)..remoteSize /\ ~(n <= k) /\ k # remoteSize
      BY <1>1, <1>3, <2>2
    <3>2. k \notin S
      BY <1>2, <3>1
    <3> QED
      BY <3>1, <3>2
  <2> QED
    BY <2>1, <2>2
<1>5. Fits(n)
  BY <1>3, <1>4
<1>6. WantEnd(i) \in (i + 1)..remoteSize /\ Fits(WantEnd(i))
  <2>1. WantEnd(i) = CHOOSE m \in (i + 1)..remoteSize : Fits(m)
    BY DEF WantEnd
  <2> HIDE DEF Fits
  <2> QED
    BY <1>3, <1>5, <2>1
<1> QED
  BY <1>6

\* A request is of a part of the run.
LEMMA RequestSizeIs ==
    ASSUME FetchSetting, FetchShape, NEW i \in Nat, i < remoteSize, range[i] = "WANT"
    PROVE  /\ RequestSize(i) \in 1..BatchSize /\ i + RequestSize(i) <= WantEnd(i)
           /\ RequestSize(i) = BatchSize \/ i + RequestSize(i) = WantEnd(i)
<1> DEFINE m == WantEnd(i) - i
<1>1. m \in Nat \ {0} /\ WantEnd(i) = i + m
  BY WantEndIs DEF FetchSetting, FetchShape
<1> HIDE DEF m
<1>2. PICK x \in {BatchSize, m} : x <= BatchSize /\ x <= m
  BY <1>1 DEF FetchSetting
<1>3. Min({BatchSize, m}) \in {BatchSize, m} /\ Min({BatchSize, m}) <= BatchSize
      /\ Min({BatchSize, m}) <= m
  BY <1>2 DEF Min
<1>4. RequestSize(i) = Min({BatchSize, m})
  BY DEF RequestSize, m
<1> QED
  BY <1>1, <1>3, <1>4 DEF FetchSetting

\* The walk goes on behind the range it has looked at.
LEMMA AfterIs ==
    ASSUME FetchSetting, FetchInv, NEW i \in start..(remoteSize - 1)
    PROVE  After(i) \in (i + 1)..remoteSize
<1>1. /\ start \in Nat /\ remoteSize \in Int /\ i \in Nat /\ i \in Index
      /\ range[i] \in {"WANT", "FETCHING", "HAVE"}
  BY DEF FetchSetting, FetchInv, FetchShape, PrunedIsStored, Index
<1>2. CASE range[i] = "HAVE"
  BY <1>1, <1>2 DEF After
<1>3. CASE range[i] = "FETCHING"
  <2> DEFINE r == CHOOSE q \in requests \cup stuck : i \in Covered(q)
  <2>1. r \in requests \cup stuck /\ i \in Covered(r)
    BY <1>1, <1>3 DEF FetchInv, FetchingIsAsked
  <2>2. After(i) = r.index + r.size
    BY <1>3 DEF After
  <2> HIDE DEF r
  <2>3. r.index \in Nat /\ r.size \in Nat /\ r.index + r.size <= remoteSize
    BY <2>1 DEF FetchInv, FetchShape, FetchingIsAsked, Request, Index, FetchSetting
  <2> QED
    BY <1>1, <2>1, <2>2, <2>3 DEF Covered
<1>4. CASE range[i] = "WANT"
  <2>1. /\ RequestSize(i) \in 1..BatchSize /\ i + RequestSize(i) <= WantEnd(i)
        /\ WantEnd(i) \in (i + 1)..remoteSize
    BY <1>1, <1>4, RequestSizeIs, WantEndIs DEF FetchInv
  <2>2. After(i) = i + RequestSize(i)
    BY <1>4 DEF After
  <2> QED
    BY <1>1, <2>1, <2>2 DEF FetchSetting
<1> QED
  BY <1>1, <1>2, <1>3, <1>4

\* The requests of a walk at index i, given those of the walk behind it.
WalkAt(new, i) ==
    [n \in 0..Concurrent |->
        IF i >= remoteSize \/ n >= Concurrent \/ i >= GroupSize THEN {}
        ELSE IF range[i] = "HAVE" THEN new[After(i)][n]
        ELSE new[After(i)][n + 1] \cup
                 IF range[i] = "FETCHING" THEN {}
                 ELSE {[index |-> i, size |-> RequestSize(i)]}]

LEMMA WalkAtUses ==
    ASSUME NEW f, NEW g, NEW i,
           i < remoteSize => f[After(i)] = g[After(i)], i >= remoteSize \/ i < remoteSize
    PROVE  WalkAt(f, i) = WalkAt(g, i)
<1>1. CASE i >= remoteSize
  BY <1>1 DEF WalkAt
<1>2. CASE i < remoteSize
  BY <1>2 DEF WalkAt
<1> QED
  BY <1>1, <1>2

\* The walk is well defined: each index needs only later ones.
LEMMA NewRequestsIs ==
    ASSUME FetchSetting, FetchInv
    PROVE  \A i \in start..MaxTree : NewRequests[i] = WalkAt(NewRequests, i)
<1> DEFINE Defines(f, k) == f = [i \in k..MaxTree |-> WalkAt(f, i)]
           S == {k \in start..MaxTree : \E f : Defines(f, k)}
<1>1. start \in Nat /\ MaxTree \in Nat /\ start <= MaxTree /\ remoteSize \in Int
      /\ remoteSize <= MaxTree
  BY DEF FetchSetting, FetchInv, FetchShape
<1>2. MaxTree \in S
  <2> DEFINE e == [n \in 0..Concurrent |-> {}]
             f == [i \in MaxTree..MaxTree |-> e]
  <2>1. \A i \in MaxTree..MaxTree : WalkAt(f, i) = e
    BY <1>1 DEF WalkAt
  <2>2. Defines(f, MaxTree)
    BY <2>1
  <2> HIDE DEF f, Defines
  <2> QED
    BY <1>1, <2>2
<1>3. PICK k \in S : \A m \in S : k <= m
  <2> HIDE DEF Defines
  <2>1. S \subseteq Nat /\ S # {}
    BY <1>1, <1>2
  <2> HIDE DEF S
  <2> QED
    BY <2>1, LeastExists, Zenon
<1>4. k = start
  <2> SUFFICES ASSUME k # start PROVE FALSE
    OBVIOUS
  <2>1. k \in start..MaxTree /\ k - 1 \in start..MaxTree /\ k \in Nat
    BY <1>1
  <2>2. PICK f : Defines(f, k)
    BY <1>3
  <2> DEFINE g == [i \in (k - 1)..MaxTree |-> IF i = k - 1 THEN WalkAt(f, i) ELSE f[i]]
  <2>3. ASSUME NEW i \in (k - 1)..MaxTree
        PROVE  WalkAt(g, i) = WalkAt(f, i)
    <3>1. i \in Int /\ i \in start..MaxTree
      BY <1>1, <2>1
    <3>2. ASSUME i < remoteSize
          PROVE  g[After(i)] = f[After(i)]
      <4>1. i \in start..(remoteSize - 1)
        BY <1>1, <3>1, <3>2
      <4>2. After(i) \in (i + 1)..remoteSize
        BY <4>1, AfterIs
      <4>3. After(i) \in (k - 1)..MaxTree /\ After(i) # k - 1
        BY <1>1, <2>1, <3>1, <4>2
      <4> QED
        BY <4>3
    <3>3. i >= remoteSize \/ i < remoteSize
      BY <1>1, <3>1
    <3> HIDE DEF g
    <3> QED
      BY <3>2, <3>3, WalkAtUses
  <2>4. ASSUME NEW i \in (k - 1)..MaxTree
        PROVE  g[i] = WalkAt(g, i)
    <3>1. CASE i = k - 1
      BY <2>3, <3>1
    <3>2. CASE i # k - 1
      <4>1. i \in k..MaxTree
        BY <2>1, <3>2
      <4>2. f[i] = WalkAt(f, i)
        BY <2>2, <4>1, Zenon
      <4> QED
        BY <2>3, <3>2, <4>2
    <3> QED
      BY <3>1, <3>2
  <2>5. Defines(g, k - 1)
    BY <2>4
  <2>6. k - 1 \in S
    BY <2>1, <2>5, Zenon
  <2>7. k <= k - 1
    BY <1>3, <2>6
  <2> QED
    BY <2>1, <2>7
<1>5. \E f : Defines(f, start)
  BY <1>3, <1>4
<1>6. NewRequests = CHOOSE f : Defines(f, start)
  BY DEF NewRequests, WalkAt
<1>7. Defines(NewRequests, start)
  <2> HIDE DEF Defines
  <2> QED
    BY <1>5, <1>6
<1> QED
  BY <1>7, Zenon

\* The indexes of a request.
LEMMA CoveredIs ==
    ASSUME FetchSetting, NEW r \in Request
    PROVE  /\ r.index \in Nat /\ r.index \in Index /\ r.size \in Nat /\ r.size >= 1
           /\ r.size <= BatchSize /\ r.index \in Covered(r)
           /\ \A i : i \in Covered(r) <=> i \in Nat /\ r.index <= i /\ i < r.index + r.size
<1>1. r.index \in Index /\ r.size \in 1..BatchSize
  BY DEF Request
<1>2. r.index \in Nat /\ r.size \in Nat /\ r.size >= 1 /\ r.size <= BatchSize
  BY <1>1 DEF Index, FetchSetting
<1> QED
  BY <1>1, <1>2 DEF Covered

\* Requests of a walk from i on: each is of wanted indexes, and no two overlap.
WellMade(new, i) ==
    /\ new \subseteq Request
    /\ \A r \in new : /\ r.index >= i /\ r.index + r.size <= remoteSize
                       /\ \A k \in Covered(r) : range[k] = "WANT"
    /\ \A r, s \in new : r # s => Covered(r) \cap Covered(s) = {}

\* One more request in front of such requests.
LEMMA OneMoreRequest ==
    ASSUME FetchSetting, FetchInv, NEW i \in start..(remoteSize - 1), range[i] = "WANT",
           NEW rest, WellMade(rest, After(i)),
           NEW r, r = [index |-> i, size |-> RequestSize(i)]
    PROVE  WellMade(rest \cup {r}, i)
<1>1. i \in Nat /\ i \in Index /\ i < remoteSize /\ remoteSize \in Int
  BY DEF FetchSetting, FetchInv, FetchShape, Index
<1>2. /\ RequestSize(i) \in 1..BatchSize /\ i + RequestSize(i) <= WantEnd(i)
      /\ WantEnd(i) \in (i + 1)..remoteSize
      /\ \A k \in i..(WantEnd(i) - 1) : range[k] = "WANT"
  BY <1>1, RequestSizeIs, WantEndIs DEF FetchInv
<1>3. r \in Request /\ r.index = i /\ r.size = RequestSize(i)
  BY <1>1, <1>2 DEF Request
<1>4. After(i) = i + r.size
  BY <1>3 DEF After
<1>5. /\ r.size \in Nat /\ r.size >= 1
      /\ \A k : k \in Covered(r) <=> k \in Nat /\ i <= k /\ k < i + r.size
  BY <1>3, CoveredIs
<1>6. /\ r.index >= i /\ r.index + r.size <= remoteSize
      /\ \A k \in Covered(r) : range[k] = "WANT"
  <2>1. i + r.size <= WantEnd(i) /\ WantEnd(i) \in Int /\ WantEnd(i) <= remoteSize
    BY <1>1, <1>2, <1>3
  <2>2. ASSUME NEW k \in Covered(r)
        PROVE  k \in i..(WantEnd(i) - 1)
    BY <1>1, <1>5, <2>1
  <2> QED
    BY <1>1, <1>2, <1>3, <1>5, <2>1, <2>2
<1>7. ASSUME NEW s \in rest
      PROVE  /\ s.index >= i /\ s.index + s.size <= remoteSize
             /\ \A k \in Covered(s) : range[k] = "WANT"
             /\ Covered(r) \cap Covered(s) = {}
  <2>1. /\ s \in Request /\ s.index >= After(i) /\ s.index + s.size <= remoteSize
        /\ \A k \in Covered(s) : range[k] = "WANT"
    BY DEF WellMade
  <2>2. s.index \in Nat /\ \A k \in Covered(s) : k \in Nat /\ s.index <= k
    BY <2>1, CoveredIs
  <2>3. s.index >= i + r.size
    BY <1>4, <2>1
  <2>4. s.index >= i
    BY <1>1, <1>5, <2>2, <2>3
  <2>5. ASSUME NEW k \in Covered(r), k \in Covered(s) PROVE FALSE
    BY <1>1, <1>5, <2>2, <2>3, <2>5
  <2> QED
    BY <2>1, <2>4, <2>5
<1>8. ASSUME NEW a \in rest \cup {r}, NEW b \in rest \cup {r}, a # b
      PROVE  Covered(a) \cap Covered(b) = {}
  <2>1. CASE a = r
    BY <1>7, <1>8, <2>1
  <2>2. CASE b = r
    BY <1>7, <1>8, <2>2
  <2>3. CASE a \in rest /\ b \in rest
    BY <1>8, <2>3 DEF WellMade
  <2> QED
    BY <2>1, <2>2, <2>3
<1> QED
  BY <1>3, <1>6, <1>7, <1>8 DEF WellMade

\* What a walk starts is well made.
LEMMA NewRequestsWellMade ==
    ASSUME FetchSetting, FetchInv
    PROVE  \A i \in start..MaxTree : \A n \in 0..Concurrent : WellMade(NewRequests[i][n], i)
<1> DEFINE Good(i) == \A n \in 0..Concurrent : WellMade(NewRequests[i][n], i)
           S == {k \in start..MaxTree : \A i \in k..MaxTree : Good(i)}
<1>1. start \in Nat /\ MaxTree \in Nat /\ start <= MaxTree /\ remoteSize \in Int
      /\ remoteSize <= MaxTree /\ Concurrent \in Nat
  BY DEF FetchSetting, FetchInv, FetchShape
<1>2. \A i \in Nat : WellMade({}, i)
  BY DEF WellMade
<1>3. ASSUME NEW i \in start..MaxTree, i >= remoteSize \/ Good(After(i))
      PROVE  Good(i)
  <2> TAKE n \in 0..Concurrent
  <2>1. NewRequests[i] = WalkAt(NewRequests, i) /\ i \in Nat
    BY <1>1, NewRequestsIs
  <2>2. CASE i >= remoteSize \/ n >= Concurrent \/ i >= GroupSize
    <3>1. NewRequests[i][n] = {}
      BY <2>1, <2>2 DEF WalkAt
    <3> QED
      BY <1>2, <2>1, <3>1
  <2>3. CASE ~(i >= remoteSize \/ n >= Concurrent \/ i >= GroupSize)
    <3>1. i \in start..(remoteSize - 1) /\ n \in 0..Concurrent /\ n + 1 \in 0..Concurrent
      BY <1>1, <2>1, <2>3
    <3>2. After(i) \in (i + 1)..remoteSize
      BY <3>1, AfterIs
    <3>3. Good(After(i))
      BY <1>3, <2>3
    <3>4. i \in Index /\ range[i] \in {"WANT", "FETCHING", "HAVE"}
      BY <1>1, <2>1, <3>1 DEF FetchInv, FetchShape, PrunedIsStored, Index
    <3>5. ASSUME NEW new, WellMade(new, After(i))
          PROVE  WellMade(new, i)
      <4>1. ASSUME NEW r \in new PROVE r.index >= i
        <5>1. r.index \in Nat /\ r.index >= After(i)
          BY <3>5, CoveredIs DEF WellMade
        <5> QED
          BY <1>1, <2>1, <3>2, <5>1
      <4> QED
        BY <3>5, <4>1 DEF WellMade
    <3>6. CASE range[i] = "HAVE"
      <4>1. NewRequests[i][n] = NewRequests[After(i)][n]
        BY <2>1, <2>3, <3>6 DEF WalkAt
      <4> QED
        BY <3>1, <3>3, <3>5, <4>1
    <3>7. CASE range[i] = "FETCHING"
      <4>1. NewRequests[i][n] = NewRequests[After(i)][n + 1] \cup {}
        BY <2>1, <2>3, <3>7 DEF WalkAt
      <4>2. NewRequests[i][n] = NewRequests[After(i)][n + 1]
        BY <4>1
      <4> QED
        BY <3>1, <3>3, <3>5, <4>2
    <3>8. CASE range[i] = "WANT"
      <4>1. NewRequests[i][n] = NewRequests[After(i)][n + 1]
                                   \cup {[index |-> i, size |-> RequestSize(i)]}
        BY <2>1, <2>3, <3>8 DEF WalkAt
      <4>2. WellMade(NewRequests[After(i)][n + 1], After(i))
        BY <3>1, <3>3
      <4> QED
        BY <3>1, <3>8, <4>1, <4>2, OneMoreRequest, Zenon
    <3> QED
      BY <3>4, <3>6, <3>7, <3>8
  <2> QED
    BY <2>2, <2>3
<1> HIDE DEF Good
<1>4. MaxTree \in S
  BY <1>1, <1>3
<1>5. PICK k \in S : \A m \in S : k <= m
  <2>1. S \subseteq Nat /\ S # {}
    BY <1>1, <1>4
  <2> HIDE DEF S
  <2> QED
    BY <2>1, LeastExists
<1>6. k = start
  <2> SUFFICES ASSUME k # start PROVE FALSE
    OBVIOUS
  <2>1. k \in start..MaxTree /\ k - 1 \in start..MaxTree /\ k \in Nat
    BY <1>1
  <2>2. \A i \in k..MaxTree : Good(i)
    BY <1>5
  <2>3. k - 1 >= remoteSize \/ Good(After(k - 1))
    <3>1. CASE k - 1 < remoteSize
      <4>1. After(k - 1) \in k..remoteSize
        BY <1>1, <2>1, <3>1, AfterIs
      <4>2. After(k - 1) \in k..MaxTree
        BY <1>1, <2>1, <4>1
      <4> QED
        BY <2>2, <4>2
    <3> QED
      BY <1>1, <2>1, <3>1
  <2>4. Good(k - 1)
    BY <1>3, <2>1, <2>3
  <2>5. \A i \in (k - 1)..MaxTree : Good(i)
    BY <2>1, <2>2, <2>4
  <2>6. k - 1 \in S
    BY <2>1, <2>5
  <2>7. k <= k - 1
    BY <1>5, <2>6
  <2> QED
    BY <2>1, <2>7
<1> QED
  BY <1>5, <1>6 DEF Good

-----------------------------------------------------------------------------
(* The steps. *)

LEMMA FetchInitInv ==
    ASSUME FetchSetting, FetchInit
    PROVE  FetchInv
<1>1. db \subseteq Index /\ peerTree \in [Peer -> -1..MaxTree]
  BY DEF FetchInit
<1>2. DatabaseSize(db) \in 0..MaxTree /\ 0..(DatabaseSize(db) - 1) \subseteq db
  BY <1>1, DatabaseSizeIs
<1>3. start \in 0..MaxTree /\ start = DatabaseSize(db)
  BY <1>2 DEF FetchInit
<1>4. range = [i \in Index |-> IF i \in start..(GroupSize - 1) THEN "WANT" ELSE "NONE"]
  BY <1>3 DEF FetchInit
<1>5. ASSUME remoteSize \in -1..MaxTree PROVE FetchShape
  BY <1>1, <1>3, <1>4, <1>5 DEF FetchInit, FetchShape
<1>6. /\ GroupSize \in -1..MaxTree
      /\ GroupSize = -1 \/ \E p \in Peer : peerTree[p] = GroupSize
  BY <1>1, GroupSizeIs
<1>7. remoteSize = GroupSize
  BY DEF FetchInit
<1>8. GroupHasAll /\ FetchShape
  BY <1>1, <1>5, <1>6, <1>7 DEF GroupHasAll, FetchSetting
<1>9. PrunedIsStored
  <2>1. ASSUME NEW i \in start..(remoteSize - 1) PROVE range[i] # "NONE"
    <3>1. i \in Index
      BY <1>3, <1>6, <1>7 DEF Index, FetchSetting
    <3> QED
      BY <1>4, <1>7, <3>1
  <2> QED
    BY <1>2, <1>3, <2>1 DEF PrunedIsStored
<1>10. ListIsLeft /\ NeverStalls /\ StuckIsOver
  BY <1>3, <1>6, <1>7 DEF ListIsLeft, NeverStalls, StuckIsOver, FetchInit, FetchSetting
<1>11. FetchingIsAsked /\ HaveMeansStored
  BY <1>4 DEF FetchingIsAsked, HaveMeansStored, FetchInit
<1>12. OkMeansComplete
  BY <1>2, <1>3, <1>6, <1>7 DEF OkMeansComplete, FetchInit, FetchSetting
<1> QED
  BY <1>8, <1>9, <1>10, <1>11, <1>12 DEF FetchInv

\* What is to be fetched stays within the group's tree.
LEMMA PeerTreeGrowsKeeps ==
    ASSUME FetchSetting, FetchInv, NEW p \in Peer, PeerTreeGrows(p)
    PROVE  FetchInv'
<1>1. /\ peerTree' \in [Peer -> -1..MaxTree]
      /\ \A q \in Peer : peerTree[q] \in Int /\ peerTree'[q] >= peerTree[q]
  BY DEF FetchSetting, FetchInv, FetchShape, PeerTreeGrows
<1>2. GroupHasAll'
  <2>1. \A q \in Peer : remoteSize <= peerTree[q] => remoteSize <= peerTree'[q]
    BY <1>1 DEF FetchSetting, FetchInv, FetchShape
  <2> QED
    BY <2>1 DEF FetchInv, GroupHasAll, PeerTreeGrows
<1> QED
  BY <1>1, <1>2 DEF FetchInv, FetchShape, PrunedIsStored, ListIsLeft, FetchingIsAsked,
                    StuckIsOver, HaveMeansStored, OkMeansComplete, NeverStalls, PeerTreeGrows

LEMMA WalkEntriesKeeps ==
    ASSUME FetchSetting, FetchInv, WalkEntries \/ CancelFetch
    PROVE  FetchInv'
<1>1. returned' \in Nat /\ walkers' \in Nat
  BY DEF FetchInv, FetchShape, WalkEntries, CancelFetch
<1>2. ListIsLeft' /\ NeverStalls' /\ StuckIsOver' /\ OkMeansComplete'
  BY DEF FetchInv, FetchShape, ListIsLeft, NeverStalls, StuckIsOver, OkMeansComplete,
         WalkEntries, CancelFetch
<1> QED
  BY <1>1, <1>2 DEF FetchInv, FetchShape, GroupHasAll, PrunedIsStored, FetchingIsAsked,
                    HaveMeansStored, WalkEntries, CancelFetch

\* The walk prunes only what is stored, and asks for what nobody is fetching; while the
\* task is active something is outstanding after it.
LEMMA WalkEntriesLockedKeeps ==
    ASSUME FetchSetting, FetchInv, WalkEntriesLocked
    PROVE  FetchInv'
<1> DEFINE from == Pruned(start)
           new == NewRequests[from][0]
<1>1. /\ walkers > 0 /\ walkers' = walkers - 1 /\ start' = from
      /\ UNCHANGED <<db, peerTree, remoteSize, returned, stuck>>
  BY DEF WalkEntriesLocked, Walk
<1>2. start <= remoteSize /\ start \in Nat /\ remoteSize \in Nat /\ remoteSize <= MaxTree
      /\ MaxTree \in Nat /\ walkers' \in Nat /\ returned \in Nat
  BY <1>1 DEF FetchSetting, FetchInv, FetchShape, ListIsLeft
<1>3. /\ from \in start..remoteSize
      /\ \A i \in start..(from - 1) : range[i] = "HAVE"
      /\ from < remoteSize => range[from] # "HAVE"
  BY <1>2, PrunedIs DEF FetchInv
<1>4. IF from = remoteSize
      THEN task' = (IF task = "ACTIVE" THEN "OK" ELSE task) /\ UNCHANGED <<range, requests>>
      ELSE /\ requests' = requests \cup new
           /\ range' = Marked(range, UNION {Covered(r) : r \in new}, "FETCHING")
           /\ task' = task
  BY DEF WalkEntriesLocked, Walk
<1> HIDE DEF from
<1>5. 0..(from - 1) \subseteq db
  <2>1. ASSUME NEW i \in 0..(from - 1) PROVE i \in db
    <3>1. CASE i \in 0..(start - 1)
      BY <3>1 DEF FetchInv, PrunedIsStored
    <3>2. CASE i \in start..(from - 1)
      <4>1. range[i] = "HAVE" /\ i \in Index
        BY <1>2, <1>3, <3>2 DEF Index
      <4> QED
        BY <4>1 DEF FetchInv, HaveMeansStored
    <3> QED
      BY <1>2, <1>3, <3>1, <3>2
  <2> QED
    BY <2>1
<1>6. CASE from = remoteSize
  <2>1. PrunedIsStored' /\ OkMeansComplete' /\ ListIsLeft' /\ NeverStalls' /\ StuckIsOver'
    BY <1>1, <1>2, <1>3, <1>4, <1>5, <1>6
       DEF FetchInv, PrunedIsStored, OkMeansComplete, ListIsLeft, NeverStalls, StuckIsOver
  <2> QED
    BY <1>1, <1>2, <1>3, <1>4, <1>6, <2>1
       DEF FetchInv, FetchShape, GroupHasAll, FetchingIsAsked, HaveMeansStored
<1>7. CASE from # remoteSize
  <2>1. from \in start..(remoteSize - 1) /\ from \in Nat /\ from \in Index
        /\ range[from] \in {"WANT", "FETCHING"}
    BY <1>2, <1>3, <1>7 DEF FetchInv, FetchShape, PrunedIsStored, Index
  <2>2. WellMade(new, from)
    BY <1>2, <2>1, NewRequestsWellMade DEF FetchSetting
  <2>3. NewRequests[from] = WalkAt(NewRequests, from)
    BY <1>2, <2>1, NewRequestsIs
  <2>4. range[from] = "WANT" => new # {}
    <3>1. ~(from >= remoteSize) /\ ~(0 >= Concurrent) /\ ~(from >= GroupSize)
          /\ 0 \in 0..Concurrent
      BY <1>2, <2>1, GroupCovers, GroupSizeIs DEF FetchSetting, FetchInv, FetchShape
    <3>2. range[from] = "WANT" =>
             WalkAt(NewRequests, from)[0] = NewRequests[After(from)][0 + 1]
                                   \cup {[index |-> from, size |-> RequestSize(from)]}
      BY <3>1 DEF WalkAt
    <3> QED
      BY <2>3, <3>2, Zenon
  <2> HIDE DEF new
  <2>5. /\ requests' = requests \cup new /\ task' = task /\ stuck' = stuck
        /\ range' = Marked(range, UNION {Covered(r) : r \in new}, "FETCHING")
    BY <1>1, <1>4, <1>7
  <2>6. \A i \in Index :
           range'[i] = IF \E r \in new : i \in Covered(r) THEN "FETCHING" ELSE range[i]
    BY <2>5 DEF Marked
  <2>7. range' \in [Index -> {"NONE", "WANT", "FETCHING", "HAVE"}]
    BY <2>5 DEF Marked, FetchInv, FetchShape
  <2>8. \A r \in new : \A s \in requests \cup stuck :
           r # s /\ Covered(r) \cap Covered(s) = {}
    <3> SUFFICES ASSUME NEW r \in new, NEW s \in requests \cup stuck
                 PROVE  r # s /\ Covered(r) \cap Covered(s) = {}
      OBVIOUS
    <3>1. r \in Request /\ s \in Request
      BY <2>2 DEF WellMade, FetchInv, FetchShape
    <3>2. r.index \in Covered(r) /\ s.index \in Covered(s)
      BY <3>1, CoveredIs
    <3>3. \A k \in Covered(r) : range[k] = "WANT" /\ k \in Index
      <4>1. \A k \in Covered(r) : range[k] = "WANT"
        BY <2>2 DEF WellMade
      <4>2. r.index + r.size <= remoteSize
        BY <2>2 DEF WellMade
      <4>3. \A k \in Covered(r) : k \in Nat /\ k < r.index + r.size
        BY <3>1, CoveredIs
      <4>4. r.index \in Nat /\ r.size \in Nat
        BY <3>1, CoveredIs
      <4> QED
        BY <1>2, <4>1, <4>2, <4>3, <4>4 DEF Index
    <3>4. \A k \in Index : k \in Covered(s) => range[k] = "FETCHING"
      BY DEF FetchInv, FetchingIsAsked
    <3> QED
      BY <3>2, <3>3, <3>4
  <2>9. FetchingIsAsked'
    <3>1. requests' \cap stuck' = {}
      BY <2>5, <2>8 DEF FetchInv, FetchingIsAsked
    <3>2. \A r \in requests' \cup stuck' : r.index + r.size <= remoteSize'
      BY <1>1, <2>2, <2>5 DEF FetchInv, FetchingIsAsked, WellMade
    <3>3. \A i \in Index :
             range'[i] = "FETCHING" <=> \E r \in requests' \cup stuck' : i \in Covered(r)
      BY <2>5, <2>6 DEF FetchInv, FetchingIsAsked
    <3>4. \A r, s \in requests' \cup stuck' : r # s => Covered(r) \cap Covered(s) = {}
      BY <2>2, <2>5, <2>8 DEF FetchInv, FetchingIsAsked, WellMade
    <3> QED
      BY <3>1, <3>2, <3>3, <3>4 DEF FetchingIsAsked
  <2>10. PrunedIsStored'
    <3>1. ASSUME NEW i \in from..(remoteSize - 1) PROVE range'[i] # "NONE"
      <4>1. i \in Index /\ i \in start..(remoteSize - 1)
        BY <1>2, <2>1 DEF Index
      <4> QED
        BY <2>6, <4>1 DEF FetchInv, PrunedIsStored
    <3> QED
      BY <1>1, <1>5, <3>1 DEF PrunedIsStored
  <2>11. ListIsLeft' /\ StuckIsOver' /\ OkMeansComplete'
    BY <1>1, <1>2, <1>3, <2>5 DEF FetchInv, ListIsLeft, StuckIsOver, OkMeansComplete
  <2>12. NeverStalls'
    <3> SUFFICES ASSUME task' = "ACTIVE" PROVE requests' # {}
      BY DEF NeverStalls
    <3>1. CASE range[from] = "WANT"
      BY <2>4, <2>5, <3>1
    <3>2. CASE range[from] = "FETCHING"
      BY <2>1, <2>5, <3>2 DEF FetchInv, FetchingIsAsked, StuckIsOver
    <3> QED
      BY <2>1, <3>1, <3>2
  <2>13. HaveMeansStored'
    BY <1>1, <2>6 DEF FetchInv, HaveMeansStored
  <2>14. FetchShape'
    BY <1>1, <1>2, <1>3, <2>2, <2>5, <2>7 DEF FetchInv, FetchShape, WellMade
  <2> QED
    BY <1>1, <2>9, <2>10, <2>11, <2>12, <2>13, <2>14 DEF FetchInv, GroupHasAll
<1> QED
  BY <1>6, <1>7

\* A request that comes back leaves the other ranges alone, and a done callback to run.
LEMMA SettledKeeps ==
    ASSUME FetchSetting, FetchInv, NEW r \in requests,
           requests' = requests \ {r}, returned' = returned + 1,
           UNCHANGED <<peerTree, remoteSize, start, walkers, stuck>>,
           db \subseteq db', db' \subseteq Index,
           range' \in [Index -> {"NONE", "WANT", "FETCHING", "HAVE"}],
           \A i \in Index : i \notin Covered(r) => range'[i] = range[i],
           \A i \in Index : i \in Covered(r) => range'[i] \in {"WANT", "HAVE"},
           \A i \in Index : i \in Covered(r) /\ range'[i] = "HAVE" => i \in db',
           task' = task \/ task' \in {"INTERNAL"}
    PROVE  FetchInv'
<1>1. returned' \in Nat /\ returned' > 0 /\ walkers' \in Nat
  BY DEF FetchInv, FetchShape
<1>2. FetchShape' /\ GroupHasAll'
  BY <1>1 DEF FetchInv, FetchShape, GroupHasAll
<1>3. PrunedIsStored'
  <2>1. ASSUME NEW i \in start..(remoteSize - 1) PROVE range'[i] # "NONE"
    <3>1. i \in Index
      BY DEF FetchSetting, FetchInv, FetchShape, Index
    <3> QED
      BY <3>1 DEF FetchInv, PrunedIsStored
  <2> QED
    BY <2>1 DEF FetchInv, PrunedIsStored
<1>4. ListIsLeft'
  BY DEF FetchInv, ListIsLeft
<1>5. FetchingIsAsked'
  <2>1. \A i \in Index :
           range'[i] = "FETCHING" <=> \E s \in requests' \cup stuck' : i \in Covered(s)
    <3> SUFFICES ASSUME NEW i \in Index
                 PROVE  range'[i] = "FETCHING" <=>
                           \E s \in requests' \cup stuck' : i \in Covered(s)
      OBVIOUS
    <3>1. CASE i \in Covered(r)
      <4>1. ASSUME NEW s \in requests' \cup stuck', i \in Covered(s) PROVE FALSE
        <5>1. s \in requests \cup stuck /\ s # r
          BY <4>1 DEF FetchInv, FetchingIsAsked
        <5> QED
          BY <3>1, <4>1, <5>1 DEF FetchInv, FetchingIsAsked
      <4> QED
        BY <3>1, <4>1
    <3>2. CASE i \notin Covered(r)
      BY <3>2 DEF FetchInv, FetchingIsAsked
    <3> QED
      BY <3>1, <3>2
  <2>2. requests' \subseteq requests /\ stuck' = stuck /\ remoteSize' = remoteSize
    OBVIOUS
  <2> QED
    BY <2>1, <2>2 DEF FetchInv, FetchingIsAsked
<1>6. NeverStalls' /\ StuckIsOver' /\ OkMeansComplete'
  BY <1>1 DEF FetchInv, FetchShape, NeverStalls, StuckIsOver, OkMeansComplete
<1>7. HaveMeansStored'
  BY DEF FetchInv, HaveMeansStored
<1> QED
  BY <1>2, <1>3, <1>4, <1>5, <1>6, <1>7 DEF FetchInv

LEMMA FetchFailedKeeps ==
    ASSUME FetchSetting, FetchInv, NEW r \in requests, FetchFailed(r)
    PROVE  FetchInv'
<1>1. /\ range' \in [Index -> {"NONE", "WANT", "FETCHING", "HAVE"}]
      /\ \A i \in Index : range'[i] = IF i \in Covered(r) THEN "WANT" ELSE range[i]
  BY DEF FetchFailed, Marked, FetchInv, FetchShape
<1>2. /\ requests' = requests \ {r} /\ returned' = returned + 1
      /\ UNCHANGED <<peerTree, remoteSize, start, walkers, stuck>>
      /\ db' = db /\ task' = task
  BY DEF FetchFailed
<1>3. db \subseteq Index
  BY DEF FetchInv, FetchShape
<1> QED
  BY <1>1, <1>2, <1>3, SettledKeeps

\* Of a range that is written the indexes that count as there are those that were
\* inserted.
LEMMA WriteToDatabaseKeeps ==
    ASSUME FetchSetting, FetchInv, NEW r \in requests, WriteToDatabase(r)
    PROVE  FetchInv'
<1>1. PICK received \in 1..r.size : \E processed \in 0..received :
        /\ db' = db \cup r.index..(r.index + processed - 1)
        /\ range' = Written(r, received, processed)
        /\ task' = IF processed < received /\ task = "ACTIVE" THEN "INTERNAL" ELSE task
  BY DEF WriteToDatabase
<1>2. PICK processed \in 0..received :
        /\ db' = db \cup r.index..(r.index + processed - 1)
        /\ range' = Written(r, received, processed)
        /\ task' = IF processed < received /\ task = "ACTIVE" THEN "INTERNAL" ELSE task
  BY <1>1
<1> DEFINE new == r.index..(r.index + processed - 1)
<1>3. r \in Request /\ r.index + r.size <= remoteSize /\ remoteSize <= MaxTree
      /\ MaxTree \in Nat /\ remoteSize \in Int
  BY DEF FetchSetting, FetchInv, FetchShape, FetchingIsAsked
<1>4. /\ r.index \in Nat /\ r.size \in Nat
      /\ \A i : i \in Covered(r) <=> i \in Nat /\ r.index <= i /\ i < r.index + r.size
  BY <1>3, CoveredIs
<1>5. new \subseteq Covered(r) /\ new \subseteq Index
  BY <1>3, <1>4 DEF Index
<1> HIDE DEF new
<1>6. /\ range' \in [Index -> {"NONE", "WANT", "FETCHING", "HAVE"}]
      /\ \A i \in Index : range'[i] = IF i \in new THEN "HAVE"
                                       ELSE IF i \in Covered(r) THEN "WANT" ELSE range[i]
  BY <1>2 DEF Written, Marked, new, FetchInv, FetchShape
<1>7. db' = db \cup new /\ db' \subseteq Index
  BY <1>2, <1>5 DEF new, FetchInv, FetchShape
<1>8. /\ requests' = requests \ {r} /\ returned' = returned + 1
      /\ UNCHANGED <<peerTree, remoteSize, start, walkers, stuck>>
  BY DEF WriteToDatabase
<1>9. task' = task \/ task' \in {"INTERNAL"}
  BY <1>2
<1> QED
  BY <1>5, <1>6, <1>7, <1>8, <1>9, SettledKeeps

\* A range with a bad SCT stays as it is, and the task is over.
LEMMA WriteBadSctKeeps ==
    ASSUME FetchSetting, FetchInv, NEW r \in requests, WriteBadSct(r)
    PROVE  FetchInv'
<1>1. PICK bad \in Covered(r) : db' = db \cup r.index..(bad - 1)
  BY DEF WriteBadSct
<1>2. /\ requests' = requests \ {r} /\ stuck' = stuck \cup {r}
      /\ task' # "ACTIVE" /\ (task' = "OK" => task = "OK") /\ (task = "OK" => task' = "OK")
      /\ UNCHANGED <<peerTree, remoteSize, start, range, returned, walkers>>
  BY DEF WriteBadSct
<1>3. requests' \cup stuck' = requests \cup stuck /\ requests' \cap stuck' = {}
  BY <1>2 DEF FetchInv, FetchingIsAsked
<1>4. db \subseteq db' /\ db' \subseteq Index
  <2>1. r \in Request /\ r.index + r.size <= remoteSize /\ remoteSize <= MaxTree
        /\ MaxTree \in Nat /\ remoteSize \in Int
    BY DEF FetchSetting, FetchInv, FetchShape, FetchingIsAsked
  <2>2. r.index \in Nat /\ r.size \in Nat /\ bad \in Nat /\ bad < r.index + r.size
    BY <2>1, CoveredIs
  <2>3. r.index..(bad - 1) \subseteq Index
    BY <2>1, <2>2 DEF Index
  <2> QED
    BY <1>1, <2>3 DEF FetchInv, FetchShape
<1>5. FetchShape'
  BY <1>2, <1>4 DEF FetchInv, FetchShape
<1>6. FetchingIsAsked'
  BY <1>2, <1>3 DEF FetchInv, FetchingIsAsked
<1> QED
  BY <1>2, <1>4, <1>5, <1>6
     DEF FetchInv, GroupHasAll, PrunedIsStored, ListIsLeft, StuckIsOver, HaveMeansStored,
         OkMeansComplete, NeverStalls

-----------------------------------------------------------------------------
(* The number of requests.  A slot is a range that a walk has asked for,   *)
(* whether it is still being fetched or not.                               *)

End(c) == c.index + c.size

\* There are no more slots than the flag allows, and they hold all that is being fetched
\* and, up to the end of the last one, all that is wanted; what is left of a slot that came
\* back is its end.
SlotsFit(C) ==
    /\ IsFiniteSet(C) /\ Cardinality(C) <= Concurrent
    /\ requests \cup stuck \subseteq C
    /\ \A c \in C : End(c) <= remoteSize
    /\ \A c, d \in C : c # d => Covered(c) \cap Covered(d) = {}
    /\ \A c \in C : \A i, j \in Covered(c) : i < j /\ range[i] = "WANT" => range[j] = "WANT"
    /\ \A i \in start..(remoteSize - 1) :
           range[i] = "WANT" /\ (\E c \in C : i < End(c)) => \E c \in C : i \in Covered(c)

\* Nothing before the list is to be fetched.
PastIsOver == \A i \in Index : i < start => range[i] \in {"NONE", "HAVE"}

SlotInv == PastIsOver /\ \E C \in SUBSET Request : SlotsFit(C)

\* The slots, or requests, that reach behind i.
Reach(S, i) == {c \in S : End(c) > i}

LEMMA FewerSlots ==
    ASSUME NEW S, IsFiniteSet(S), NEW c \in S, NEW T, T \subseteq S \ {c}
    PROVE  Cardinality(T) \in Nat /\ Cardinality(T) + 1 <= Cardinality(S)
<1>1. IsFiniteSet(S \ {c}) /\ Cardinality(S \ {c}) = Cardinality(S) - 1
  BY FS_RemoveElement
<1>2. IsFiniteSet(T) /\ Cardinality(T) <= Cardinality(S \ {c})
  BY <1>1, FS_Subset
<1>3. Cardinality(S) \in Nat /\ Cardinality(T) \in Nat
  BY <1>2, FS_CardinalityType
<1> QED
  BY <1>1, <1>2, <1>3

\* A range that is asked for, or could be, ends the slot it begins in.
LEMMA SlotEnds ==
    ASSUME FetchSetting, FetchInv, NEW C \in SUBSET Request, SlotsFit(C),
           NEW i \in start..(remoteSize - 1), NEW c \in C, i \in Covered(c),
           range[i] # "HAVE"
    PROVE  End(c) > i /\ End(c) <= After(i)
<1>1. /\ start \in Nat /\ remoteSize \in Int /\ i \in Nat /\ i \in Index
      /\ range[i] \in {"WANT", "FETCHING"}
  BY DEF FetchSetting, FetchInv, FetchShape, PrunedIsStored, Index
<1>2. /\ c.index \in Nat /\ c.size \in Nat /\ c.size <= BatchSize
      /\ \A k : k \in Covered(c) <=> k \in Nat /\ c.index <= k /\ k < c.index + c.size
  BY CoveredIs
<1>3. End(c) > i /\ End(c) \in Nat
  BY <1>2 DEF End
<1>4. CASE range[i] = "FETCHING"
  <2> DEFINE r == CHOOSE q \in requests \cup stuck : i \in Covered(q)
  <2>1. r \in requests \cup stuck /\ i \in Covered(r)
    BY <1>1, <1>4 DEF FetchInv, FetchingIsAsked
  <2>2. After(i) = r.index + r.size
    BY <1>4 DEF After
  <2> HIDE DEF r
  <2>3. r = c
    BY <2>1 DEF SlotsFit
  <2> QED
    BY <1>3, <2>2, <2>3 DEF End
<1>5. CASE range[i] = "WANT"
  <2>1. /\ RequestSize(i) \in 1..BatchSize
        /\ RequestSize(i) = BatchSize \/ i + RequestSize(i) = WantEnd(i)
        /\ WantEnd(i) \in (i + 1)..remoteSize
        /\ WantEnd(i) = remoteSize \/ range[WantEnd(i)] # "WANT"
    BY <1>1, <1>5, RequestSizeIs, WantEndIs DEF FetchInv
  <2>2. After(i) = i + RequestSize(i)
    BY <1>5 DEF After
  <2>3. CASE RequestSize(i) = BatchSize
    BY <1>1, <1>2, <1>3, <2>2, <2>3 DEF End, FetchSetting
  <2>4. CASE i + RequestSize(i) = WantEnd(i)
    <3>1. End(c) <= WantEnd(i)
      <4> SUFFICES ASSUME End(c) > WantEnd(i) PROVE FALSE
        BY <1>1, <1>3, <2>1
      <4>1. WantEnd(i) # remoteSize
        BY <1>1, <1>3, <2>1 DEF SlotsFit
      <4>2. WantEnd(i) \in Covered(c) /\ i < WantEnd(i)
        BY <1>1, <1>2, <1>3, <2>1 DEF End
      <4>3. range[WantEnd(i)] = "WANT"
        BY <1>5, <4>2, Zenon DEF SlotsFit
      <4> QED
        BY <2>1, <4>1, <4>3
    <3> QED
      BY <1>3, <2>2, <2>4, <3>1
  <2> QED
    BY <2>1, <2>3, <2>4
<1> QED
  BY <1>1, <1>4, <1>5

\* A range that is counted uses up a slot, or begins behind all of them.
LEMMA SlotUsed ==
    ASSUME FetchSetting, FetchInv, NEW C \in SUBSET Request, SlotsFit(C),
           NEW i \in start..(remoteSize - 1), range[i] # "HAVE",
           NEW n \in Nat, n < Concurrent, n + Cardinality(Reach(C, i)) <= Concurrent
    PROVE  n + 1 + Cardinality(Reach(C, After(i))) <= Concurrent
<1>1. /\ start \in Nat /\ remoteSize \in Int /\ i \in Nat /\ i \in Index
      /\ range[i] \in {"WANT", "FETCHING"} /\ Concurrent \in Nat
  BY DEF FetchSetting, FetchInv, FetchShape, PrunedIsStored, Index
<1>2. After(i) \in (i + 1)..remoteSize
  BY AfterIs
<1>3. IsFiniteSet(Reach(C, i)) /\ Cardinality(Reach(C, i)) \in Nat
  <2>1. IsFiniteSet(Reach(C, i))
    BY FS_Subset DEF SlotsFit, Reach
  <2> QED
    BY <2>1, FS_CardinalityType
<1>4. \A c \in C : End(c) \in Nat
  <2> TAKE c \in C
  <2> QED
    BY CoveredIs DEF End
<1>5. Reach(C, After(i)) \subseteq Reach(C, i)
  BY <1>1, <1>2, <1>4 DEF Reach
<1>6. CASE \E c \in C : i \in Covered(c)
  <2>1. PICK c \in C : i \in Covered(c)
    BY <1>6
  <2>2. End(c) > i /\ End(c) <= After(i)
    BY <2>1, SlotEnds
  <2>3. c \in Reach(C, i) /\ c \notin Reach(C, After(i))
    BY <1>1, <1>2, <1>4, <2>2 DEF Reach
  <2>4. /\ Cardinality(Reach(C, After(i))) \in Nat
        /\ Cardinality(Reach(C, After(i))) + 1 <= Cardinality(Reach(C, i))
    BY <1>3, <1>5, <2>3, FewerSlots
  <2> QED
    BY <1>1, <1>3, <2>4
<1>7. CASE ~\E c \in C : i \in Covered(c)
  <2>1. range[i] = "WANT"
    BY <1>1, <1>7 DEF FetchInv, FetchingIsAsked, SlotsFit
  <2>2. ~\E c \in C : i < End(c)
    BY <1>7, <2>1 DEF SlotsFit
  <2>3. Reach(C, i) = {}
    BY <1>1, <1>4, <2>2 DEF Reach
  <2>4. Cardinality(Reach(C, After(i))) = 0
    BY <1>5, <2>3, FS_EmptySet
  <2> QED
    BY <1>1, <2>4
<1> QED
  BY <1>6, <1>7

\* The requests that reach behind i after a walk from there on.
Started(i, n) == NewRequests[i][n] \cup Reach(requests \cup stuck, i)

\* A walk from i on that has counted n ranges keeps to the flag, and leaves no wanted index
\* before the end of a request.
WalkFits(C, i, n) ==
    n + Cardinality(Reach(C, i)) <= Concurrent =>
        /\ IsFiniteSet(Started(i, n)) /\ n + Cardinality(Started(i, n)) <= Concurrent
        /\ \A k \in i..(remoteSize - 1) :
               range[k] = "WANT" /\ (\E c \in Started(i, n) : k < End(c))
                   => \E r \in NewRequests[i][n] : k \in Covered(r)

\* The requests that reach behind i but not behind its range are that range.
LEMMA ReachIs ==
    ASSUME FetchSetting, FetchInv, NEW i \in start..(remoteSize - 1),
           NEW s \in requests \cup stuck, End(s) > i, End(s) <= After(i)
    PROVE  range[i] = "FETCHING" /\ i \in Covered(s) /\ End(s) = After(i)
<1>1. /\ start \in Nat /\ remoteSize \in Int /\ i \in Nat /\ i \in Index
      /\ range[i] \in {"WANT", "FETCHING", "HAVE"} /\ remoteSize <= MaxTree
  BY DEF FetchSetting, FetchInv, FetchShape, PrunedIsStored, Index
<1>2. s \in Request
  BY DEF FetchInv, FetchShape
<1>3. /\ s.index \in Nat /\ s.size \in Nat /\ s.size >= 1
      /\ \A k : k \in Covered(s) <=> k \in Nat /\ s.index <= k /\ k < s.index + s.size
  BY <1>2, CoveredIs
<1>4. After(i) \in (i + 1)..remoteSize
  BY AfterIs
<1> DEFINE k == End(s) - 1
<1>5. k \in i..(After(i) - 1) /\ k \in Covered(s) /\ k \in Index /\ k \in Nat
  BY <1>1, <1>3, <1>4 DEF End, Index, FetchSetting
<1>6. range[k] = "FETCHING"
  BY <1>5 DEF FetchInv, FetchingIsAsked
<1>7. range[i] # "HAVE"
  <2> SUFFICES ASSUME range[i] = "HAVE" PROVE FALSE
    OBVIOUS
  <2>1. After(i) = i + 1
    BY DEF After
  <2>2. k = i
    BY <1>1, <1>5, <2>1
  <2> QED
    BY <1>6, <2>2
<1>8. range[i] # "WANT"
  <2> SUFFICES ASSUME range[i] = "WANT" PROVE FALSE
    OBVIOUS
  <2>1. /\ RequestSize(i) \in 1..BatchSize /\ i + RequestSize(i) <= WantEnd(i)
        /\ WantEnd(i) \in (i + 1)..remoteSize
        /\ \A j \in i..(WantEnd(i) - 1) : range[j] = "WANT"
    BY <1>1, RequestSizeIs, WantEndIs DEF FetchInv
  <2>2. After(i) = i + RequestSize(i)
    BY DEF After
  <2>3. k \in i..(WantEnd(i) - 1)
    BY <1>1, <1>5, <2>1, <2>2
  <2> QED
    BY <1>6, <2>1, <2>3
<1>9. range[i] = "FETCHING"
  BY <1>1, <1>7, <1>8
<1> DEFINE r == CHOOSE q \in requests \cup stuck : i \in Covered(q)
<1>10. r \in requests \cup stuck /\ i \in Covered(r)
  BY <1>1, <1>9 DEF FetchInv, FetchingIsAsked
<1>11. After(i) = End(r)
  BY <1>9 DEF After, End
<1> HIDE DEF r, k
<1>12. r \in Request
  BY <1>10 DEF FetchInv, FetchShape
<1>13. /\ r.index \in Nat /\ r.size \in Nat
       /\ \A j : j \in Covered(r) <=> j \in Nat /\ r.index <= j /\ j < r.index + r.size
  BY <1>12, CoveredIs
<1>14. k \in Covered(r)
  BY <1>1, <1>5, <1>10, <1>11, <1>13 DEF End
<1>15. r = s
  BY <1>5, <1>10, <1>14 DEF FetchInv, FetchingIsAsked
<1> QED
  BY <1>9, <1>10, <1>11, <1>15

\* A range that is counted is one more request, and nothing in it stays wanted.
LEMMA StartedIs ==
    ASSUME FetchSetting, FetchInv, NEW i \in start..(remoteSize - 1), range[i] # "HAVE",
           NEW n \in Nat, n < Concurrent
    PROVE  /\ NewRequests[After(i)][n + 1] \subseteq NewRequests[i][n]
           /\ \E r : End(r) = After(i) /\ Started(i, n) = Started(After(i), n + 1) \cup {r}
           /\ \A k \in i..(After(i) - 1) :
                  range[k] = "WANT" => \E r \in NewRequests[i][n] : k \in Covered(r)
<1>1. /\ start \in Nat /\ remoteSize \in Int /\ i \in Nat /\ i \in Index
      /\ range[i] \in {"WANT", "FETCHING"} /\ remoteSize <= MaxTree /\ MaxTree \in Nat
      /\ Concurrent \in Nat
  BY DEF FetchSetting, FetchInv, FetchShape, PrunedIsStored, Index
<1>2. After(i) \in (i + 1)..remoteSize
  BY AfterIs
<1>3. NewRequests[i] = WalkAt(NewRequests, i)
  BY <1>1, NewRequestsIs
<1>4. ~(i >= remoteSize) /\ ~(n >= Concurrent) /\ ~(i >= GroupSize) /\ n \in 0..Concurrent
  BY <1>1, GroupCovers, GroupSizeIs DEF FetchSetting, FetchInv, FetchShape
<1> DEFINE Asked == requests \cup stuck
<1>5. \A s \in Asked : End(s) \in Nat
  <2> TAKE s \in Asked
  <2>1. s \in Request
    BY DEF FetchInv, FetchShape
  <2> QED
    BY <2>1, CoveredIs DEF End
<1>6. Reach(Asked, After(i)) \subseteq Reach(Asked, i)
  BY <1>1, <1>2, <1>5 DEF Reach
<1>7. CASE range[i] = "FETCHING"
  <2>1. NewRequests[i][n] = NewRequests[After(i)][n + 1] \cup {}
    BY <1>3, <1>4, <1>7 DEF WalkAt
  <2>2. NewRequests[i][n] = NewRequests[After(i)][n + 1]
    BY <2>1
  <2> DEFINE r == CHOOSE q \in Asked : i \in Covered(q)
  <2>3. r \in Asked /\ i \in Covered(r)
    BY <1>1, <1>7 DEF FetchInv, FetchingIsAsked
  <2>4. After(i) = End(r)
    BY <1>7 DEF After, End
  <2> HIDE DEF r
  <2>5. r \in Request
    BY <2>3 DEF FetchInv, FetchShape
  <2>6. /\ r.index \in Nat /\ r.size \in Nat
        /\ \A j : j \in Covered(r) <=> j \in Nat /\ r.index <= j /\ j < r.index + r.size
    BY <2>5, CoveredIs
  <2>7. Reach(Asked, i) = Reach(Asked, After(i)) \cup {r}
    <3>1. r \in Reach(Asked, i)
      BY <1>1, <1>2, <2>3, <2>4 DEF Reach
    <3>2. ASSUME NEW s \in Reach(Asked, i), s \notin Reach(Asked, After(i))
          PROVE  s = r
      <4>1. s \in Asked /\ End(s) > i /\ End(s) <= After(i)
        BY <1>1, <1>2, <1>5, <3>2 DEF Reach
      <4>2. i \in Covered(s)
        BY <4>1, ReachIs
      <4> QED
        BY <2>3, <4>1, <4>2 DEF FetchInv, FetchingIsAsked
    <3> QED
      BY <1>6, <3>1, <3>2, Zenon
  <2>8. Started(i, n) = Started(After(i), n + 1) \cup {r}
    BY <2>2, <2>7 DEF Started
  <2>9. ASSUME NEW k \in i..(After(i) - 1) PROVE range[k] = "FETCHING"
    <3>1. k \in Index /\ k \in Covered(r)
      BY <1>1, <1>2, <2>3, <2>4, <2>6 DEF Index, End
    <3> QED
      BY <2>3, <3>1 DEF FetchInv, FetchingIsAsked
  <2> QED
    BY <2>2, <2>4, <2>8, <2>9
<1>8. CASE range[i] = "WANT"
  <2> DEFINE r == [index |-> i, size |-> RequestSize(i)]
  <2>1. NewRequests[i][n] = NewRequests[After(i)][n + 1] \cup {r}
    BY <1>3, <1>4, <1>8 DEF WalkAt
  <2>2. RequestSize(i) \in 1..BatchSize
    BY <1>1, <1>8, RequestSizeIs DEF FetchInv
  <2>3. After(i) = i + RequestSize(i)
    BY <1>8 DEF After
  <2>4. r.index = i /\ r.size = RequestSize(i)
    OBVIOUS
  <2> HIDE DEF r
  <2>5. End(r) = After(i)
    BY <2>3, <2>4 DEF End
  <2>6. Reach(Asked, i) = Reach(Asked, After(i))
    <3>1. ASSUME NEW s \in Reach(Asked, i), s \notin Reach(Asked, After(i))
          PROVE  FALSE
      <4>1. s \in Asked /\ End(s) > i /\ End(s) <= After(i)
        BY <1>1, <1>2, <1>5, <3>1 DEF Reach
      <4> QED
        BY <1>8, <4>1, ReachIs
    <3> QED
      BY <1>6, <3>1
  <2>7. Started(i, n) = Started(After(i), n + 1) \cup {r}
    BY <2>1, <2>6 DEF Started
  <2>8. \A k \in i..(After(i) - 1) : k \in Covered(r)
    BY <1>1, <2>2, <2>3, <2>4 DEF Covered, FetchSetting
  <2>9. r \in NewRequests[i][n] /\ NewRequests[After(i)][n + 1] \subseteq NewRequests[i][n]
    BY <2>1
  <2>10. \A k \in i..(After(i) - 1) : \E q \in NewRequests[i][n] : k \in Covered(q)
    BY <2>8, <2>9
  <2> QED
    BY <2>5, <2>7, <2>9, <2>10
<1> QED
  BY <1>1, <1>7, <1>8

\* One range of the walk.
LEMMA WalkFitsAt ==
    ASSUME FetchSetting, FetchInv, NEW C \in SUBSET Request, SlotsFit(C),
           NEW i \in start..MaxTree,
           i < remoteSize => \A m \in 0..Concurrent : WalkFits(C, After(i), m),
           NEW n \in 0..Concurrent
    PROVE  WalkFits(C, i, n)
<1> SUFFICES ASSUME n + Cardinality(Reach(C, i)) <= Concurrent
             PROVE  /\ IsFiniteSet(Started(i, n)) /\ n + Cardinality(Started(i, n)) <= Concurrent
                    /\ \A k \in i..(remoteSize - 1) :
                           range[k] = "WANT" /\ (\E c \in Started(i, n) : k < End(c))
                               => \E r \in NewRequests[i][n] : k \in Covered(r)
  BY DEF WalkFits
<1>1. /\ start \in Nat /\ MaxTree \in Nat /\ remoteSize \in Int /\ remoteSize <= MaxTree
      /\ i \in Nat /\ n \in Nat /\ Concurrent \in Nat
  BY DEF FetchSetting, FetchInv, FetchShape
<1> DEFINE Asked == requests \cup stuck
<1>2. \A c \in C : End(c) \in Nat /\ End(c) <= remoteSize
  <2> TAKE c \in C
  <2>1. End(c) \in Nat
    BY CoveredIs DEF End
  <2> QED
    BY <2>1 DEF SlotsFit
<1>3. Asked \subseteq C
  BY DEF SlotsFit
<1>4. \A j : Reach(Asked, j) \subseteq Reach(C, j)
  BY <1>3 DEF Reach
<1>5. \A j : IsFiniteSet(Reach(C, j)) /\ Cardinality(Reach(C, j)) \in Nat
  <2> TAKE j
  <2>1. IsFiniteSet(Reach(C, j))
    BY FS_Subset DEF SlotsFit, Reach
  <2> QED
    BY <2>1, FS_CardinalityType
<1>6. NewRequests[i] = WalkAt(NewRequests, i)
  BY NewRequestsIs
<1>7. CASE i >= remoteSize \/ n >= Concurrent
  <2>1. NewRequests[i][n] = {}
    BY <1>6, <1>7 DEF WalkAt
  <2>2. Reach(C, i) = {}
    <3>1. CASE i >= remoteSize
      BY <1>1, <1>2, <3>1 DEF Reach
    <3>2. CASE n >= Concurrent
      <4>1. Cardinality(Reach(C, i)) = 0
        BY <1>1, <1>5, <3>2
      <4> QED
        BY <1>5, <4>1, FS_EmptySet
    <3> QED
      BY <1>7, <3>1, <3>2
  <2>3. Started(i, n) = {}
    BY <1>4, <2>1, <2>2, Zenon DEF Started
  <2>4. IsFiniteSet({}) /\ Cardinality({}) = 0
    BY FS_EmptySet
  <2> QED
    BY <1>1, <2>3, <2>4
<1>8. CASE ~(i >= remoteSize \/ n >= Concurrent)
  <2>1. /\ i \in start..(remoteSize - 1) /\ i < remoteSize /\ n < Concurrent
        /\ n + 1 \in 0..Concurrent /\ i \in Index
    BY <1>1, <1>8 DEF Index
  <2>2. After(i) \in (i + 1)..remoteSize /\ After(i) \in Nat
    BY <1>1, <2>1, AfterIs
  <2>3. CASE range[i] = "HAVE"
    <3>1. ~(i >= GroupSize)
      BY <1>1, <2>1, GroupCovers, GroupSizeIs DEF FetchSetting, FetchInv, FetchShape
    <3>2. NewRequests[i][n] = NewRequests[After(i)][n]
      BY <1>6, <1>8, <2>3, <3>1, Zenon DEF WalkAt
    <3>3. Reach(C, After(i)) \subseteq Reach(C, i)
      BY <1>1, <1>2, <2>2 DEF Reach
    <3>4. Cardinality(Reach(C, After(i))) <= Cardinality(Reach(C, i))
      BY <1>5, <3>3, FS_Subset
    <3>5. n + Cardinality(Reach(C, After(i))) <= Concurrent
      BY <1>1, <1>5, <3>4
    <3>6. Reach(Asked, i) = Reach(Asked, After(i))
      <4>1. ASSUME NEW s \in Asked PROVE End(s) > i <=> End(s) > After(i)
        <5>1. End(s) \in Nat
          BY <1>2, <1>3
        <5>2. ~(End(s) > i /\ End(s) <= After(i))
          BY <2>1, <2>3, ReachIs
        <5> QED
          BY <1>1, <2>2, <5>1, <5>2
      <4> QED
        BY <4>1 DEF Reach
    <3>7. Started(i, n) = Started(After(i), n)
      BY <3>2, <3>6 DEF Started
    <3>8. WalkFits(C, After(i), n)
      BY <2>1
    <3>9. After(i) = i + 1
      BY <2>3 DEF After
    <3>10. \A k \in i..(remoteSize - 1) : range[k] = "WANT" => k \in After(i)..(remoteSize - 1)
      BY <1>1, <2>3, <3>9
    <3> QED
      BY <3>2, <3>5, <3>7, <3>8, <3>10, Zenon DEF WalkFits
  <2>4. CASE range[i] # "HAVE"
    <3>1. n + 1 + Cardinality(Reach(C, After(i))) <= Concurrent
      BY <1>1, <2>1, <2>4, SlotUsed
    <3>2. PICK r : End(r) = After(i) /\ Started(i, n) = Started(After(i), n + 1) \cup {r}
      BY <1>1, <2>1, <2>4, StartedIs
    <3>3. /\ NewRequests[After(i)][n + 1] \subseteq NewRequests[i][n]
          /\ \A k \in i..(After(i) - 1) :
                 range[k] = "WANT" => \E q \in NewRequests[i][n] : k \in Covered(q)
      BY <1>1, <2>1, <2>4, StartedIs
    <3>4. WalkFits(C, After(i), n + 1)
      BY <2>1
    <3>5. /\ IsFiniteSet(Started(After(i), n + 1))
          /\ n + 1 + Cardinality(Started(After(i), n + 1)) <= Concurrent
          /\ \A k \in After(i)..(remoteSize - 1) :
                 range[k] = "WANT" /\ (\E c \in Started(After(i), n + 1) : k < End(c))
                     => \E q \in NewRequests[After(i)][n + 1] : k \in Covered(q)
      BY <3>1, <3>4 DEF WalkFits
    <3>6. /\ IsFiniteSet(Started(i, n))
          /\ Cardinality(Started(i, n)) <= Cardinality(Started(After(i), n + 1)) + 1
          /\ Cardinality(Started(i, n)) \in Nat
          /\ Cardinality(Started(After(i), n + 1)) \in Nat
      <4> DEFINE S == Started(After(i), n + 1)
      <4>1. IsFiniteSet(S) /\ Started(i, n) = S \cup {r}
        BY <3>2, <3>5
      <4> HIDE DEF S
      <4>2. /\ IsFiniteSet(S \cup {r})
            /\ Cardinality(S \cup {r}) = IF r \in S THEN Cardinality(S) ELSE Cardinality(S) + 1
        BY <4>1, FS_AddElement
      <4>3. Cardinality(S) \in Nat
        BY <4>1, FS_CardinalityType
      <4>4. Cardinality(S \cup {r}) <= Cardinality(S) + 1 /\ Cardinality(S \cup {r}) \in Nat
        BY <4>2, <4>3
      <4> QED
        BY <4>1, <4>2, <4>3, <4>4 DEF S
    <3>7. ASSUME NEW k \in i..(remoteSize - 1), range[k] = "WANT",
                 NEW c \in Started(i, n), k < End(c)
          PROVE  \E q \in NewRequests[i][n] : k \in Covered(q)
      <4>1. CASE k < After(i)
        <5>1. k \in i..(After(i) - 1)
          BY <1>1, <2>2, <4>1
        <5> QED
          BY <3>3, <3>7, <5>1
      <4>2. CASE ~(k < After(i))
        <5>1. k \in After(i)..(remoteSize - 1)
          BY <1>1, <2>2, <4>2
        <5>2. c # r
          BY <3>2, <3>7, <4>2
        <5>3. c \in Started(After(i), n + 1)
          BY <3>2, <5>2
        <5> QED
          BY <3>3, <3>5, <3>7, <5>1, <5>3, Zenon
      <4> QED
        BY <4>1, <4>2
    <3>8. n + Cardinality(Started(i, n)) <= Concurrent
      <4>1. n + 1 + Cardinality(Started(After(i), n + 1)) <= Concurrent
        BY <3>5
      <4>2. n \in Nat /\ Concurrent \in Nat
        BY <1>1
      <4> QED
        BY <3>6, <4>1, <4>2
    <3> QED
      BY <3>6, <3>7, <3>8, Zenon
  <2> QED
    BY <2>3, <2>4, Zenon
<1> QED
  BY <1>7, <1>8

LEMMA WalkFitsAll ==
    ASSUME FetchSetting, FetchInv, NEW C \in SUBSET Request, SlotsFit(C)
    PROVE  \A i \in start..MaxTree : \A n \in 0..Concurrent : WalkFits(C, i, n)
<1> DEFINE Good(i) == \A n \in 0..Concurrent : WalkFits(C, i, n)
           S == {k \in start..MaxTree : \A i \in k..MaxTree : Good(i)}
<1>1. start \in Nat /\ MaxTree \in Nat /\ start <= MaxTree /\ remoteSize \in Int
      /\ remoteSize <= MaxTree
  BY DEF FetchSetting, FetchInv, FetchShape
<1>2. ASSUME NEW i \in start..MaxTree, i < remoteSize => Good(After(i))
      PROVE  Good(i)
  BY <1>2, WalkFitsAt
<1> HIDE DEF Good
<1>3. MaxTree \in S
  BY <1>1, <1>2
<1>4. PICK k \in S : \A m \in S : k <= m
  <2>1. S \subseteq Nat /\ S # {}
    BY <1>1, <1>3
  <2> HIDE DEF S
  <2> QED
    BY <2>1, LeastExists, Zenon
<1>5. k = start
  <2> SUFFICES ASSUME k # start PROVE FALSE
    OBVIOUS
  <2>1. k \in start..MaxTree /\ k - 1 \in start..MaxTree /\ k \in Nat
    BY <1>1
  <2>2. \A i \in k..MaxTree : Good(i)
    BY <1>4
  <2>3. ASSUME k - 1 < remoteSize PROVE Good(After(k - 1))
    <3>1. After(k - 1) \in k..remoteSize
      BY <1>1, <2>1, <2>3, AfterIs
    <3>2. After(k - 1) \in k..MaxTree
      BY <1>1, <2>1, <3>1
    <3> QED
      BY <2>2, <3>2
  <2>4. Good(k - 1)
    BY <1>2, <2>1, <2>3
  <2>5. \A i \in (k - 1)..MaxTree : Good(i)
    BY <2>1, <2>2, <2>4
  <2>6. k - 1 \in S
    BY <2>1, <2>5
  <2>7. k <= k - 1
    BY <1>4, <2>6
  <2> QED
    BY <2>1, <2>7
<1> QED
  BY <1>4, <1>5 DEF Good

\* After a walk the slots are the requests.
LEMMA WalkEntriesLockedFits ==
    ASSUME FetchSetting, FetchInv, SlotInv, WalkEntriesLocked
    PROVE  SlotInv'
<1> DEFINE from == Pruned(start)
           new == NewRequests[from][0]
           Asked == requests \cup stuck
<1>1. walkers > 0 /\ start' = from /\ remoteSize' = remoteSize /\ stuck' = stuck
  BY DEF WalkEntriesLocked, Walk
<1>2. start <= remoteSize /\ start \in Nat /\ remoteSize \in Nat /\ remoteSize <= MaxTree
      /\ MaxTree \in Nat /\ Concurrent \in Nat
  BY <1>1 DEF FetchSetting, FetchInv, FetchShape, ListIsLeft
<1>3. from \in start..remoteSize /\ \A i \in start..(from - 1) : range[i] = "HAVE"
  BY <1>2, PrunedIs DEF FetchInv
<1>4. IF from = remoteSize THEN UNCHANGED <<range, requests>>
      ELSE /\ requests' = requests \cup new
           /\ range' = Marked(range, UNION {Covered(r) : r \in new}, "FETCHING")
  BY DEF WalkEntriesLocked, Walk
<1> HIDE DEF from
<1>5. PICK C \in SUBSET Request : SlotsFit(C)
  BY DEF SlotInv
<1>6. \A i \in Index : i < from => range[i] \in {"NONE", "HAVE"}
  BY <1>2, <1>3 DEF SlotInv, PastIsOver, Index
<1>7. CASE from = remoteSize
  <2>1. SlotsFit(C)'
    <3>1. UNCHANGED <<range, requests, remoteSize, stuck>>
      BY <1>1, <1>4, <1>7
    <3>2. \A i \in start'..(remoteSize' - 1) : i \in start..(remoteSize - 1)
      BY <1>1, <1>2, <1>3
    <3> QED
      BY <1>5, <3>1, <3>2 DEF SlotsFit
  <2> QED
    BY <1>1, <1>4, <1>5, <1>6, <1>7, <2>1 DEF SlotInv, PastIsOver
<1>8. CASE from # remoteSize
  <2>1. from \in start..MaxTree /\ 0 \in 0..Concurrent /\ from \in Nat
    BY <1>2, <1>3
  <2>2. WellMade(new, from)
    BY <2>1, NewRequestsWellMade
  <2>3. WalkFits(C, from, 0)
    BY <1>5, <2>1, WalkFitsAll
  <2>4. 0 + Cardinality(Reach(C, from)) <= Concurrent
    <3>1. IsFiniteSet(C) /\ Cardinality(C) <= Concurrent
      BY <1>5 DEF SlotsFit
    <3>2. Reach(C, from) \in SUBSET C
      BY DEF Reach
    <3>3. IsFiniteSet(Reach(C, from)) /\ Cardinality(Reach(C, from)) <= Cardinality(C)
      BY <3>1, <3>2, FS_Subset
    <3>4. Cardinality(C) \in Nat /\ Cardinality(Reach(C, from)) \in Nat
      BY <3>1, <3>3, FS_CardinalityType
    <3> QED
      BY <1>2, <3>1, <3>3, <3>4
  <2>5. \A s \in Asked : /\ s \in Request /\ s.index >= from /\ End(s) > from
                          /\ End(s) <= remoteSize
                          /\ \A k \in Covered(s) : k \in Index /\ range[k] = "FETCHING"
    <3> TAKE s \in Asked
    <3>1. s \in Request /\ s.index + s.size <= remoteSize
      BY DEF FetchInv, FetchShape, FetchingIsAsked
    <3>2. /\ s.index \in Nat /\ s.index \in Index /\ s.size \in Nat /\ s.size >= 1
          /\ s.index \in Covered(s)
          /\ \A k : k \in Covered(s) <=> k \in Nat /\ s.index <= k /\ k < s.index + s.size
      BY <3>1, CoveredIs
    <3>3. \A k \in Covered(s) : k \in Index
      BY <1>2, <3>1, <3>2 DEF Index
    <3>4. \A k \in Covered(s) : range[k] = "FETCHING"
      BY <3>3 DEF FetchInv, FetchingIsAsked
    <3>5. s.index >= from
      BY <1>6, <2>1, <3>2, <3>4
    <3> QED
      BY <2>1, <3>1, <3>2, <3>3, <3>4, <3>5 DEF End
  <2>6. Started(from, 0) = new \cup Asked
    BY <2>5 DEF Started, Reach
  <2>7. /\ IsFiniteSet(new \cup Asked) /\ Cardinality(new \cup Asked) <= Concurrent
        /\ \A k \in from..(remoteSize - 1) :
               range[k] = "WANT" /\ (\E c \in new \cup Asked : k < End(c))
                   => \E r \in new : k \in Covered(r)
    <3>1. /\ IsFiniteSet(new \cup Asked) /\ 0 + Cardinality(new \cup Asked) <= Concurrent
          /\ \A k \in from..(remoteSize - 1) :
                 range[k] = "WANT" /\ (\E c \in new \cup Asked : k < End(c))
                     => \E r \in new : k \in Covered(r)
      BY <2>3, <2>4, <2>6 DEF WalkFits
    <3>2. Cardinality(new \cup Asked) \in Nat
      BY <3>1, FS_CardinalityType
    <3> QED
      BY <3>1, <3>2
  <2> HIDE DEF new
  <2>8. /\ requests' = requests \cup new
        /\ range' = Marked(range, UNION {Covered(r) : r \in new}, "FETCHING")
    BY <1>4, <1>8
  <2>9. \A i \in Index :
           range'[i] = IF \E r \in new : i \in Covered(r) THEN "FETCHING" ELSE range[i]
    BY <2>8 DEF Marked
  <2>10. \A r \in new : /\ r \in Request /\ r.index >= from /\ End(r) <= remoteSize
                         /\ \A k \in Covered(r) : k \in Index /\ k >= from /\ range[k] = "WANT"
    <3> TAKE r \in new
    <3>1. /\ r \in Request /\ r.index >= from /\ r.index + r.size <= remoteSize
          /\ \A k \in Covered(r) : range[k] = "WANT"
      BY <2>2 DEF WellMade
    <3>2. /\ r.index \in Nat /\ r.size \in Nat
          /\ \A k : k \in Covered(r) <=> k \in Nat /\ r.index <= k /\ k < r.index + r.size
      BY <3>1, CoveredIs
    <3> QED
      BY <1>2, <2>1, <3>1, <3>2 DEF Index, End
  <2>11. PICK D : D = new \cup Asked
    BY Zenon
  <2>12. D \in SUBSET Request /\ (requests \cup stuck)' = D
    BY <1>1, <2>5, <2>8, <2>10, <2>11
  <2>13. \A c, d \in D : c # d => Covered(c) \cap Covered(d) = {}
    <3>1. \A c, d \in new : c # d => Covered(c) \cap Covered(d) = {}
      BY <2>2 DEF WellMade
    <3>2. \A c, d \in Asked : c # d => Covered(c) \cap Covered(d) = {}
      BY DEF FetchInv, FetchingIsAsked
    <3>3. \A c \in new : \A d \in Asked : Covered(c) \cap Covered(d) = {}
      BY <2>5, <2>10
    <3> QED
      BY <2>11, <3>1, <3>2, <3>3
  <2>14. \A c \in D : \A i \in Covered(c) : i \in Index /\ range'[i] = "FETCHING"
    BY <2>5, <2>9, <2>10, <2>11
  <2>15. ASSUME NEW i \in from..(remoteSize - 1), range'[i] = "WANT",
                \E c \in D : i < End(c)
         PROVE  \E c \in D : i \in Covered(c)
    <3>1. i \in Index
      BY <1>2, <2>1 DEF Index
    <3>2. range[i] = "WANT" /\ ~\E r \in new : i \in Covered(r)
      BY <2>9, <2>15, <3>1
    <3> QED
      BY <2>7, <2>15, <2>11, <3>2
  <2>16. \A c \in D : End(c) <= remoteSize
    BY <2>5, <2>10, <2>11
  <2>17. PastIsOver'
    <3>1. ASSUME NEW i \in Index, i < from PROVE range'[i] \in {"NONE", "HAVE"}
      <4>1. ~\E r \in new : i \in Covered(r)
        BY <2>10, <1>6, <3>1
      <4> QED
        BY <1>6, <2>9, <3>1, <4>1
    <3> QED
      BY <1>1, <3>1 DEF PastIsOver
  <2>18. SlotsFit(D)'
    <3>1. \A c \in D : \A i, j \in Covered(c) :
             i < j /\ range'[i] = "WANT" => range'[j] = "WANT"
      BY <2>14
    <3>2. \A i \in start'..(remoteSize' - 1) :
             range'[i] = "WANT" /\ (\E c \in D : i < End(c)) => \E c \in D : i \in Covered(c)
      BY <1>1, <2>15
    <3>3. IsFiniteSet(D) /\ Cardinality(D) <= Concurrent
      BY <2>7, <2>11
    <3> QED
      BY <1>1, <2>12, <2>13, <2>16, <3>1, <3>2, <3>3 DEF SlotsFit
  <2> QED
    BY <2>12, <2>17, <2>18 DEF SlotInv
<1> QED
  BY <1>7, <1>8

\* A request that comes back, or not, keeps its slot.
LEMMA SettledFits ==
    ASSUME FetchSetting, FetchInv, SlotInv, NEW r \in requests,
           (requests \cup stuck)' \subseteq requests \cup stuck,
           UNCHANGED <<remoteSize, start>>,
           \A i \in Index : i \notin Covered(r) => range'[i] = range[i],
           \A i \in Index : i \in Covered(r) => range'[i] \in {"WANT", "HAVE"},
           \A i, j \in Index : (/\ i \in Covered(r) /\ j \in Covered(r)
                                /\ i < j /\ range'[i] = "WANT") => range'[j] = "WANT"
    PROVE  SlotInv'
<1>1. PICK C \in SUBSET Request : SlotsFit(C)
  BY DEF SlotInv
<1>2. r \in C /\ start \in Nat /\ remoteSize \in Int /\ remoteSize <= MaxTree
      /\ MaxTree \in Nat
  BY <1>1 DEF SlotsFit, FetchSetting, FetchInv, FetchShape
<1>3. \A c \in C : \A k \in Covered(c) : k \in Index
  <2> TAKE c \in C
  <2>1. c.index + c.size <= remoteSize
    BY <1>1 DEF SlotsFit, End
  <2>2. /\ c.index \in Nat /\ c.size \in Nat
        /\ \A k : k \in Covered(c) <=> k \in Nat /\ c.index <= k /\ k < c.index + c.size
    BY CoveredIs
  <2> QED
    BY <1>2, <2>1, <2>2 DEF Index
<1>4. ASSUME NEW c \in C, NEW i \in Covered(c), NEW j \in Covered(c),
             i < j, range'[i] = "WANT"
      PROVE  range'[j] = "WANT"
  <2>1. i \in Index /\ j \in Index
    BY <1>3
  <2>2. CASE c = r
    BY <1>4, <2>1, <2>2
  <2>3. CASE c # r
    <3>1. i \notin Covered(r) /\ j \notin Covered(r)
      BY <1>1, <1>2, <2>3 DEF SlotsFit
    <3>2. range[i] = "WANT" /\ range'[j] = range[j]
      BY <1>4, <2>1, <3>1
    <3> QED
      BY <1>1, <1>4, <3>2 DEF SlotsFit
  <2> QED
    BY <2>2, <2>3
<1>5. ASSUME NEW i \in start..(remoteSize - 1), range'[i] = "WANT", \E c \in C : i < End(c)
      PROVE  \E c \in C : i \in Covered(c)
  <2>1. i \in Index
    BY <1>2 DEF Index
  <2>2. CASE i \in Covered(r)
    BY <1>2, <2>2
  <2>3. CASE i \notin Covered(r)
    BY <1>1, <1>5, <2>1, <2>3 DEF SlotsFit
  <2> QED
    BY <2>2, <2>3
<1>6. SlotsFit(C)'
  BY <1>1, <1>4, <1>5 DEF SlotsFit
<1>7. PastIsOver'
  <2>1. ASSUME NEW i \in Index, i < start PROVE range'[i] \in {"NONE", "HAVE"}
    <3>1. range[i] \in {"NONE", "HAVE"}
      BY <2>1 DEF SlotInv, PastIsOver
    <3>2. i \notin Covered(r)
      BY <3>1 DEF FetchInv, FetchingIsAsked
    <3> QED
      BY <3>1, <3>2
  <2> QED
    BY <2>1 DEF PastIsOver
<1> QED
  BY <1>6, <1>7 DEF SlotInv

LEMMA RespondFits ==
    ASSUME FetchSetting, FetchInv, SlotInv, NEW r \in requests,
           FetchFailed(r) \/ WriteToDatabase(r)
    PROVE  SlotInv'
<1>1. UNCHANGED <<remoteSize, start>> /\ (requests \cup stuck)' \subseteq requests \cup stuck
  BY DEF FetchFailed, WriteToDatabase
<1>2. CASE FetchFailed(r)
  <2>1. \A i \in Index : range'[i] = IF i \in Covered(r) THEN "WANT" ELSE range[i]
    BY <1>2 DEF FetchFailed, Marked
  <2>2. /\ \A i \in Index : i \notin Covered(r) => range'[i] = range[i]
        /\ \A i \in Index : i \in Covered(r) => range'[i] \in {"WANT", "HAVE"}
        /\ \A i, j \in Index : (/\ i \in Covered(r) /\ j \in Covered(r)
                                /\ i < j /\ range'[i] = "WANT") => range'[j] = "WANT"
    BY <2>1
  <2> QED
    BY <1>1, <2>2, SettledFits
<1>3. CASE WriteToDatabase(r)
  <2>1. PICK received \in 1..r.size :
           \E processed \in 0..received : range' = Written(r, received, processed)
    BY <1>3 DEF WriteToDatabase
  <2>2. PICK processed \in 0..received : range' = Written(r, received, processed)
    BY <2>1
  <2> DEFINE done == r.index..(r.index + processed - 1)
  <2>3. r \in Request
    BY DEF FetchInv, FetchShape
  <2>4. /\ r.index \in Nat /\ r.size \in Nat
        /\ \A k : k \in Covered(r) <=> k \in Nat /\ r.index <= k /\ k < r.index + r.size
    BY <2>3, CoveredIs
  <2>5. /\ done \subseteq Covered(r)
        /\ \A i, j \in Covered(r) : i < j /\ i \notin done => j \notin done
    BY <2>4
  <2> HIDE DEF done
  <2>6. \A i \in Index : range'[i] = IF i \in done THEN "HAVE"
                                     ELSE IF i \in Covered(r) THEN "WANT" ELSE range[i]
    BY <2>2 DEF Written, Marked, done
  <2>7. ASSUME NEW i \in Index, NEW j \in Index, i \in Covered(r), j \in Covered(r), i < j,
               range'[i] = "WANT"
        PROVE  range'[j] = "WANT"
    BY <2>5, <2>6, <2>7
  <2>8. /\ \A i \in Index : i \notin Covered(r) => range'[i] = range[i]
        /\ \A i \in Index : i \in Covered(r) => range'[i] \in {"WANT", "HAVE"}
    BY <2>5, <2>6
  <2> QED
    BY <1>1, <2>7, <2>8, SettledFits
<1> QED
  BY <1>2, <1>3

LEMMA SlotInitInv ==
    ASSUME FetchSetting, FetchInit
    PROVE  SlotInv
<1>1. range = [i \in Index |-> IF i \in start..(GroupSize - 1) THEN "WANT" ELSE "NONE"]
      /\ requests = {} /\ stuck = {}
  BY DEF FetchInit
<1>2. FetchInv
  BY FetchInitInv
<1>3. PastIsOver
  <2>1. ASSUME NEW i \in Index, i < start PROVE range[i] \in {"NONE", "HAVE"}
    <3>1. i \notin start..(GroupSize - 1)
      BY <1>2, <2>1 DEF FetchInv, FetchShape, FetchSetting, Index
    <3> QED
      BY <1>1, <3>1
  <2> QED
    BY <2>1 DEF PastIsOver
<1>4. IsFiniteSet({}) /\ Cardinality({}) <= Concurrent
  BY FS_EmptySet DEF FetchSetting
<1>5. SlotsFit({})
  BY <1>1, <1>4 DEF SlotsFit
<1> QED
  BY <1>3, <1>5 DEF SlotInv

LEMMA SlotNextInv ==
    ASSUME FetchSetting, FetchInv, SlotInv, [FetchNext]_fetchVars
    PROVE  SlotInv'
<1>1. ASSUME UNCHANGED <<remoteSize, start, range, requests, stuck>> PROVE SlotInv'
  <2>1. PastIsOver'
    BY <1>1 DEF SlotInv, PastIsOver
  <2>2. PICK C \in SUBSET Request : SlotsFit(C)
    BY DEF SlotInv
  <2>3. SlotsFit(C)'
    BY <1>1, <2>2 DEF SlotsFit
  <2> QED
    BY <2>1, <2>3 DEF SlotInv
<1>2. CASE WalkEntriesLocked
  BY <1>2, WalkEntriesLockedFits
<1>3. ASSUME NEW r \in requests, FetchFailed(r) \/ WriteToDatabase(r) PROVE SlotInv'
  BY <1>3, RespondFits
<1>4. ASSUME NEW r \in requests, WriteBadSct(r) PROVE SlotInv'
  <2>1. /\ (requests \cup stuck)' = requests \cup stuck
        /\ UNCHANGED <<remoteSize, start, range>>
    BY <1>4 DEF WriteBadSct
  <2>2. PastIsOver'
    BY <2>1 DEF SlotInv, PastIsOver
  <2>3. PICK C \in SUBSET Request : SlotsFit(C)
    BY DEF SlotInv
  <2>4. SlotsFit(C)'
    BY <2>1, <2>3 DEF SlotsFit
  <2> QED
    BY <2>2, <2>4 DEF SlotInv
<1> QED
  BY <1>1, <1>2, <1>3, <1>4 DEF FetchNext, fetchVars, WalkEntries, CancelFetch, PeerTreeGrows,
                                Respond

-----------------------------------------------------------------------------
(* The theorems. *)

LEMMA FetchNextInv ==
    ASSUME FetchSetting, FetchInv, [FetchNext]_fetchVars
    PROVE  FetchInv'
<1>1. CASE UNCHANGED fetchVars
  BY <1>1 DEF fetchVars, FetchInv, FetchShape, GroupHasAll, PrunedIsStored, ListIsLeft,
              FetchingIsAsked, StuckIsOver, HaveMeansStored, OkMeansComplete, NeverStalls
<1>2. CASE FetchNext
  <2>1. CASE WalkEntries \/ CancelFetch
    BY <2>1, WalkEntriesKeeps
  <2>2. CASE WalkEntriesLocked
    BY <2>2, WalkEntriesLockedKeeps
  <2>3. CASE Respond
    BY <2>3, FetchFailedKeeps, WriteToDatabaseKeeps, WriteBadSctKeeps DEF Respond
  <2>4. CASE \E p \in Peer : PeerTreeGrows(p)
    BY <2>4, PeerTreeGrowsKeeps
  <2> QED
    BY <1>2, <2>1, <2>2, <2>3, <2>4 DEF FetchNext
<1> QED
  BY <1>1, <1>2

\* FetchLogEntries returns OK only when the database has every entry below the tree size
\* the peer group had when it started.
THEOREM FetchOkMeansComplete ==
    ASSUME FetchSetting
    PROVE  FetchSpec => []OkMeansComplete
<1>1. FetchInv => OkMeansComplete
  BY DEF FetchInv
<1> QED
  BY <1>1, FetchInitInv, FetchNextInv, PTL DEF FetchSpec

\* An index that the list of ranges counts as fetched is in the database, whatever was
\* answered, in whichever order the requests came back.
THEOREM FetchHaveMeansStored ==
    ASSUME FetchSetting
    PROVE  FetchSpec => []HaveMeansStored
<1>1. FetchInv => HaveMeansStored
  BY DEF FetchInv
<1> QED
  BY <1>1, FetchInitInv, FetchNextInv, PTL DEF FetchSpec

\* No entry is asked for by two requests at once, however many callbacks walk the list.
THEOREM FetchNoEntryTwice ==
    ASSUME FetchSetting
    PROVE  FetchSpec => []NoEntryTwice
<1>1. FetchInv => NoEntryTwice
  BY DEF FetchInv, FetchingIsAsked, NoEntryTwice
<1> QED
  BY <1>1, FetchInitInv, FetchNextInv, PTL DEF FetchSpec

\* While FetchLogEntries is active a request is outstanding or a callback is due that
\* walks the list again: it never waits for nothing.
THEOREM FetchNeverStalls ==
    ASSUME FetchSetting
    PROVE  FetchSpec => []NeverStalls
<1>1. FetchInv => NeverStalls
  BY DEF FetchInv
<1> QED
  BY <1>1, FetchInitInv, FetchNextInv, PTL DEF FetchSpec

\* There are never more requests than the flag fetcher_concurrent_fetches allows: failed
\* and short requests are asked for again within the slots they had, so that the walk,
\* which stops counting at the flag, never overlooks a request behind them.
THEOREM FetchRequestsBounded ==
    ASSUME FetchSetting
    PROVE  FetchSpec => []RequestsBounded
<1>1. FetchInit => FetchInv /\ SlotInv
  BY FetchInitInv, SlotInitInv
<1>2. FetchInv /\ SlotInv /\ [FetchNext]_fetchVars => (FetchInv /\ SlotInv)'
  BY FetchNextInv, SlotNextInv
<1>3. FetchInv /\ SlotInv => RequestsBounded
  <2> SUFFICES ASSUME FetchInv, SlotInv PROVE RequestsBounded
    OBVIOUS
  <2>1. PICK C \in SUBSET Request : SlotsFit(C)
    BY DEF SlotInv
  <2>2. IsFiniteSet(C) /\ Cardinality(C) <= Concurrent /\ requests \in SUBSET C
    BY <2>1 DEF SlotsFit
  <2>3. IsFiniteSet(requests) /\ Cardinality(requests) <= Cardinality(C)
    BY <2>2, FS_Subset
  <2>4. Cardinality(requests) \in Nat /\ Cardinality(C) \in Nat
    BY <2>2, <2>3, FS_CardinalityType
  <2> QED
    BY <2>2, <2>3, <2>4 DEF RequestsBounded, FetchSetting
<1> QED
  BY <1>1, <1>2, <1>3, PTL DEF FetchSpec

=============================================================================
