----------------------------- MODULE NodeProofs -----------------------------
(***************************************************************************)
(* Theorems about the parts of a node: the tree heads it keeps             *)
(* (TreeHeads), for any number of entries, timestamps and restarts; its    *)
(* thread pool (ThreadPool), for any number of workers and jobs and for    *)
(* any delays; and, in a mirror, the heads it takes over from another log  *)
(* (Mirror), for any sequence of signed heads, right and wrong ones.       *)
(***************************************************************************)
EXTENDS TreeHeads, ThreadPool, Mirror, WellFoundedInduction, TLAPS

\* Leaves that name no prover are given to SMT and then to Zenon, with time
\* enough for a busy machine.
USE SMTT(15), ZenonT(25)

-----------------------------------------------------------------------------
(* A fact about numbers. *)

\* Of some numbers there is a least one.
LEMMA LeastExists ==
    ASSUME NEW S, S \subseteq Nat, S # {}
    PROVE  \E n \in S : \A m \in S : n <= m
<1> DEFINE R == {x \in Nat \X Nat : x[1] < x[2]}
<1>1. IsWellFoundedOn(R, Nat)
  BY NatLessThanWellFounded DEF OpToRel
<1>2. PICK n \in S : \A m \in S : <<m, n>> \notin R
  <2> HIDE DEF R
  <2> QED
    BY <1>1, WFMin, Zenon
<1>3. ASSUME NEW m \in S
      PROVE  n <= m
  <2>1. m \in Nat /\ n \in Nat
    OBVIOUS
  <2>2. ~(m < n)
    BY <1>2, <2>1, Zenon
  <2> QED
    BY <2>1, <2>2
<1> QED
  BY <1>3

-----------------------------------------------------------------------------
(* Facts about tree heads and about the sequence of serving STHs. *)

\* The fields of a tree head; NoSth is none.
LEMMA SthFields ==
    /\ NoSth.size = 0 /\ NoSth.time = 0
    /\ NoSth \notin Sth
    /\ \A h \in Sth : /\ h.size \in Nat /\ h.size <= MaxSize
                      /\ h.time \in Nat /\ h.time >= 1 /\ h.time <= MaxTime
BY HeadAssumption DEF Sth, NoSth

\* Of some heads there is a newest one.
LEMMA NewestExists ==
    ASSUME NEW S, S \subseteq Sth, S # {}
    PROVE  \E h \in S : \A g \in S : g.time <= h.time
<1> DEFINE T == {MaxTime - h.time : h \in S}
<1>1. T \subseteq Nat /\ T # {}
  BY SthFields, HeadAssumption
<1>2. PICK t \in T : \A u \in T : t <= u
  <2> HIDE DEF T
  <2> QED
    BY <1>1, LeastExists, Zenon
<1>3. PICK h \in S : MaxTime - h.time = t
  BY <1>2
<1>4. ASSUME NEW g \in S
      PROVE  g.time <= h.time
  <2>1. MaxTime - h.time <= MaxTime - g.time
    BY <1>2, <1>3
  <2> QED
    BY <2>1, SthFields, HeadAssumption
<1> QED
  BY <1>4

\* Later serving STHs are newer and not smaller.
ServedHeadsGrow ==
    \A p, q \in 1 .. Len(served) :
        p < q => served[p].time < served[q].time /\ served[p].size <= served[q].size

HeadInv == served \in Seq(Sth) /\ ServedHeadsGrow

LEMMA ServedIsSth ==
    ASSUME HeadInv
    PROVE  /\ Len(served) \in Nat
           /\ \A p \in 1 .. Len(served) : served[p] \in Sth
           /\ \A p \in 0 .. Len(served) : ServedAt(p) \in Sth \cup {NoSth}
           /\ \A p \in 1 .. Len(served) : ServedAt(p) = served[p]
           /\ ServedAt(0) = NoSth
BY DEF HeadInv, ServedAt

LEMMA HeadInitInv == HeadInit => HeadInv
BY DEF HeadInit, HeadInv, ServedHeadsGrow

LEMMA HeadNextInv ==
    ASSUME HeadInv, HeadNext
    PROVE  /\ HeadInv'
           /\ Len(served') = Len(served) + 1
           /\ \A p \in 1 .. Len(served) : served'[p] = served[p]
<1>1. PICK sth \in Sth : Serve(sth)
  BY DEF HeadNext
<1> DEFINE n == Len(served)
<1>2. /\ served' = Append(served, sth) /\ served \in Seq(Sth) /\ n \in Nat
      /\ sth.time > Serving.time /\ sth.size >= Serving.size
  BY <1>1 DEF Serve, HeadInv
<1>3. /\ served' \in Seq(Sth) /\ Len(served') = n + 1
      /\ \A p \in 1 .. n : served'[p] = served[p]
      /\ served'[n + 1] = sth
  BY <1>2
<1>4. \A p \in 1 .. n : served[p].time <= Serving.time /\ served[p].size <= Serving.size
  <2> SUFFICES ASSUME NEW p \in 1 .. n
               PROVE  served[p].time <= served[n].time /\ served[p].size <= served[n].size
    BY <1>2 DEF Serving, ServedAt
  <2>1. n \in 1 .. n /\ served[p] \in Sth /\ served[n] \in Sth
    BY <1>2
  <2>2. CASE p = n
    BY <2>1, <2>2, SthFields
  <2>3. CASE p < n
    BY <2>1, <2>3, SthFields DEF HeadInv, ServedHeadsGrow
  <2> QED
    BY <1>2, <2>2, <2>3
<1>5. Serving \in Sth \cup {NoSth}
  BY <1>2, ServedIsSth DEF Serving
<1>6. ServedHeadsGrow'
  <2> SUFFICES ASSUME NEW p \in 1 .. n + 1, NEW q \in 1 .. n + 1, p < q
               PROVE  /\ served'[p].time < served'[q].time
                      /\ served'[p].size <= served'[q].size
    BY <1>3 DEF ServedHeadsGrow
  <2>1. CASE q \in 1 .. n
    <3>1. p \in 1 .. n
      BY <2>1
    <3> QED
      BY <1>3, <2>1, <3>1 DEF HeadInv, ServedHeadsGrow
  <2>2. CASE q = n + 1
    <3>1. p \in 1 .. n /\ served[p] \in Sth
      BY <1>2, <2>2
    <3>2. served'[p] = served[p] /\ served'[q] = sth
      BY <1>3, <2>2, <3>1
    <3>3. served[p].time <= Serving.time /\ served[p].size <= Serving.size
      BY <1>4, <3>1
    <3> HIDE DEF n
    <3> QED
      BY <1>2, <1>5, <3>1, <3>2, <3>3, SthFields
  <2> QED
    BY <1>2, <2>1, <2>2
<1> QED
  BY <1>3, <1>6 DEF HeadInv

-----------------------------------------------------------------------------
(* TreeHeads: the inductive invariant. *)

Shape ==
    /\ size \in 0 .. MaxSize
    /\ newest \in Sth \cup {NoSth}
    /\ joined \in 0 .. Len(served)
    /\ actual \in 0 .. Len(served)
    /\ writing \in [Thread -> Sth \cup {NoSth}]

\* A process that starts has no newest head.
StartsWithout == starting => newest = NoSth

\* A head in the database was served at the latest when the process started, or
\* when the watch last delivered.
Stored(h) == \E p \in 1 .. Len(served) : served[p] = h /\ (p <= actual \/ p <= joined)

HeadsAreStored == \A h \in heads : Stored(h)

\* A head that a thread is about to write was delivered, and its entries are there.
Delivered(h) ==
    h # NoSth => h.size <= size /\ \E p \in 1 .. actual : served[p] = h

WritesAreDelivered == \A t \in Thread : Delivered(writing[t])

DatabaseInv ==
    /\ HeadInv /\ Shape /\ StartsWithout /\ HeadsAreStored /\ WritesAreDelivered
    /\ HeadsAreServable /\ NoCheckFails

-----------------------------------------------------------------------------
(* TreeHeads: no CHECK can fail. *)

LEMMA HeadsAreSth == ASSUME DatabaseInv PROVE heads \subseteq Sth
BY ServedIsSth DEF DatabaseInv, HeadsAreStored, Stored

LEMMA LatestIsHead ==
    ASSUME DatabaseInv, heads # {}
    PROVE  LatestTreeHead \in heads
<1>1. \E h \in heads : \A g \in heads : g.time <= h.time
  BY HeadsAreSth, NewestExists
<1> QED
  BY <1>1 DEF LatestTreeHead

\* The database is never ahead of what the watch delivers.
LEMMA DeliveryFollows ==
    ASSUME DatabaseInv, NEW p \in actual + 1 .. Len(served), p >= joined
    PROVE  FollowsDatabase(served[p])
<1>1. /\ Len(served) \in Nat /\ actual \in Nat /\ joined \in Nat
      /\ p \in 1 .. Len(served) /\ served[p] \in Sth
  BY ServedIsSth DEF DatabaseInv, Shape
<1>2. CASE heads = {}
  <2>1. LatestTreeHead = NoSth
    BY <1>2 DEF LatestTreeHead
  <2> QED
    BY <1>1, <2>1, SthFields DEF FollowsDatabase
<1>3. CASE heads # {}
  <2>1. PICK q \in 1 .. Len(served) :
           served[q] = LatestTreeHead /\ (q <= actual \/ q <= joined)
    BY <1>3, LatestIsHead DEF DatabaseInv, HeadsAreStored, Stored
  <2>2. q <= p /\ served[q] \in Sth
    BY <1>1, <2>1, ServedIsSth DEF DatabaseInv
  <2>3. CASE q = p
    BY <2>1, <2>3 DEF FollowsDatabase
  <2>4. CASE q < p
    <3>1. served[q].time < served[p].time /\ served[q].size <= served[p].size
      BY <1>1, <2>4 DEF DatabaseInv, HeadInv, ServedHeadsGrow
    <3> QED
      BY <1>1, <2>1, <2>2, <3>1, SthFields DEF FollowsDatabase
  <2> QED
    BY <1>1, <2>2, <2>3, <2>4
<1> QED
  BY <1>2, <1>3

\* No two heads that were served have the same timestamp.
LEMMA TimesDiffer ==
    ASSUME DatabaseInv, NEW p \in 1 .. Len(served), NEW q \in 1 .. Len(served),
           served[p].time = served[q].time
    PROVE  p = q
<1>1. Len(served) \in Nat /\ served[p] \in Sth /\ served[q] \in Sth
  BY ServedIsSth DEF DatabaseInv
<1>2. served[p].time \in Nat /\ served[q].time \in Nat
  BY <1>1, SthFields
<1>3. ~ (p < q) /\ ~ (q < p)
  BY <1>2 DEF DatabaseInv, HeadInv, ServedHeadsGrow
<1> QED
  BY <1>1, <1>3

-----------------------------------------------------------------------------
(* TreeHeads: one lemma for each action. *)

LEMMA InitInv == Init => DatabaseInv
<1> SUFFICES ASSUME Init PROVE DatabaseInv
  OBVIOUS
<1>1. HeadInv /\ Len(served) = 0
  BY HeadInitInv DEF Init, HeadInit
<1>2. Shape
  BY <1>1, HeadAssumption DEF Init, Shape, Nothing
<1>3. \A t \in Thread : writing[t] = NoSth
  BY DEF Init, Nothing
<1> QED
  BY <1>1, <1>2, <1>3 DEF Init, DatabaseInv, StartsWithout, HeadsAreStored,
     WritesAreDelivered, Delivered, HeadsAreServable, NoCheckFails

LEMMA ServingChangesInv == DatabaseInv /\ ServingChanges => DatabaseInv'
<1> SUFFICES ASSUME DatabaseInv, ServingChanges PROVE DatabaseInv'
  OBVIOUS
<1>1. HeadNext /\ UNCHANGED <<size, heads, newest, starting, joined, actual, writing,
                              restarts, checkFailed>>
  BY DEF ServingChanges
<1>2. /\ HeadInv' /\ Len(served') = Len(served) + 1 /\ Len(served) \in Nat
      /\ \A p \in 1 .. Len(served) : served'[p] = served[p]
  BY <1>1, HeadNextInv, ServedIsSth DEF DatabaseInv
<1>3. Shape'
  BY <1>1, <1>2 DEF DatabaseInv, Shape
<1>4. HeadsAreStored'
  BY <1>1, <1>2 DEF DatabaseInv, HeadsAreStored, Stored
<1>5. WritesAreDelivered'
  BY <1>1, <1>2 DEF DatabaseInv, WritesAreDelivered, Delivered, Shape
<1> QED
  BY <1>1, <1>2, <1>3, <1>4, <1>5
     DEF DatabaseInv, StartsWithout, HeadsAreServable, NoCheckFails

LEMMA EntryInv == DatabaseInv /\ CreateSequencedEntry => DatabaseInv'
<1> SUFFICES ASSUME DatabaseInv, CreateSequencedEntry PROVE DatabaseInv'
  OBVIOUS
<1>1. /\ size \in 0 .. MaxSize /\ size < MaxSize /\ size' = size + 1
      /\ UNCHANGED <<served, heads, newest, starting, joined, actual, writing, checkFailed>>
  BY DEF CreateSequencedEntry, DatabaseInv, Shape
<1>2. Shape' /\ HeadInv'
  BY <1>1, HeadAssumption DEF DatabaseInv, Shape, HeadInv, ServedHeadsGrow
<1>3. HeadsAreStored' /\ StartsWithout' /\ NoCheckFails'
  BY <1>1 DEF DatabaseInv, HeadsAreStored, Stored, StartsWithout, NoCheckFails
<1>4. WritesAreDelivered'
  BY <1>1, SthFields DEF DatabaseInv, WritesAreDelivered, Delivered, Shape
<1>5. HeadsAreServable'
  BY <1>1, HeadsAreSth, SthFields DEF DatabaseInv, HeadsAreServable
<1> QED
  BY <1>2, <1>3, <1>4, <1>5 DEF DatabaseInv

\* All that was stored was served before the process starts again.
LEMMA RestartInv == DatabaseInv /\ Restart => DatabaseInv'
<1> SUFFICES ASSUME DatabaseInv, Restart PROVE DatabaseInv'
  OBVIOUS
<1>1. /\ newest' = NoSth /\ starting' = TRUE /\ joined' = Len(served) /\ actual' = 0
      /\ writing' = Nothing /\ UNCHANGED <<served, size, heads, checkFailed>>
  BY DEF Restart, Reboot
<1>2. Len(served) \in Nat
  BY ServedIsSth DEF DatabaseInv
<1>3. Shape' /\ HeadInv'
  BY <1>1, <1>2 DEF DatabaseInv, Shape, HeadInv, ServedHeadsGrow, Nothing
<1>4. HeadsAreStored'
  BY <1>1, <1>2 DEF DatabaseInv, HeadsAreStored, Stored
<1>5. WritesAreDelivered'
  BY <1>1 DEF WritesAreDelivered, Delivered, Nothing
<1> QED
  BY <1>1, <1>3, <1>4, <1>5
     DEF DatabaseInv, StartsWithout, HeadsAreServable, NoCheckFails

LEMMA NewTreeHeadInv ==
    ASSUME DatabaseInv, NEW sth \in Sth, sth.size <= size, sth.time >= newest.time,
           NewTreeHead(sth)
    PROVE  DatabaseInv'
<1> DEFINE write == IF EnablesServing(sth) THEN ActualSth ELSE NoSth
<1>1. newest.time \in Nat /\ sth.time \in Nat
  BY SthFields DEF DatabaseInv, Shape
<1>2. /\ newest' = sth /\ starting' = FALSE
      /\ writing' = [writing EXCEPT !["signer"] = write]
      /\ UNCHANGED <<served, size, heads, joined, actual, checkFailed>>
  BY <1>1 DEF NewTreeHead
<1>3. ActualSth \in Sth \cup {NoSth}
  BY ServedIsSth DEF DatabaseInv, Shape, ActualSth
<1>4. Shape' /\ HeadInv'
  BY <1>2, <1>3, Zenon DEF DatabaseInv, Shape, HeadInv, ServedHeadsGrow
<1>5. EnablesServing(sth) => Delivered(ActualSth)
  <2> SUFFICES ASSUME EnablesServing(sth), ActualSth # NoSth PROVE Delivered(ActualSth)
    BY DEF Delivered
  <2>1. actual \in 1 .. actual /\ actual \in 1 .. Len(served) /\ sth.size >= ActualSth.size
    BY ServedIsSth DEF EnablesServing, DatabaseInv, Shape
  <2>2. served[actual] = ActualSth
    BY <2>1, ServedIsSth DEF ActualSth, DatabaseInv
  <2>3. ActualSth.size <= size
    BY <1>3, <2>1, SthFields DEF DatabaseInv, Shape
  <2> QED
    BY <2>1, <2>2, <2>3 DEF Delivered
<1>6. \A t \in Thread : \/ writing'[t] \in {writing[t], NoSth}
                        \/ writing'[t] = ActualSth /\ EnablesServing(sth)
  <2>1. write = NoSth \/ (write = ActualSth /\ EnablesServing(sth))
    OBVIOUS
  <2> HIDE DEF write
  <2>2. \A t \in Thread : writing'[t] = writing[t] \/ writing'[t] = write
    BY <1>2 DEF DatabaseInv, Shape
  <2> QED
    BY <2>1, <2>2, Zenon
<1>7. WritesAreDelivered'
  BY <1>2, <1>5, <1>6 DEF DatabaseInv, WritesAreDelivered, Delivered
<1> QED
  BY <1>2, <1>4, <1>7
     DEF DatabaseInv, StartsWithout, HeadsAreStored, Stored, HeadsAreServable, NoCheckFails

LEMMA InitialiseInv == DatabaseInv /\ Initialise => DatabaseInv'
<1> SUFFICES ASSUME DatabaseInv, Initialise PROVE DatabaseInv'
  OBVIOUS
<1>1. CASE heads # {}
  <2>1. LatestTreeHead \in heads /\ LatestTreeHead \in Sth
    BY <1>1, LatestIsHead, HeadsAreSth
  <2>2. LatestTreeHead.size <= size
    BY <2>1 DEF DatabaseInv, HeadsAreServable
  <2>3. LatestTreeHead.time >= newest.time
    BY <2>1, SthFields DEF Initialise, DatabaseInv, StartsWithout
  <2>4. NewTreeHead(LatestTreeHead)
    BY <1>1 DEF Initialise
  <2> QED
    BY <2>1, <2>2, <2>3, <2>4, NewTreeHeadInv
<1>2. CASE heads = {}
  <2>1. starting' = FALSE /\ UNCHANGED <<served, size, heads, newest, joined, actual,
                                         writing, checkFailed>>
    BY <1>2 DEF Initialise
  <2> QED
    BY <2>1 DEF DatabaseInv, HeadInv, ServedHeadsGrow, Shape, StartsWithout, HeadsAreStored,
       Stored, WritesAreDelivered, Delivered, HeadsAreServable, NoCheckFails
<1> QED
  BY <1>1, <1>2

LEMMA SignInv == DatabaseInv /\ SignMerkleTree => DatabaseInv'
<1> SUFFICES ASSUME DatabaseInv, SignMerkleTree PROVE DatabaseInv'
  OBVIOUS
<1>1. PICK time \in Timestamps(newest) : NewTreeHead([size |-> size, time |-> time])
  BY DEF SignMerkleTree
<1>2. newest \in Sth \cup {NoSth} /\ size \in 0 .. MaxSize
  BY DEF DatabaseInv, Shape
<1>3. newest.time \in 0 .. MaxTime
  BY <1>2, SthFields, HeadAssumption
<1>4. time \in 1 .. MaxTime /\ time >= newest.time
  BY <1>3, HeadAssumption DEF Timestamps
<1>5. [size |-> size, time |-> time] \in Sth
  BY <1>2, <1>4, HeadAssumption DEF Sth
<1> QED
  BY <1>1, <1>2, <1>4, <1>5, NewTreeHeadInv

LEMMA DeliveryInv == DatabaseInv /\ OnServingSthUpdated => DatabaseInv'
<1> SUFFICES ASSUME DatabaseInv, OnServingSthUpdated PROVE DatabaseInv'
  OBVIOUS
<1> DEFINE write(p) == IF CanBeWritten(served[p]) THEN served[p] ELSE NoSth
<1>1. PICK p \in actual + 1 .. Len(served) :
         /\ p >= joined
         /\ actual' = p
         /\ writing' = [writing EXCEPT !["watch"] = write(p)]
         /\ UNCHANGED <<served, size, heads, newest, starting, joined, checkFailed>>
  BY DeliveryFollows DEF OnServingSthUpdated
<1>2. /\ Len(served) \in Nat /\ actual \in Nat /\ joined \in Nat
      /\ p \in 1 .. Len(served) /\ actual < p /\ served[p] \in Sth
  BY ServedIsSth DEF DatabaseInv, Shape
<1>3. /\ write(p) \in Sth \cup {NoSth}
      /\ write(p) # NoSth => write(p) = served[p] /\ size >= served[p].size
  BY <1>2 DEF CanBeWritten
<1> HIDE DEF write
<1>4. HeadsAreStored'
  BY <1>1, <1>2 DEF DatabaseInv, HeadsAreStored, Stored
<1>5. \A t \in Thread : writing'[t] = writing[t] \/ writing'[t] = write(p)
  BY <1>1 DEF DatabaseInv, Shape
<1>6. WritesAreDelivered'
  <2> SUFFICES ASSUME NEW t \in Thread, writing'[t] # NoSth
               PROVE  writing'[t].size <= size /\ \E q \in 1 .. p : served[q] = writing'[t]
    BY <1>1 DEF WritesAreDelivered, Delivered
  <2>1. CASE writing'[t] = writing[t]
    BY <1>2, <2>1 DEF DatabaseInv, WritesAreDelivered, Delivered
  <2>2. CASE writing'[t] = served[p] /\ size >= served[p].size
    <3>1. served[p].size <= size
      BY <1>2, <2>2, SthFields DEF DatabaseInv, Shape
    <3> QED
      BY <1>2, <2>2, <3>1
  <2> QED
    BY <1>3, <1>5, <2>1, <2>2
<1>7. writing' \in [Thread -> Sth \cup {NoSth}]
  BY <1>1, <1>3, Zenon DEF DatabaseInv, Shape
<1>8. Shape'
  BY <1>1, <1>2, <1>7 DEF DatabaseInv, Shape
<1>9. HeadInv'
  BY <1>1 DEF DatabaseInv, HeadInv, ServedHeadsGrow
<1> QED
  BY <1>1, <1>4, <1>6, <1>8, <1>9 DEF DatabaseInv, StartsWithout, HeadsAreServable, NoCheckFails

LEMMA WriteInv ==
    ASSUME DatabaseInv, NEW thread \in Thread, WriteTreeHead(thread)
    PROVE  DatabaseInv'
<1> DEFINE sth == writing[thread]
<1>1. sth # NoSth
  BY DEF WriteTreeHead
<1>2. PICK p \in 1 .. actual : served[p] = sth
  BY <1>1 DEF DatabaseInv, WritesAreDelivered, Delivered
<1>3. p \in 1 .. Len(served) /\ p <= actual
  BY <1>2, ServedIsSth DEF DatabaseInv, Shape
<1>4. ~ \E h \in heads : h.time = sth.time /\ h # sth
  <2> SUFFICES ASSUME NEW h \in heads, h.time = sth.time PROVE h = sth
    BY Zenon
  <2>1. PICK q \in 1 .. Len(served) : served[q] = h
    BY DEF DatabaseInv, HeadsAreStored, Stored
  <2> QED
    BY <1>2, <1>3, <2>1, TimesDiffer
<1>5. /\ heads' = heads \cup {sth}
      /\ writing' = [writing EXCEPT ![thread] = NoSth]
      /\ UNCHANGED <<served, size, newest, starting, joined, actual, checkFailed>>
  BY <1>4 DEF WriteTreeHead
<1>6. Shape' /\ HeadInv'
  BY <1>5 DEF DatabaseInv, Shape, HeadInv, ServedHeadsGrow
<1>7. Stored(sth)
  BY <1>2, <1>3 DEF Stored
<1>8. HeadsAreStored'
  BY <1>5, <1>7 DEF DatabaseInv, HeadsAreStored, Stored
<1>9. HeadsAreServable'
  BY <1>1, <1>5 DEF DatabaseInv, HeadsAreServable, WritesAreDelivered, Delivered
<1>10. \A t \in Thread : writing'[t] = writing[t] \/ writing'[t] = NoSth
  BY <1>5 DEF DatabaseInv, Shape
<1>11. WritesAreDelivered'
  BY <1>5, <1>10 DEF DatabaseInv, WritesAreDelivered, Delivered
<1> QED
  BY <1>5, <1>6, <1>8, <1>9, <1>11 DEF DatabaseInv, StartsWithout, NoCheckFails

LEMMA DatabaseStep == DatabaseInv /\ [Next]_vars => DatabaseInv'
<1> SUFFICES ASSUME DatabaseInv, [Next]_vars PROVE DatabaseInv'
  OBVIOUS
<1>1. CASE \E thread \in Thread : WriteTreeHead(thread)
  BY <1>1, WriteInv
<1>2. CASE UNCHANGED vars
  BY <1>2 DEF vars, DatabaseInv, HeadInv, ServedHeadsGrow, Shape, StartsWithout,
     HeadsAreStored, Stored, WritesAreDelivered, Delivered, HeadsAreServable, NoCheckFails
<1> QED
  BY <1>1, <1>2, ServingChangesInv, EntryInv, RestartInv, InitialiseInv, SignInv,
     DeliveryInv DEF Next

-----------------------------------------------------------------------------
(* TreeHeads: the theorems. *)

(***************************************************************************)
(* However entries, trees and serving STHs reach a node, and whichever of  *)
(* its two threads writes first (NewTreeHead, OnServingSthUpdated), the    *)
(* tree heads in its database are of trees that it has in full.            *)
(***************************************************************************)
THEOREM HeadsServable == Spec => []HeadsAreServable
<1>1. DatabaseInv => HeadsAreServable
  BY DEF DatabaseInv
<1> QED
  BY <1>1, InitInv, DatabaseStep, PTL DEF Spec

(***************************************************************************)
(* The database holds no head but those that the cluster has served.       *)
(***************************************************************************)
THEOREM HeadsServed == Spec => []OnlyServedHeads
<1>1. DatabaseInv => OnlyServedHeads
  BY DEF DatabaseInv, HeadsAreStored, Stored, OnlyServedHeads
<1> QED
  BY <1>1, InitInv, DatabaseStep, PTL DEF Spec

(***************************************************************************)
(* No CHECK of NewTreeHead, OnServingSthUpdated or WriteTreeHead fails, as *)
(* long as the serving STH changes as ServingHead says, however often the  *)
(* process starts again.                                                   *)
(***************************************************************************)
THEOREM HeadsNeverFail == Spec => []NoCheckFails
<1>1. DatabaseInv => NoCheckFails
  BY DEF DatabaseInv
<1> QED
  BY <1>1, InitInv, DatabaseStep, PTL DEF Spec

-----------------------------------------------------------------------------
(* ThreadPool: the inductive invariant. *)

AnyEntry == [time : Nat, kind : {"closure", "delay"}, what : Job]
            \cup [time : {Epoch}, kind : {"exit"}, what : Worker]

AnyDoing == [pc : {"look", "wait", "exited"}]
            \cup [pc : {"wait_for"}, until : Nat]
            \cup [pc : {"run"}, what : Job]

PoolShape ==
    /\ clock \in Nat
    /\ queue \subseteq AnyEntry
    /\ worker \in [Worker -> AnyDoing]
    /\ job \in [Job -> {"new", "queued", "running", "ran", "cancelled"}]
    /\ pool \in {"open", "closing", "closed", "died"}

\* A job is queued while the queue has its entry, and there is one at most.
JobsAreThere ==
    /\ \A e, f \in queue : e.kind # "exit" /\ f.kind # "exit" /\ e.what = f.what => e = f
    /\ \A j \in Job : job[j] = "queued" <=> \E e \in queue : e.kind # "exit" /\ e.what = j
    /\ \A j \in Job : job[j] = "running" =>
          \E w \in Worker : worker[w].pc = "run" /\ worker[w].what = j

\* A worker runs a job that is running, and no other one does.
RunsAreTrue ==
    /\ \A w \in Worker : worker[w].pc = "run" => job[worker[w].what] = "running"
    /\ \A w, x \in Worker :
          worker[w].pc = "run" /\ worker[x].pc = "run" /\ worker[w].what = worker[x].what =>
              w = x

\* Empty closures come from the destructor, which then waits for the workers.
ClosingIsLast ==
    /\ \A e \in queue : e.kind = "exit" => pool # "open"
    /\ pool \in {"closed", "died"} => \A w \in Worker : worker[w].pc = "exited"
    /\ pool = "closed" => queue = {}

PoolInv ==
    PoolShape /\ JobsAreThere /\ RunsAreTrue /\ ClosingIsLast /\ SomeoneWatches

-----------------------------------------------------------------------------
(* ThreadPool: lemmas. *)

LEMMA EntryFields ==
    ASSUME NEW e \in AnyEntry
    PROVE  /\ e.time \in Nat
           /\ e.kind \in {"closure", "delay", "exit"}
           /\ e.kind # "exit" => e.what \in Job
BY DEF AnyEntry, Epoch

LEMMA RunsJob ==
    ASSUME PoolShape, NEW w \in Worker, worker[w].pc = "run"
    PROVE  worker[w].what \in Job
BY DEF PoolShape, AnyDoing

\* A queue that is not empty has a top.
LEMMA TopExists ==
    ASSUME PoolShape, queue # {}
    PROVE  Top # {}
<1> DEFINE T == {e.time : e \in queue}
<1>1. T \subseteq Nat /\ T # {}
  BY EntryFields DEF PoolShape
<1>2. PICK t \in T : \A u \in T : t <= u
  <2> HIDE DEF T
  <2> QED
    BY <1>1, LeastExists, Zenon
<1>3. PICK e \in queue : e.time = t
  BY <1>2
<1>4. \A f \in queue : e.time <= f.time
  BY <1>2, <1>3
<1> QED
  BY <1>4 DEF Top

\* notify_one wakes a worker, unless all are awake.
LEMMA NotifyWakes ==
    ASSUME PoolShape, Worker # {}, NotifyOne
    PROVE  /\ worker' \in [Worker -> AnyDoing]
           /\ \A w \in Worker : \/ worker'[w] = worker[w]
                                \/ Asleep(w) /\ worker'[w] = [pc |-> "look"]
           /\ \E w \in Worker : worker'[w].pc \notin {"wait", "wait_for"}
<1>1. worker \in [Worker -> AnyDoing] /\ [pc |-> "look"] \in AnyDoing
  BY DEF PoolShape, AnyDoing
<1>2. CASE \E w \in Worker : Asleep(w)
  <2>1. PICK w \in Worker : Asleep(w) /\ worker' = Woken({w})
    BY <1>2 DEF NotifyOne
  <2>2. worker' = [x \in Worker |-> IF x = w THEN [pc |-> "look"] ELSE worker[x]]
    BY <2>1 DEF Woken
  <2> QED
    BY <1>1, <2>1, <2>2
<1>3. CASE ~\E w \in Worker : Asleep(w)
  BY <1>1, <1>3 DEF NotifyOne, Asleep
<1> QED
  BY <1>2, <1>3

\* A new entry for a job that had none.
LEMMA AddInv ==
    ASSUME PoolInv, Worker # {}, NEW j \in Job, NEW e \in AnyEntry,
           pool = "open", job[j] = "new", e.kind # "exit", e.what = j,
           queue' = queue \cup {e}, job' = [job EXCEPT ![j] = "queued"],
           NotifyOne, UNCHANGED <<clock, pool>>
    PROVE  PoolInv'
<1>1. PoolShape /\ JobsAreThere /\ RunsAreTrue /\ ClosingIsLast
  BY DEF PoolInv
<1>2. /\ worker' \in [Worker -> AnyDoing]
      /\ \A w \in Worker : \/ worker'[w] = worker[w]
                           \/ Asleep(w) /\ worker'[w] = [pc |-> "look"]
      /\ \E w \in Worker : worker'[w].pc \notin {"wait", "wait_for"}
  BY <1>1, NotifyWakes
<1>3. PoolShape'
  BY <1>1, <1>2 DEF PoolShape
<1>4. \A f \in queue : f.kind # "exit" => f.what # j
  BY <1>1 DEF JobsAreThere
<1>5. JobsAreThere'
  <2>1. \A d, f \in queue' : d.kind # "exit" /\ f.kind # "exit" /\ d.what = f.what => d = f
    BY <1>1, <1>4 DEF JobsAreThere
  <2>2. ASSUME NEW k \in Job
        PROVE  job'[k] = "queued" <=> \E d \in queue' : d.kind # "exit" /\ d.what = k
    BY <1>1, <1>4 DEF JobsAreThere, PoolShape
  <2>3. ASSUME NEW k \in Job, job'[k] = "running"
        PROVE  \E w \in Worker : worker'[w].pc = "run" /\ worker'[w].what = k
    <3>1. job[k] = "running"
      BY <1>1, <2>3 DEF PoolShape
    <3>2. PICK w \in Worker : worker[w].pc = "run" /\ worker[w].what = k
      BY <1>1, <3>1 DEF JobsAreThere
    <3>3. worker'[w] = worker[w]
      BY <1>2, <3>2 DEF Asleep
    <3> QED
      BY <3>2, <3>3
  <2> QED
    BY <2>1, <2>2, <2>3 DEF JobsAreThere
<1>6. ClosingIsLast'
  BY <1>1 DEF ClosingIsLast
<1>7. SomeoneWatches'
  BY <1>2 DEF SomeoneWatches, Asleep
<1>8. RunsAreTrue'
  <2>1. ASSUME NEW w \in Worker, worker'[w].pc = "run"
        PROVE  worker[w] = worker'[w] /\ worker[w].what \in Job
    BY <1>1, <1>2, <2>1, RunsJob
  <2>2. ASSUME NEW w \in Worker, worker'[w].pc = "run"
        PROVE  job'[worker'[w].what] = "running"
    BY <1>1, <2>1, <2>2 DEF RunsAreTrue, PoolShape
  <2> QED
    BY <1>1, <2>1, <2>2 DEF RunsAreTrue
<1> QED
  BY <1>3, <1>5, <1>6, <1>7, <1>8 DEF PoolInv

\* A worker falls asleep or wakes up; it sleeps no longer than the queue allows.
LEMMA RestInv ==
    ASSUME PoolInv, NEW w \in Worker, NEW doing \in AnyDoing,
           worker[w].pc \in {"look", "wait", "wait_for"},
           doing.pc \in {"look", "wait", "wait_for"},
           worker' = [worker EXCEPT ![w] = doing],
           doing.pc = "wait" => queue = {},
           doing.pc = "wait_for" => \A e \in Top : doing.until <= e.time,
           UNCHANGED <<clock, queue, job, pool>>
    PROVE  PoolInv'
<1>1. PoolShape /\ JobsAreThere /\ RunsAreTrue /\ ClosingIsLast
  BY DEF PoolInv
<1>2. worker'[w] = doing /\ \A x \in Worker : x # w => worker'[x] = worker[x]
  BY <1>1 DEF PoolShape
<1>3. PoolShape'
  BY <1>1 DEF PoolShape
<1>4. JobsAreThere'
  <2>1. ASSUME NEW k \in Job, job[k] = "running"
        PROVE  \E x \in Worker : worker'[x].pc = "run" /\ worker'[x].what = k
    <3>1. PICK x \in Worker : worker[x].pc = "run" /\ worker[x].what = k
      BY <1>1, <2>1 DEF JobsAreThere
    <3> QED
      BY <1>2, <3>1
  <2> QED
    BY <1>1, <2>1 DEF JobsAreThere
<1>5. ClosingIsLast'
  BY <1>1 DEF ClosingIsLast
<1>6. SomeoneWatches'
  <2> SUFFICES ASSUME queue # {}
               PROVE  \/ doing.pc = "look"
                      \/ doing.pc = "wait_for" /\ \A e \in Top : doing.until <= e.time
    BY <1>2 DEF SomeoneWatches, Asleep, Top
  <2> QED
    OBVIOUS
<1>7. RunsAreTrue'
  BY <1>1, <1>2 DEF RunsAreTrue
<1> QED
  BY <1>3, <1>4, <1>5, <1>6, <1>7 DEF PoolInv

LEMMA SleepInv ==
    ASSUME PoolInv, NEW w \in Worker, Sleep(w) \/ Timeout(w) \/ SpuriousWakeup(w)
    PROVE  PoolInv'
<1>1. PoolShape
  BY DEF PoolInv
<1>2. CASE Sleep(w)
  <2> DEFINE top == CHOOSE e \in Top : TRUE
             doing == IF queue = {} THEN [pc |-> "wait"]
                      ELSE [pc |-> "wait_for", until |-> top.time]
  <2>1. /\ worker[w].pc = "look" /\ worker' = [worker EXCEPT ![w] = doing]
        /\ UNCHANGED <<clock, queue, job, pool>>
    BY <1>2 DEF Sleep
  <2>2. CASE queue = {}
    <3>1. doing = [pc |-> "wait"]
      BY <2>2
    <3>2. doing \in AnyDoing /\ doing.pc = "wait"
      BY <3>1 DEF AnyDoing
    <3> HIDE DEF doing
    <3> QED
      BY <2>1, <2>2, <3>2, RestInv, Zenon
  <2>3. CASE queue # {}
    <3>1. top \in Top
      BY <1>1, <2>3, TopExists
    <3>2. top \in queue /\ \A e \in Top : top.time <= e.time
      BY <3>1 DEF Top
    <3>3. top.time \in Nat
      BY <1>1, <3>2, EntryFields DEF PoolShape
    <3> HIDE DEF top
    <3>4. doing = [pc |-> "wait_for", until |-> top.time]
      BY <2>3
    <3>5. doing \in AnyDoing /\ doing.pc = "wait_for" /\ doing.until = top.time
      BY <3>3, <3>4 DEF AnyDoing
    <3> HIDE DEF doing
    <3> QED
      BY <2>1, <3>2, <3>5, RestInv, Zenon
  <2> QED
    BY <2>2, <2>3
<1>3. CASE Timeout(w) \/ SpuriousWakeup(w)
  <2> DEFINE doing == [pc |-> "look"]
  <2>1. doing \in AnyDoing /\ doing.pc = "look"
    BY DEF AnyDoing
  <2>2. worker' = [worker EXCEPT ![w] = doing]
    BY <1>1, <1>3 DEF Timeout, SpuriousWakeup, Woken, PoolShape
  <2>3. worker[w].pc \in {"wait", "wait_for"} /\ UNCHANGED <<clock, queue, job, pool>>
    BY <1>3 DEF Timeout, SpuriousWakeup, Asleep
  <2> HIDE DEF doing
  <2> QED
    BY <2>1, <2>2, <2>3, RestInv, Zenon
<1> QED
  BY <1>2, <1>3

LEMMA PopInv ==
    ASSUME PoolInv, NEW w \in Worker, Pop(w)
    PROVE  PoolInv'
<1>1. PoolShape /\ JobsAreThere /\ RunsAreTrue /\ ClosingIsLast /\ worker[w].pc = "look"
  BY DEF PoolInv, Pop
<1>2. PICK e \in queue :
         /\ e.kind # "exit"
         /\ queue' = queue \ {e}
         /\ worker' = [worker EXCEPT ![w] = [pc |-> "run", what |-> e.what]]
         /\ job' = [job EXCEPT ![e.what] = "running"]
         /\ UNCHANGED <<clock, pool>>
  BY Zenon DEF Pop, Top
<1>3. e.what \in Job
  BY <1>1, <1>2, EntryFields DEF PoolShape
<1>4. /\ [pc |-> "run", what |-> e.what] \in AnyDoing
      /\ worker'[w] = [pc |-> "run", what |-> e.what]
      /\ \A x \in Worker : x # w => worker'[x] = worker[x]
      /\ job'[e.what] = "running" /\ \A j \in Job : j # e.what => job'[j] = job[j]
  BY <1>1, <1>2, <1>3 DEF PoolShape, AnyDoing
<1>5. PoolShape'
  BY <1>1, <1>2, <1>3, <1>4 DEF PoolShape
<1>6. JobsAreThere'
  <2>1. ASSUME NEW j \in Job
        PROVE  job'[j] = "queued" <=> \E d \in queue' : d.kind # "exit" /\ d.what = j
    BY <1>1, <1>2, <1>4 DEF JobsAreThere
  <2>2. ASSUME NEW j \in Job, job'[j] = "running"
        PROVE  \E x \in Worker : worker'[x].pc = "run" /\ worker'[x].what = j
    <3>1. CASE j = e.what
      BY <1>4, <3>1
    <3>2. CASE j # e.what
      <4>1. PICK x \in Worker : worker[x].pc = "run" /\ worker[x].what = j
        BY <1>1, <1>4, <2>2, <3>2 DEF JobsAreThere
      <4> QED
        BY <1>1, <1>4, <4>1
    <3> QED
      BY <3>1, <3>2
  <2>3. \A d, f \in queue' : d.kind # "exit" /\ f.kind # "exit" /\ d.what = f.what => d = f
    BY <1>1, <1>2 DEF JobsAreThere
  <2> QED
    BY <2>1, <2>2, <2>3 DEF JobsAreThere
<1>7. ClosingIsLast'
  BY <1>1, <1>2 DEF ClosingIsLast
<1>8. SomeoneWatches'
  BY <1>4 DEF SomeoneWatches, Asleep
<1>9. RunsAreTrue'
  <2>1. job[e.what] = "queued"
    BY <1>1, <1>2, <1>3 DEF JobsAreThere
  <2>2. ASSUME NEW x \in Worker, x # w, worker'[x].pc = "run"
        PROVE  /\ worker'[x] = worker[x] /\ worker[x].what # e.what
               /\ job'[worker[x].what] = "running"
    <3>1. worker'[x] = worker[x] /\ worker[x].pc = "run"
      BY <1>4, <2>2
    <3>2. worker[x].what \in Job /\ job[worker[x].what] = "running"
      BY <1>1, <3>1, RunsJob DEF RunsAreTrue
    <3> QED
      BY <1>4, <2>1, <3>1, <3>2
  <2>3. worker'[w].what = e.what /\ job'[worker'[w].what] = "running"
    BY <1>4
  <2>4. ASSUME NEW x \in Worker, NEW y \in Worker, worker'[x].pc = "run",
               worker'[y].pc = "run", worker'[x].what = worker'[y].what
        PROVE  x = y
    BY <1>1, <2>2, <2>3, <2>4 DEF RunsAreTrue
  <2>5. ASSUME NEW x \in Worker, worker'[x].pc = "run"
        PROVE  job'[worker'[x].what] = "running"
    BY <2>2, <2>3, <2>5
  <2> QED
    BY <2>4, <2>5 DEF RunsAreTrue
<1> QED
  BY <1>5, <1>6, <1>7, <1>8, <1>9 DEF PoolInv

\* An empty closure is popped by a worker while the destructor waits.
LEMMA ExitIsClosing ==
    ASSUME PoolInv, NEW w \in Worker, Exit(w)
    PROVE  pool = "closing"
BY DEF PoolInv, PoolShape, ClosingIsLast, Exit, Top

LEMMA ExitInv ==
    ASSUME PoolInv, NEW w \in Worker, Exit(w)
    PROVE  PoolInv'
<1>1. PoolShape /\ JobsAreThere /\ RunsAreTrue /\ ClosingIsLast /\ worker[w].pc = "look"
      /\ pool = "closing"
  BY ExitIsClosing, Zenon DEF PoolInv, Exit
<1>2. PICK e \in queue, gone \in SUBSET queue :
         /\ e.kind = "exit"
         /\ \A f \in gone : f.kind = "delay"
         /\ queue' = (queue \ {e}) \ gone
         /\ job' = [j \in Job |-> IF \E f \in gone : f.what = j THEN "cancelled" ELSE job[j]]
  <2>1. PICK e \in Top :
           /\ e.kind = "exit"
           /\ LET q == queue \ {e}
                  ties == {f \in q : f.kind = "delay" /\ \A g \in q :
                               g.time < f.time => g.kind = "delay"} \ Drained(q)
              IN  \E gone \in {Drained(q) \cup x : x \in SUBSET ties} :
                   /\ queue' = q \ gone
                   /\ job' = [j \in Job |-> IF \E f \in gone : f.what = j
                                            THEN "cancelled" ELSE job[j]]
    BY Zenon DEF Exit
  <2> DEFINE q == queue \ {e}
             ties == {f \in q : f.kind = "delay" /\ \A g \in q :
                          g.time < f.time => g.kind = "delay"} \ Drained(q)
  <2>2. PICK gone \in {Drained(q) \cup x : x \in SUBSET ties} :
           /\ queue' = q \ gone
           /\ job' = [j \in Job |-> IF \E f \in gone : f.what = j THEN "cancelled" ELSE job[j]]
    BY <2>1, Zenon
  <2>3. /\ Drained(q) \subseteq q /\ \A f \in Drained(q) : f.kind = "delay"
        /\ ties \subseteq q /\ \A f \in ties : f.kind = "delay"
    BY DEF Drained
  <2>4. e \in queue
    BY DEF Top
  <2> HIDE DEF ties
  <2>5. PICK x \in SUBSET ties : gone = Drained(q) \cup x
    BY <2>2
  <2>6. gone \in SUBSET queue /\ \A f \in gone : f.kind = "delay"
    BY <2>3, <2>5, Zenon
  <2> QED
    BY <2>1, <2>2, <2>4, <2>6
<1>3. /\ worker' = [worker EXCEPT ![w] = [pc |-> "exited"]] /\ UNCHANGED <<clock, pool>>
      /\ [pc |-> "exited"] \in AnyDoing
  BY DEF Exit, AnyDoing
<1>4. worker'[w] = [pc |-> "exited"] /\ \A x \in Worker : x # w => worker'[x] = worker[x]
  BY <1>1, <1>3 DEF PoolShape
<1>5. PoolShape'
  BY <1>1, <1>2, <1>3 DEF PoolShape
<1>6. JobsAreThere'
  <2>1. ASSUME NEW j \in Job
        PROVE  job'[j] = "queued" <=> \E d \in queue' : d.kind # "exit" /\ d.what = j
    <3>1. CASE \E f \in gone : f.what = j
      <4>1. PICK f \in gone : f.what = j
        BY <3>1
      <4>2. f \in queue /\ f.kind # "exit" /\ job'[j] = "cancelled"
        BY <1>2, <4>1
      <4>3. ASSUME NEW d \in queue', d.kind # "exit", d.what = j
            PROVE  FALSE
        BY <1>1, <1>2, <4>1, <4>2, <4>3 DEF JobsAreThere
      <4> QED
        BY <4>2, <4>3
    <3>2. CASE ~\E f \in gone : f.what = j
      BY <1>1, <1>2, <3>2 DEF JobsAreThere
    <3> QED
      BY <3>1, <3>2
  <2>2. ASSUME NEW j \in Job, job'[j] = "running"
        PROVE  \E x \in Worker : worker'[x].pc = "run" /\ worker'[x].what = j
    <3>1. job[j] = "running"
      BY <1>2, <2>2
    <3>2. PICK x \in Worker : worker[x].pc = "run" /\ worker[x].what = j
      BY <1>1, <3>1 DEF JobsAreThere
    <3> QED
      BY <1>1, <1>4, <3>2
  <2>3. \A d, f \in queue' : d.kind # "exit" /\ f.kind # "exit" /\ d.what = f.what => d = f
    BY <1>1, <1>2 DEF JobsAreThere
  <2> QED
    BY <2>1, <2>2, <2>3 DEF JobsAreThere
<1>7. ClosingIsLast' /\ SomeoneWatches'
  BY <1>1, <1>3 DEF ClosingIsLast, SomeoneWatches
<1>8. RunsAreTrue'
  <2>1. ASSUME NEW x \in Worker, worker'[x].pc = "run"
        PROVE  worker'[x] = worker[x] /\ job'[worker[x].what] = "running"
    <3>1. worker'[x] = worker[x] /\ worker[x].pc = "run"
      BY <1>4, <2>1
    <3>2. worker[x].what \in Job /\ job[worker[x].what] = "running"
      BY <1>1, <3>1, RunsJob DEF RunsAreTrue
    <3>3. ~\E f \in gone : f.what = worker[x].what
      BY <1>1, <1>2, <3>2 DEF JobsAreThere
    <3> QED
      BY <1>2, <3>1, <3>2, <3>3
  <2> QED
    BY <1>1, <2>1 DEF RunsAreTrue
<1> QED
  BY <1>5, <1>6, <1>7, <1>8 DEF PoolInv

LEMMA FinishInv ==
    ASSUME PoolInv, NEW w \in Worker, Finish(w)
    PROVE  PoolInv'
<1> DEFINE j == worker[w].what
<1>1. PoolShape /\ JobsAreThere /\ RunsAreTrue /\ ClosingIsLast
  BY DEF PoolInv
<1>2. /\ worker[w].pc = "run" /\ j \in Job /\ job[j] = "running"
      /\ job' = [job EXCEPT ![j] = "ran"]
      /\ worker' = [worker EXCEPT ![w] = [pc |-> "look"]]
      /\ UNCHANGED <<clock, queue, pool>>
  BY <1>1, RunsJob DEF Finish, RunsAreTrue
<1>3. /\ [pc |-> "look"] \in AnyDoing /\ worker'[w] = [pc |-> "look"]
      /\ \A x \in Worker : x # w => worker'[x] = worker[x]
      /\ job'[j] = "ran" /\ \A k \in Job : k # j => job'[k] = job[k]
  BY <1>1, <1>2 DEF PoolShape, AnyDoing
<1> HIDE DEF j
<1>4. PoolShape'
  BY <1>1, <1>2, <1>3 DEF PoolShape
<1>5. JobsAreThere'
  <2>1. ASSUME NEW k \in Job, job'[k] = "running"
        PROVE  \E x \in Worker : worker'[x].pc = "run" /\ worker'[x].what = k
    <3>1. k # j /\ job[k] = "running"
      BY <1>3, <2>1
    <3>2. PICK x \in Worker : worker[x].pc = "run" /\ worker[x].what = k
      BY <1>1, <3>1 DEF JobsAreThere
    <3> QED
      BY <1>3, <3>1, <3>2 DEF j
  <2>2. \A k \in Job : job'[k] = "queued" <=> job[k] = "queued"
    BY <1>2, <1>3
  <2> QED
    BY <1>1, <1>2, <2>1, <2>2 DEF JobsAreThere
<1>6. RunsAreTrue'
  <2>1. ASSUME NEW x \in Worker, worker'[x].pc = "run"
        PROVE  worker'[x] = worker[x] /\ job'[worker[x].what] = "running"
    <3>1. x # w /\ worker'[x] = worker[x] /\ worker[x].pc = "run"
      BY <1>3, <2>1
    <3>2. worker[x].what # j /\ worker[x].what \in Job /\ job[worker[x].what] = "running"
      BY <1>1, <1>2, <3>1, RunsJob DEF RunsAreTrue, j
    <3> QED
      BY <1>3, <3>1, <3>2
  <2> QED
    BY <1>1, <2>1 DEF RunsAreTrue
<1>7. ClosingIsLast' /\ SomeoneWatches'
  BY <1>1, <1>2, <1>3 DEF ClosingIsLast, SomeoneWatches, Asleep
<1> QED
  BY <1>4, <1>5, <1>6, <1>7 DEF PoolInv

LEMMA CloseInv ==
    ASSUME PoolInv, Close
    PROVE  PoolInv'
<1> DEFINE exits == [time : {Epoch}, kind : {"exit"}, what : Worker]
<1>1. PoolShape /\ JobsAreThere /\ RunsAreTrue /\ ClosingIsLast
  BY DEF PoolInv
<1>2. /\ pool' = "closing" /\ queue' = queue \cup exits /\ UNCHANGED <<clock, job>>
      /\ worker' = [w \in Worker |-> IF Asleep(w) THEN [pc |-> "look"] ELSE worker[w]]
  BY DEF Close, Woken
<1>3. exits \subseteq AnyEntry /\ \A e \in exits : e.kind = "exit"
  BY DEF AnyEntry
<1> HIDE DEF exits
<1>4. \A w \in Worker : /\ worker'[w] = worker[w] \/ worker'[w] = [pc |-> "look"]
                        /\ worker[w].pc = "run" => worker'[w] = worker[w]
  BY <1>2, Zenon DEF Asleep
<1>5. PoolShape'
  BY <1>1, <1>2, <1>3 DEF PoolShape, AnyDoing
<1>6. JobsAreThere'
  <2>1. ASSUME NEW k \in Job, job[k] = "running"
        PROVE  \E x \in Worker : worker'[x].pc = "run" /\ worker'[x].what = k
    <3>1. PICK x \in Worker : worker[x].pc = "run" /\ worker[x].what = k
      BY <1>1, <2>1 DEF JobsAreThere
    <3> QED
      BY <1>4, <3>1
  <2> QED
    BY <1>1, <1>2, <1>3, <2>1 DEF JobsAreThere
<1>7. RunsAreTrue'
  BY <1>1, <1>2, <1>4 DEF RunsAreTrue
<1>8. ClosingIsLast' /\ SomeoneWatches'
  BY <1>2, Zenon DEF ClosingIsLast, SomeoneWatches
<1> QED
  BY <1>5, <1>6, <1>7, <1>8 DEF PoolInv

LEMMA PoolStep ==
    ASSUME PoolInv, Worker # {}, [PoolNext]_poolVars
    PROVE  PoolInv'
<1>1. CASE UNCHANGED poolVars
  <2>1. UNCHANGED <<clock, queue, worker, job, pool>>
    BY <1>1 DEF poolVars
  <2>2. PoolShape'
    BY <2>1 DEF PoolInv, PoolShape
  <2>3. JobsAreThere'
    BY <2>1 DEF PoolInv, JobsAreThere
  <2>4. RunsAreTrue'
    BY <2>1 DEF PoolInv, RunsAreTrue
  <2>5. ClosingIsLast'
    BY <2>1 DEF PoolInv, ClosingIsLast
  <2>6. SomeoneWatches'
    BY <2>1 DEF PoolInv, SomeoneWatches, Asleep, Top
  <2> QED
    BY <2>2, <2>3, <2>4, <2>5, <2>6 DEF PoolInv
<1>2. ASSUME NEW j \in Job, Add(j)
      PROVE  PoolInv'
  <2> DEFINE e == [time |-> clock, kind |-> "closure", what |-> j]
  <2>1. e \in AnyEntry /\ e.kind # "exit" /\ e.what = j
    BY DEF PoolInv, PoolShape, AnyEntry
  <2>2. /\ pool = "open" /\ job[j] = "new" /\ queue' = queue \cup {e}
        /\ job' = [job EXCEPT ![j] = "queued"] /\ NotifyOne /\ UNCHANGED <<clock, pool>>
    BY <1>2 DEF Add
  <2> HIDE DEF e
  <2> QED
    BY <2>1, <2>2, AddInv, Zenon
<1>3. ASSUME NEW j \in Job, Delay(j)
      PROVE  PoolInv'
  <2>1. PICK t \in clock .. MaxClock :
           queue' = queue \cup {[time |-> t, kind |-> "delay", what |-> j]}
    BY <1>3 DEF Delay
  <2> DEFINE e == [time |-> t, kind |-> "delay", what |-> j]
  <2>2. clock \in Nat /\ t \in Nat
    BY <2>1 DEF PoolInv, PoolShape
  <2>3. e \in AnyEntry /\ e.kind # "exit" /\ e.what = j
    BY <2>2 DEF AnyEntry
  <2>4. /\ pool = "open" /\ job[j] = "new" /\ queue' = queue \cup {e}
        /\ job' = [job EXCEPT ![j] = "queued"] /\ NotifyOne /\ UNCHANGED <<clock, pool>>
    BY <1>3, <2>1 DEF Delay
  <2> HIDE DEF e
  <2> QED
    BY <2>3, <2>4, AddInv, Zenon
<1>4. CASE Join
  <2>1. /\ UNCHANGED <<clock, queue, worker, job>>
        /\ pool # "open" /\ pool' \in {"closed", "died"}
        /\ \A w \in Worker : worker[w].pc = "exited"
        /\ pool' = "closed" => queue = {}
    BY <1>4 DEF Join
  <2>2. PoolShape' /\ ClosingIsLast'
    BY <2>1 DEF PoolInv, PoolShape, ClosingIsLast
  <2>3. JobsAreThere'
    BY <2>1 DEF PoolInv, JobsAreThere
  <2>4. RunsAreTrue'
    BY <2>1 DEF PoolInv, RunsAreTrue
  <2>5. SomeoneWatches'
    BY <2>1 DEF SomeoneWatches
  <2> QED
    BY <2>2, <2>3, <2>4, <2>5 DEF PoolInv
<1>5. CASE Tick
  <2>1. clock' \in Nat /\ UNCHANGED <<queue, worker, job, pool>>
    BY <1>5 DEF Tick, PoolInv, PoolShape
  <2>2. PoolShape'
    BY <2>1 DEF PoolInv, PoolShape
  <2>3. JobsAreThere'
    BY <2>1 DEF PoolInv, JobsAreThere
  <2>4. RunsAreTrue'
    BY <2>1 DEF PoolInv, RunsAreTrue
  <2>5. ClosingIsLast'
    BY <2>1 DEF PoolInv, ClosingIsLast
  <2>6. SomeoneWatches'
    BY <2>1 DEF PoolInv, SomeoneWatches, Asleep, Top
  <2> QED
    BY <2>2, <2>3, <2>4, <2>5, <2>6 DEF PoolInv
<1> QED
  BY <1>1, <1>2, <1>3, <1>4, <1>5, SleepInv, PopInv, ExitInv, FinishInv, CloseInv, Zenon
  DEF PoolNext, Work

LEMMA PoolInitInv == PoolInit => PoolInv
<1> SUFFICES ASSUME PoolInit PROVE PoolInv
  OBVIOUS
<1>1. /\ clock \in Nat /\ queue = {} /\ pool = "open"
      /\ worker = [w \in Worker |-> [pc |-> "look"]] /\ job = [j \in Job |-> "new"]
  BY DEF PoolInit
<1>2. PoolShape
  BY <1>1 DEF PoolShape, AnyDoing
<1>3. JobsAreThere
  BY <1>1 DEF JobsAreThere
<1>4. RunsAreTrue
  BY <1>1 DEF RunsAreTrue
<1>5. ClosingIsLast
  BY <1>1 DEF ClosingIsLast
<1>6. SomeoneWatches
  BY <1>1 DEF SomeoneWatches
<1> QED
  BY <1>2, <1>3, <1>4, <1>5, <1>6 DEF PoolInv

-----------------------------------------------------------------------------
(* ThreadPool: the theorems. *)

\* The constructor checks that there is a thread (CHECK_GT(num_threads, 0)).
LEMMA PoolInvariant == ASSUME Worker # {} PROVE PoolSpec => []PoolInv
<1>1. PoolInv /\ [PoolNext]_poolVars => PoolInv'
  BY PoolStep
<1> QED
  BY <1>1, PoolInitInv, PTL DEF PoolSpec

(***************************************************************************)
(* No wakeup is lost: while there is something in the queue of an open     *)
(* pool, a worker is awake or wakes up in time (the loop of Worker and the *)
(* notify_one of Add and Delay).                                           *)
(***************************************************************************)
THEOREM NoLostWakeup == ASSUME Worker # {} PROVE PoolSpec => []SomeoneWatches
<1>1. PoolInv => SomeoneWatches
  BY DEF PoolInv
<1> QED
  BY <1>1, PoolInvariant, PTL

(***************************************************************************)
(* A pool that was destroyed has left no job behind, and no thread in the  *)
(* middle of one (the draining of the queue by Worker, the joins of ~Impl). *)
(***************************************************************************)
THEOREM DestroyedClean == ASSUME Worker # {} PROVE PoolSpec => []ClosedIsClean
<1>1. PoolInv => ClosedIsClean
  <2> SUFFICES ASSUME PoolInv, pool = "closed", NEW j \in Job
               PROVE  job[j] \in {"new", "ran", "cancelled"}
    BY DEF ClosedIsClean
  <2>1. queue = {} /\ \A w \in Worker : worker[w].pc = "exited"
    BY DEF PoolInv, ClosingIsLast
  <2>2. job[j] # "queued" /\ job[j] # "running"
    BY <2>1 DEF PoolInv, JobsAreThere
  <2> QED
    BY <2>2 DEF PoolInv, PoolShape
<1> QED
  BY <1>1, PoolInvariant, PTL

(***************************************************************************)
(* No step starts a job before its time, and a delayed task is returned as *)
(* CANCELLED only while the destructor waits (Worker).                     *)
(***************************************************************************)
THEOREM StartsInTime == ASSUME Worker # {} PROVE PoolSpec => [][NeverEarly]_poolVars
<1>1. PoolInv /\ [PoolNext]_poolVars => [NeverEarly]_poolVars
  <2> SUFFICES ASSUME PoolInv, PoolNext, NEW j \in Job
               PROVE  /\ job'[j] = "running" /\ job[j] = "queued" =>
                            \A e \in queue : e.what = j => e.time <= clock
                      /\ job'[j] = "cancelled" /\ job[j] # "cancelled" => pool = "closing"
    BY DEF NeverEarly
  <2>1. PoolShape /\ JobsAreThere
    BY DEF PoolInv
  <2>2. ASSUME NEW w \in Worker, Pop(w), job'[j] = "running", job[j] = "queued",
               NEW e \in queue, e.what = j
        PROVE  e.time <= clock
    <3>1. PICK f \in queue : /\ f.time <= clock /\ f.kind # "exit"
                             /\ job' = [job EXCEPT ![f.what] = "running"]
      BY <2>2, Zenon DEF Pop, Top
    <3>2. f.what = j
      BY <2>1, <2>2, <3>1, EntryFields DEF PoolShape
    <3>3. CASE e.kind # "exit"
      BY <2>1, <2>2, <3>1, <3>2, <3>3 DEF JobsAreThere
    <3>4. CASE e.kind = "exit"
      BY <2>1, <3>4 DEF PoolShape, AnyEntry, Epoch
    <3> QED
      BY <3>3, <3>4
  <2>3. ASSUME NEW w \in Worker, Pop(w)
        PROVE  job'[j] = job[j] \/ job'[j] = "running"
    BY <2>1, <2>3, EntryFields DEF Pop, Top, PoolShape
  <2>4. ASSUME NEW w \in Worker, Exit(w)
        PROVE  pool = "closing" /\ job'[j] \in {job[j], "cancelled"}
    <3>1. pool = "closing"
      BY <2>4, ExitIsClosing
    <3>2. \E gone : job' = [k \in Job |-> IF \E f \in gone : f.what = k
                                          THEN "cancelled" ELSE job[k]]
      BY <2>4, Zenon DEF Exit
    <3> QED
      BY <3>1, <3>2, Zenon
  <2>5. ASSUME NEW w \in Worker, Finish(w)
        PROVE  job'[j] \in {job[j], "ran"}
    BY <2>1, <2>5, RunsJob DEF Finish, PoolShape
  <2>6. ASSUME NEW k \in Job, Add(k) \/ Delay(k)
        PROVE  job'[j] \in {job[j], "queued"}
    BY <2>1, <2>6 DEF Add, Delay, PoolShape
  <2>7. CASE UNCHANGED job
    BY <2>7
  <2>8. \/ UNCHANGED job
        \/ \E k \in Job : Add(k) \/ Delay(k)
        \/ \E w \in Worker : Pop(w) \/ Exit(w) \/ Finish(w)
    BY Zenon DEF PoolNext, Work, Sleep, Timeout, SpuriousWakeup, Close, Join, Tick
  <2> QED
    BY <2>2, <2>3, <2>4, <2>5, <2>6, <2>7, <2>8
<1> QED
  BY <1>1, PoolInvariant, PTL DEF PoolSpec

-----------------------------------------------------------------------------
(* Mirror: the inductive invariant. *)

SignedHead == [size : Nat, time : Nat, right : BOOLEAN]

\* The heads the target has signed never shrink.
TargetGrows ==
    /\ target \in Seq(Nat) /\ Len(target) >= 1
    /\ \A t, u \in 1 .. Len(target) : t <= u => target[t] <= target[u]

MirrorShape ==
    /\ TargetGrows
    /\ answer \in SignedHead \cup {NoHead}
    /\ queued \cup passed \subseteq SignedHead
    /\ treeSize \in Nat
    /\ updater \in [at : {"asleep", "woken", "updating"}, localSize : Nat, tree : Nat]

\* What is served is a head of the target.
LookupIsTargets ==
    lookup = NoHead \/ \E t \in 1 .. Len(target) : lookup = TreeHead(target[t], t, TRUE)

\* The copy of the serving tree is behind that tree, or it was extended to a head that
\* no candidate left in the locked queue is smaller than.
CopyIsUsable ==
    \/ updater.tree <= LookupSize
    \/ updater.at = "updating" /\ \A c \in Candidates : updater.tree <= c.size

MirrorInv ==
    /\ MirrorShape /\ LookupIsTargets /\ CopyIsUsable
    /\ updater.localSize <= treeSize
    /\ PassedIsLocal /\ RefusedIsWrong

-----------------------------------------------------------------------------
(* Mirror: facts about heads. *)

LEMMA HeadFields ==
    /\ NoHead.size = -1 /\ NoHead.time = 0 /\ NoHead \notin SignedHead
    /\ \A h \in SignedHead : h.size \in Nat /\ h.time \in Nat /\ h.right \in BOOLEAN
    /\ \A s, t \in Nat : \A b \in BOOLEAN :
           /\ TreeHead(s, t, b) \in SignedHead
           /\ TreeHead(s, t, b).size = s
           /\ TreeHead(s, t, b).time = t
           /\ TreeHead(s, t, b).right = b
BY DEF NoHead, TreeHead, SignedHead

\* The times are numbered from 1 on, and the target's size is that of its last head.
LEMMA TargetIsLast ==
    ASSUME TargetGrows
    PROVE  Times = 1 .. Len(target) /\ Len(target) \in Nat \ {0} /\ TargetSize \in Nat
BY DEF TargetGrows, Times, TargetSize

\* Of some heads there is a smallest one.
LEMMA SmallestExists ==
    ASSUME NEW S, S \subseteq SignedHead, S # {}
    PROVE  \E c \in S : \A d \in S : c.size <= d.size
<1> DEFINE T == {h.size : h \in S}
<1>1. T \subseteq Nat /\ T # {}
  BY HeadFields
<1>2. PICK t \in T : \A u \in T : t <= u
  <2> HIDE DEF T
  <2> QED
    BY <1>1, LeastExists, Zenon
<1>3. PICK c \in S : c.size = t
  BY <1>2
<1> QED
  BY <1>2, <1>3

\* The size served is a natural number, and no newer head is of a smaller one.
LEMMA ServedSize ==
    ASSUME TargetGrows, LookupIsTargets
    PROVE  /\ LookupSize \in Nat
           /\ \A t \in 1 .. Len(target) : t > lookup.time => LookupSize <= target[t]
<1> USE HeadFields
<1>1. CASE lookup = NoHead
  BY <1>1 DEF LookupSize, TargetGrows
<1>2. ASSUME NEW u \in 1 .. Len(target), lookup = TreeHead(target[u], u, TRUE)
      PROVE  /\ LookupSize \in Nat
             /\ \A t \in 1 .. Len(target) : t > lookup.time => LookupSize <= target[t]
  <2>1. target[u] \in Nat /\ u \in Nat /\ Len(target) \in Nat
    BY DEF TargetGrows
  <2>2. lookup.size = target[u] /\ lookup.time = u /\ lookup # NoHead
    BY <1>2, <2>1 DEF TreeHead, NoHead
  <2> QED
    BY <2>1, <2>2 DEF LookupSize, TargetGrows
<1> QED
  BY <1>1, <1>2, Zenon DEF LookupIsTargets

-----------------------------------------------------------------------------
(* Mirror: the steps. *)

LEMMA MirrorInitInv == MirrorInit => MirrorInv
BY DEF MirrorInit, MirrorInv, MirrorShape, TargetGrows, LookupIsTargets, CopyIsUsable,
       PassedIsLocal, RefusedIsWrong, LookupSize, NoHead, TreeHead

\* The target signs a head that is no smaller than its last one.
LEMMA SignKeeps ==
    ASSUME MirrorInv, NEW n \in 0 .. MaxTarget, Sign(n)
    PROVE  MirrorInv'
<1> USE DEF MirrorInv, MirrorShape
<1>1. Len(target) \in Nat \ {0}
  BY TargetIsLast
<1>2. n \in Nat /\ target[Len(target)] <= n
  BY <1>1 DEF Sign, TargetSize, TargetGrows
<1>3. target' = Append(target, n)
  BY DEF Sign
<1>4. /\ target' \in Seq(Nat) /\ Len(target') = Len(target) + 1
      /\ \A t \in 1 .. Len(target) : target'[t] = target[t]
      /\ target'[Len(target) + 1] = n
  BY <1>1, <1>2, <1>3 DEF TargetGrows
<1>5. TargetGrows'
  <2>1. \A t \in 1 .. Len(target) : target[t] \in Nat /\ target[t] <= n
    BY <1>1, <1>2 DEF TargetGrows
  <2>2. ASSUME NEW t \in 1 .. Len(target'), NEW u \in 1 .. Len(target'), t <= u
        PROVE  target'[t] <= target'[u]
    <3>1. CASE u \in 1 .. Len(target)
      <4>1. t \in 1 .. Len(target)
        BY <1>1, <1>4, <2>2, <3>1
      <4> QED
        BY <1>4, <2>2, <3>1, <4>1 DEF TargetGrows
    <3>2. CASE u = Len(target) + 1
      <4>1. target'[u] = n
        BY <1>4, <3>2
      <4>2. t \in 1 .. Len(target) \/ t = Len(target) + 1
        BY <1>1, <1>4
      <4> QED
        BY <1>2, <1>4, <2>1, <4>1, <4>2
    <3> QED
      BY <1>1, <1>4, <3>1, <3>2
  <2> QED
    BY <1>1, <1>4, <2>2 DEF TargetGrows
<1>6. LookupIsTargets'
  <2>1. lookup' = lookup
    BY DEF Sign
  <2>2. CASE lookup = NoHead
    BY <2>1, <2>2 DEF LookupIsTargets
  <2>3. ASSUME NEW t \in 1 .. Len(target), lookup = TreeHead(target[t], t, TRUE)
        PROVE  LookupIsTargets'
    <3>1. t \in 1 .. Len(target') /\ target'[t] = target[t]
      BY <1>1, <1>4
    <3>2. lookup' = TreeHead(target'[t], t, TRUE)
      BY <2>1, <2>3, <3>1
    <3> QED
      BY <3>1, <3>2, Zenon DEF LookupIsTargets
  <2> QED
    BY <2>2, <2>3, Zenon DEF LookupIsTargets
<1> QED
  BY <1>5, <1>6 DEF Sign, CopyIsUsable, LookupSize, Candidates, PassedIsLocal, RefusedIsWrong

\* What happens to the poll alone disturbs nothing.
LEMMA PollKeeps ==
    ASSUME MirrorInv, Stop \/ FetchSTH \/ GetSTHFailed
    PROVE  MirrorInv'
BY Zenon DEF MirrorInv, MirrorShape, TargetGrows, LookupIsTargets, CopyIsUsable, LookupSize,
       Candidates, PassedIsLocal, RefusedIsWrong, Stop, FetchSTH, GetSTHFailed

LEMMA AnswerKeeps ==
    ASSUME MirrorInv, NEW t \in Times, NEW right \in BOOLEAN, Answer(t, right)
    PROVE  MirrorInv'
<1>1. target[t] \in Nat /\ t \in Nat
  BY TargetIsLast DEF MirrorInv, MirrorShape, TargetGrows
<1>2. answer' \in SignedHead
  BY <1>1, HeadFields, Zenon DEF Answer
<1> QED
  BY <1>2, Zenon DEF MirrorInv, MirrorShape, TargetGrows, LookupIsTargets, CopyIsUsable, LookupSize,
              Candidates, PassedIsLocal, RefusedIsWrong, Answer

\* The queue changes only while the updater has not locked it.
LEMMA DoneGetSTHKeeps ==
    ASSUME MirrorInv, DoneGetSTH
    PROVE  MirrorInv'
<1>1. answer \in SignedHead /\ answer' = NoHead
  BY DEF MirrorInv, MirrorShape, DoneGetSTH
<1>2. queued' \subseteq SignedHead
  BY <1>1 DEF MirrorInv, MirrorShape, DoneGetSTH, NewSth
<1>3. queued' # queued => updater.at # "updating"
  BY DEF DoneGetSTH, QueueUnlocked
<1>4. CopyIsUsable'
  BY <1>3 DEF MirrorInv, CopyIsUsable, LookupSize, Candidates, DoneGetSTH
<1> QED
  BY <1>1, <1>2, <1>4, Zenon DEF MirrorInv, MirrorShape, TargetGrows, LookupIsTargets, PassedIsLocal,
                          RefusedIsWrong, DoneGetSTH

LEMMA FetchEntryKeeps ==
    ASSUME MirrorInv, FetchEntry
    PROVE  MirrorInv'
<1>1. /\ treeSize \in Nat /\ treeSize' = treeSize + 1 /\ updater.localSize \in Nat
      /\ passed' = passed
  BY DEF MirrorInv, MirrorShape, FetchEntry
<1>2. \A h \in passed : h.size \in Nat /\ h.right /\ h.size <= treeSize
  BY HeadFields DEF MirrorInv, MirrorShape, PassedIsLocal
<1>3. PassedIsLocal'
  BY <1>1, <1>2 DEF PassedIsLocal
<1>4. (updater.localSize <= treeSize)' /\ treeSize' \in Nat
  BY <1>1 DEF MirrorInv, FetchEntry
<1>5. CopyIsUsable'
  BY DEF MirrorInv, CopyIsUsable, LookupSize, Candidates, FetchEntry
<1>6. TargetGrows'
  BY DEF MirrorInv, MirrorShape, TargetGrows, FetchEntry
<1>7. LookupIsTargets' /\ RefusedIsWrong'
  BY Zenon DEF MirrorInv, LookupIsTargets, RefusedIsWrong, FetchEntry
<1>8. MirrorShape'
  BY <1>4, <1>6 DEF MirrorInv, MirrorShape, FetchEntry
<1> QED
  BY <1>3, <1>4, <1>5, <1>7, <1>8 DEF MirrorInv

\* The serving tree only grows.
LEMMA UpdateFromSTHKeeps ==
    ASSUME MirrorInv, NEW t \in Times, UpdateFromSTH(t)
    PROVE  MirrorInv'
<1>1. t \in 1 .. Len(target) /\ target[t] \in Nat /\ t \in Nat
  BY TargetIsLast DEF MirrorInv, MirrorShape, TargetGrows
<1>2. LookupSize \in Nat /\ LookupSize <= target[t]
  BY <1>1, ServedSize DEF MirrorInv, MirrorShape, UpdateFromSTH
<1>3. LookupIsTargets'
  BY <1>1, Zenon DEF LookupIsTargets, UpdateFromSTH
<1>4. LookupSize' = target[t]
  BY <1>1 DEF UpdateFromSTH, LookupSize, TreeHead, NoHead
<1>5. CopyIsUsable'
  BY <1>1, <1>2, <1>4 DEF MirrorInv, MirrorShape, CopyIsUsable, Candidates, UpdateFromSTH
<1> QED
  BY <1>3, <1>5 DEF MirrorInv, MirrorShape, TargetGrows, PassedIsLocal, RefusedIsWrong,
                    UpdateFromSTH

LEMMA WakeKeeps ==
    ASSUME MirrorInv, Wake \/ Lock \/ UpdaterSleeps
    PROVE  MirrorInv'
<1>1. LookupSize \in Nat
  BY ServedSize DEF MirrorInv, MirrorShape
<1>2. /\ updater' \in [at : {"asleep", "woken", "updating"}, localSize : Nat, tree : Nat]
      /\ updater'.localSize <= treeSize
  BY <1>1 DEF MirrorInv, MirrorShape, Wake, Lock, UpdaterSleeps
<1>3. LookupSize' = LookupSize
  BY DEF LookupSize, Wake, Lock, UpdaterSleeps
<1>4. CopyIsUsable'
  BY <1>1, <1>3 DEF MirrorInv, MirrorShape, CopyIsUsable, Candidates, Wake, Lock, UpdaterSleeps
<1> QED
  BY <1>2, <1>4, Zenon DEF MirrorInv, MirrorShape, TargetGrows, LookupIsTargets, PassedIsLocal,
                    RefusedIsWrong, Wake, Lock, UpdaterSleeps

\* The smallest candidate is compared at its own size, whichever tree is asked.
LEMMA ComparedAtItsSize ==
    ASSUME MirrorInv, NEW h \in Candidates,
           NEW tree, tree = IF updater.tree < h.size THEN h.size ELSE updater.tree
    PROVE  LocalRootSize(h.size, tree) = h.size
<1>1. h.size \in Nat /\ updater.tree \in Nat /\ LookupSize \in Nat
  BY HeadFields, ServedSize DEF MirrorInv, MirrorShape, Candidates
<1>2. updater.tree <= LookupSize \/ updater.tree <= h.size
  BY DEF MirrorInv, CopyIsUsable
<1> QED
  BY <1>1, <1>2 DEF LocalRootSize

LEMMA UpdateKeeps ==
    ASSUME MirrorInv, Update
    PROVE  MirrorInv'
<1> DEFINE h == CHOOSE c \in Candidates : \A d \in Candidates : c.size <= d.size
           tree == IF updater.tree < h.size THEN h.size ELSE updater.tree
<1>1. Candidates \subseteq SignedHead /\ Candidates # {}
  BY DEF MirrorInv, MirrorShape, Candidates, Update
<1>2. h \in Candidates /\ \A d \in Candidates : h.size <= d.size
  BY <1>1, SmallestExists
<1>3. /\ queued' = queued \ {h} /\ updater' = [updater EXCEPT !.tree = tree]
      /\ updater.at = "updating"
      /\ IF Agrees(h, tree) THEN passed' = passed \cup {h} /\ refused' = refused
                            ELSE refused' = refused \cup {h} /\ passed' = passed
      /\ UNCHANGED <<target, answer, treeSize, lookup>>
  BY DEF Update
<1> HIDE DEF h
<1>4. h.size \in Nat /\ h \in SignedHead /\ h.size <= updater.localSize
  BY <1>1, <1>2, HeadFields DEF Candidates
<1>5. tree \in Nat
  BY <1>4 DEF MirrorInv, MirrorShape
<1>6. Agrees(h, tree) <=> h.right
  BY <1>2, ComparedAtItsSize DEF Agrees
<1> HIDE DEF tree
<1>7. /\ updater' \in [at : {"asleep", "woken", "updating"}, localSize : Nat, tree : Nat]
      /\ updater'.localSize = updater.localSize /\ updater'.tree = tree
      /\ updater'.at = "updating"
  BY <1>3, <1>5 DEF MirrorInv, MirrorShape
<1>8. CopyIsUsable'
  <2>1. LookupSize' = LookupSize /\ LookupSize \in Nat
    BY <1>3, ServedSize DEF MirrorInv, MirrorShape, LookupSize
  <2>2. Candidates' \subseteq Candidates
    BY <1>3, <1>7 DEF Candidates
  <2>3. \A c \in Candidates : c.size \in Nat /\ h.size <= c.size
    BY <1>1, <1>2, HeadFields
  <2>4. tree <= LookupSize \/ \A c \in Candidates : tree <= c.size
    BY <1>4, <2>1, <2>3 DEF MirrorInv, MirrorShape, CopyIsUsable, tree
  <2> QED
    BY <1>7, <2>1, <2>2, <2>4 DEF CopyIsUsable
<1>9. PassedIsLocal' /\ RefusedIsWrong'
  <2>1. treeSize' = treeSize /\ treeSize \in Nat /\ h.size <= treeSize
    BY <1>3, <1>4 DEF MirrorInv, MirrorShape
  <2> QED
    BY <1>3, <1>6, <2>1 DEF MirrorInv, PassedIsLocal, RefusedIsWrong
<1>10. (queued \cup passed)' \subseteq SignedHead
  BY <1>3, <1>4 DEF MirrorInv, MirrorShape
<1> QED
  BY <1>3, <1>7, <1>8, <1>9, <1>10, Zenon
     DEF MirrorInv, MirrorShape, TargetGrows, LookupIsTargets

-----------------------------------------------------------------------------
(* Mirror: the theorems. *)

LEMMA MirrorNextInv ==
    ASSUME MirrorInv, [MirrorNext]_mirrorVars
    PROVE  MirrorInv'
<1>1. CASE UNCHANGED mirrorVars
  BY <1>1, Zenon DEF mirrorVars, MirrorInv, MirrorShape, TargetGrows, LookupIsTargets, CopyIsUsable,
              LookupSize, Candidates, PassedIsLocal, RefusedIsWrong
<1>2. CASE MirrorNext
  BY <1>2, SignKeeps, PollKeeps, AnswerKeeps, DoneGetSTHKeeps, FetchEntryKeeps,
     UpdateFromSTHKeeps, WakeKeeps, UpdateKeeps DEF MirrorNext
<1> QED
  BY <1>1, <1>2

\* STHUpdater passes a head on only when its root is that of the local entries and the
\* database holds all of them, although the serving tree grows while it compares.
THEOREM MirrorPassesLocal == MirrorSpec => []PassedIsLocal
<1>1. MirrorInv => PassedIsLocal
  BY DEF MirrorInv
<1> QED
  BY <1>1, MirrorInitInv, MirrorNextInv, PTL DEF MirrorSpec

\* STHUpdater never counts a head with the right root as inconsistent: whichever tree it
\* asks, the one served or the copy it extends, has the size of the head it compares.
THEOREM MirrorRefusesWrong == MirrorSpec => []RefusedIsWrong
<1>1. MirrorInv => RefusedIsWrong
  BY DEF MirrorInv
<1> QED
  BY <1>1, MirrorInitInv, MirrorNextInv, PTL DEF MirrorSpec

\* The heads RemotePeer holds only grow, in size and in time (DoneGetSTH).
THEOREM MirrorHeadsGrow == MirrorSpec => [][HeadsGrow]_mirrorVars
<1>1. ASSUME [MirrorNext]_mirrorVars
      PROVE  [HeadsGrow]_mirrorVars
  BY <1>1, Zenon DEF MirrorNext, HeadsGrow, mirrorVars, Sign, Stop, FetchSTH, Answer, DoneGetSTH,
              Acceptable, GetSTHFailed, FetchEntry, UpdateFromSTH, Wake, Lock, Update, UpdaterSleeps
<1> QED
  BY <1>1, PTL DEF MirrorSpec

=============================================================================
