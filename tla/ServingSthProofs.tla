-------------------------- MODULE ServingSthProofs --------------------------
(***************************************************************************)
(* Theorems about what a cluster agrees on through etcd: the watch of a    *)
(* directory of etcd (EtcdWatch), for any set of keys, history and number  *)
(* of changes and failures; and the serving STH (ServingSth), for any      *)
(* cluster, configuration, number of entries and timestamps and any        *)
(* faults.                                                                 *)
(***************************************************************************)
EXTENDS EtcdWatch, ServingSth, FiniteSetTheorems, WellFoundedInduction, TLAPS

\* Leaves that name no prover are given to SMT and then to Zenon, with time
\* enough for a busy machine.
USE SMTT(15), ZenonT(25)

-----------------------------------------------------------------------------
(* A fact about numbers. *)

\* Of some numbers there is a least one.
LEMMA LeastExists ==
    ASSUME NEW S, S \subseteq Nat, S # {}
    PROVE  \E n \in S : \A m \in S : n <= m
<1> DEFINE R == {x \in Nat \X Nat : x[1] < x[2]}
<1>1. IsWellFoundedOn(R, Nat)
  BY NatLessThanWellFounded DEF OpToRel
<1>2. PICK n \in S : \A m \in S : <<m, n>> \notin R
  <2> HIDE DEF R
  <2> QED
    BY <1>1, WFMin, Zenon
<1>3. ASSUME NEW m \in S
      PROVE  n <= m
  <2>1. m \in Nat /\ n \in Nat
    OBVIOUS
  <2>2. ~(m < n)
    BY <1>2, <2>1, Zenon
  <2> QED
    BY <2>1, <2>2
<1> QED
  BY <1>3

-----------------------------------------------------------------------------
(* EtcdWatch: the inductive invariant. *)

Contents == [Key -> Nat]

WatchShape ==
    /\ snaps \in Seq(Contents) /\ index >= 1
    /\ phase \in {"get", "wait", "delay", "returned"}
    /\ asked \in 1..index
    /\ highest \in Int /\ highest <= index
    /\ known \in Contents /\ view \in Contents

\* A node's modified index is no later than etcd's.
Stamped == \A i \in 1..index : \A k \in Key : snaps[i][k] <= i

\* As long as a node exists its modified index does not decrease.
Ordered ==
    \A i, j \in 1..index : \A k \in Key :
        i <= j /\ snaps[j][k] > 0 => snaps[i][k] <= snaps[j][k]

\* A change is one of a single node.
OneByOne ==
    \A j \in 2..index : \A k, l \in Key :
        snaps[j][k] # snaps[j - 1][k] /\ snaps[j][l] # snaps[j - 1][l] => k = l

\* Between two indexes without an event the directory stays as it is.
NoEventNoChange ==
    \A i, j \in 1..index :
        i <= j /\ (\A m \in (i + 1)..j : snaps[m] = snaps[m - 1]) => snaps[i] = snaps[j]

EtcdInv == Stamped /\ Ordered /\ OneByOne /\ NoEventNoChange

\* The receiver has seen the directory at some index before the last request.
ViewIsOld == \E h \in 1..asked : view = snaps[h]

\* A listing that is asked for is no older than anything seen.
GetIsLater == phase = "get" => highest <= asked

WaitsFromSeen == phase = "wait" => highest >= 1

ClientInv ==
    KnownIsView /\ ViewIsOld /\ GetIsLater /\ WaitsFromSeen /\ ViewIsSnapshot

WatchInv == WatchShape /\ EtcdInv /\ ClientInv

-----------------------------------------------------------------------------
(* EtcdWatch: etcd. *)

\* Before any change the directory is empty and nothing has been seen.
LEMMA WatchInitInv == WatchInit => WatchInv
<1> SUFFICES ASSUME WatchInit PROVE WatchInv
  OBVIOUS
<1>1. NoKeys \in Contents
  BY DEF NoKeys, Contents
<1>2. /\ snaps = <<NoKeys>> /\ snaps \in Seq(Contents) /\ index = 1
      /\ snaps[1] = NoKeys
  BY <1>1 DEF WatchInit, index
<1>3. WatchShape
  BY <1>1, <1>2 DEF WatchInit, WatchShape
<1>4. EtcdInv
  BY <1>2 DEF EtcdInv, Stamped, Ordered, OneByOne, NoEventNoChange, NoKeys
<1>5. ClientInv
  BY <1>2 DEF WatchInit, ClientInv, KnownIsView, ViewIsOld, GetIsLater, WaitsFromSeen,
              ViewIsSnapshot
<1> QED
  BY <1>3, <1>4, <1>5 DEF WatchInv

\* A change adds one snapshot, which differs in one node from the last, and there
\* has the new index or no node.
LEMMA ChangeAppends ==
    ASSUME WatchInv, Change
    PROVE  /\ snaps' \in Seq(Contents)
           /\ index' = index + 1
           /\ \A i \in 1..index : snaps'[i] = snaps[i]
           /\ snaps'[index + 1] \in Contents
           /\ \A k \in Key : \/ snaps'[index + 1][k] = snaps[index][k]
                             \/ snaps'[index + 1][k] \in {0, index + 1}
           /\ \A k, l \in Key :
                 /\ snaps'[index + 1][k] # snaps[index][k]
                 /\ snaps'[index + 1][l] # snaps[index][l]
                 => k = l
<1> DEFINE last == snaps[index]
<1>1. snaps \in Seq(Contents) /\ index \in Nat /\ index >= 1 /\ last \in Contents
  BY DEF WatchInv, WatchShape, index
<1>2. PICK s \in Contents :
         /\ snaps' = Append(snaps, s)
         /\ \A k \in Key : s[k] = last[k] \/ s[k] \in {0, index + 1}
         /\ \A k, l \in Key : s[k] # last[k] /\ s[l] # last[l] => k = l
  <2>1. CASE snaps' = Append(snaps, snaps[index])
    BY <1>1, <2>1
  <2>2. CASE \E k \in Key : snaps' = Append(snaps, [snaps[index] EXCEPT ![k] = index + 1])
    <3>1. PICK k \in Key : snaps' = Append(snaps, [last EXCEPT ![k] = index + 1])
      BY <2>2, Zenon
    <3>2. [last EXCEPT ![k] = index + 1] \in Contents
      BY <1>1 DEF Contents
    <3> QED
      BY <1>1, <3>1, <3>2, Zenon DEF Contents
  <2>3. CASE \E k \in Key : snaps' = Append(snaps, [snaps[index] EXCEPT ![k] = 0])
    <3>1. PICK k \in Key : snaps' = Append(snaps, [last EXCEPT ![k] = 0])
      BY <2>3, Zenon
    <3>2. [last EXCEPT ![k] = 0] \in Contents
      BY <1>1 DEF Contents
    <3> QED
      BY <1>1, <3>1, <3>2, Zenon DEF Contents
  <2> QED
    BY <2>1, <2>2, <2>3, Zenon DEF Change
<1>3. /\ snaps' \in Seq(Contents) /\ index' = index + 1
      /\ \A i \in 1..index : snaps'[i] = snaps[i]
      /\ snaps'[index + 1] = s
  BY <1>1, <1>2 DEF index
<1>4. snaps'[index + 1] \in Contents
  BY <1>2, <1>3, Zenon
<1>5. \A k \in Key : \/ snaps'[index + 1][k] = snaps[index][k]
                     \/ snaps'[index + 1][k] \in {0, index + 1}
  BY <1>2, <1>3, Zenon
<1>6. \A k, l \in Key : /\ snaps'[index + 1][k] # snaps[index][k]
                        /\ snaps'[index + 1][l] # snaps[index][l]
                        => k = l
  <2>1. snaps'[index + 1] = s
    BY <1>3, Zenon
  <2>2. \A k, l \in Key : s[k] # snaps[index][k] /\ s[l] # snaps[index][l] => k = l
    BY <1>2, Zenon
  <2> HIDE DEF last
  <2> QED
    BY <2>1, <2>2, Zenon
<1> QED
  BY <1>3, <1>4, <1>5, <1>6, Zenon

\* What is said of etcd stays true with every change.
LEMMA ChangeKeepsEtcd == WatchInv /\ Change => EtcdInv'
<1> SUFFICES ASSUME WatchInv, Change PROVE EtcdInv'
  OBVIOUS
<1> DEFINE n == index
           new == snaps'[n + 1]
<1>1. /\ n \in Nat /\ n >= 1 /\ index' = n + 1
      /\ \A i \in 1..n : snaps'[i] = snaps[i] /\ snaps[i] \in Contents
      /\ new \in Contents
  BY ChangeAppends DEF WatchInv, WatchShape, index
<1>2. \A k \in Key : new[k] = snaps[n][k] \/ new[k] \in {0, n + 1}
  BY ChangeAppends
<1>3. \A i \in 1..n : \A k \in Key : snaps[i][k] \in Nat /\ snaps[i][k] <= i
  BY <1>1 DEF WatchInv, EtcdInv, Stamped, Contents
<1>4. \A k \in Key : new[k] \in Nat
  BY <1>1 DEF Contents
<1> HIDE DEF n, new
<1>5. Stamped'
  <2> SUFFICES ASSUME NEW i \in 1..(n + 1), NEW k \in Key
               PROVE  snaps'[i][k] <= i
    BY <1>1 DEF Stamped
  <2>1. CASE i \in 1..n
    BY <1>1, <1>3, <2>1
  <2>2. CASE i = n + 1
    BY <1>1, <1>2, <1>3, <1>4, <2>2 DEF new
  <2> QED
    BY <1>1, <2>1, <2>2
<1>6. Ordered'
  <2> SUFFICES ASSUME NEW i \in 1..(n + 1), NEW j \in 1..(n + 1), NEW k \in Key,
                      i <= j, snaps'[j][k] > 0
               PROVE  snaps'[i][k] <= snaps'[j][k]
    BY <1>1 DEF Ordered
  <2>0. \A a, b \in 1..n : a <= b /\ snaps[b][k] > 0 => snaps[a][k] <= snaps[b][k]
    BY DEF WatchInv, EtcdInv, Ordered, n
  <2>1. CASE j \in 1..n
    BY <1>1, <2>0, <2>1
  <2>2. CASE j = n + 1 /\ i = n + 1
    BY <1>4, <2>2 DEF new
  <2>3. CASE j = n + 1 /\ i \in 1..n
    <3>1. snaps'[j][k] = new[k] /\ snaps'[i][k] = snaps[i][k]
      BY <1>1, <2>3 DEF new
    <3>2. CASE new[k] = snaps[n][k]
      BY <1>1, <2>0, <2>3, <3>1, <3>2
    <3>3. CASE new[k] = n + 1
      BY <1>1, <1>3, <2>3, <3>1, <3>3
    <3> QED
      BY <1>2, <1>4, <3>1, <3>2, <3>3
  <2> QED
    BY <1>1, <2>1, <2>2, <2>3
<1>7. OneByOne'
  <2> SUFFICES ASSUME NEW j \in 2..(n + 1), NEW k \in Key, NEW l \in Key,
                      snaps'[j][k] # snaps'[j - 1][k], snaps'[j][l] # snaps'[j - 1][l]
               PROVE  k = l
    BY <1>1 DEF OneByOne
  <2>1. CASE j \in 2..n
    <3>1. snaps'[j] = snaps[j] /\ snaps'[j - 1] = snaps[j - 1]
      BY <1>1, <2>1
    <3> QED
      BY <2>1, <3>1 DEF WatchInv, EtcdInv, OneByOne, n
  <2>2. CASE j = n + 1
    <3>1. snaps'[j] = new /\ snaps'[j - 1] = snaps[n]
      BY <1>1, <2>2 DEF new
    <3> QED
      BY <3>1, ChangeAppends DEF n, new
  <2> QED
    BY <1>1, <2>1, <2>2
<1>8. NoEventNoChange'
  <2> SUFFICES ASSUME NEW i \in 1..(n + 1), NEW j \in 1..(n + 1), i <= j,
                      \A m \in (i + 1)..j : snaps'[m] = snaps'[m - 1]
               PROVE  snaps'[i] = snaps'[j]
    BY <1>1 DEF NoEventNoChange
  <2>0. \A a, b \in 1..n :
           a <= b /\ (\A m \in (a + 1)..b : snaps[m] = snaps[m - 1]) => snaps[a] = snaps[b]
    BY DEF WatchInv, EtcdInv, NoEventNoChange, n
  <2>1. \A m \in (i + 1)..j : m \in 1..n => snaps[m] = snaps[m - 1]
    <3> SUFFICES ASSUME NEW m \in (i + 1)..j, m \in 1..n PROVE snaps[m] = snaps[m - 1]
      OBVIOUS
    <3>1. m - 1 \in 1..n
      BY <1>1
    <3> QED
      BY <1>1, <3>1
  <2>2. CASE j \in 1..n
    <3>1. i \in 1..n /\ \A m \in (i + 1)..j : snaps[m] = snaps[m - 1]
      BY <1>1, <2>1, <2>2
    <3>2. snaps[i] = snaps[j]
      BY <2>0, <2>2, <3>1
    <3> QED
      BY <1>1, <2>2, <3>1, <3>2
  <2>3. CASE i = j
    BY <2>3
  <2>4. CASE j = n + 1 /\ i \in 1..n
    <3>1. n \in 1..n /\ i <= n /\ \A m \in (i + 1)..n : snaps[m] = snaps[m - 1]
      BY <1>1, <2>1, <2>4
    <3>2. snaps[i] = snaps[n]
      BY <2>0, <2>4, <3>1
    <3>3. j \in (i + 1)..j /\ j - 1 = n
      BY <1>1, <2>4
    <3>4. snaps'[j] = snaps'[n]
      BY <3>3
    <3> QED
      BY <1>1, <2>4, <3>1, <3>2, <3>4
  <2> QED
    BY <1>1, <2>2, <2>3, <2>4
<1> QED
  BY <1>5, <1>6, <1>7, <1>8 DEF EtcdInv

\* The client's part of the invariant speaks of indexes that exist already.
LEMMA ChangeInv == WatchInv /\ Change => WatchInv'
<1> SUFFICES ASSUME WatchInv, Change PROVE WatchInv'
  OBVIOUS
<1>1. UNCHANGED <<phase, asked, highest, known, view, cancelled, failures>>
  BY DEF Change
<1>2. /\ snaps' \in Seq(Contents) /\ index' = index + 1
      /\ \A i \in 1..index : snaps'[i] = snaps[i]
  BY ChangeAppends
<1>3. index \in Nat /\ WatchShape
  BY DEF WatchInv, WatchShape, index
<1>4. WatchShape'
  BY <1>1, <1>2, <1>3 DEF WatchShape
<1>5. ViewIsOld'
  BY <1>1, <1>2, <1>3 DEF WatchInv, ClientInv, ViewIsOld, WatchShape
<1>6. ViewIsSnapshot'
  BY <1>1, <1>2, <1>3 DEF WatchInv, ClientInv, ViewIsSnapshot, WaitsFromSeen, WatchShape
<1>7. KnownIsView' /\ GetIsLater' /\ WaitsFromSeen'
  BY <1>1 DEF WatchInv, ClientInv, KnownIsView, GetIsLater, WaitsFromSeen
<1> QED
  BY <1>4, <1>5, <1>6, <1>7, ChangeKeepsEtcd DEF WatchInv, ClientInv

-----------------------------------------------------------------------------
(* EtcdWatch: the client. *)

\* Nothing the client does changes etcd.
LEMMA EtcdStays ==
    ASSUME WatchInv, UNCHANGED snaps
    PROVE  EtcdInv' /\ index' = index /\ index \in Nat
BY DEF WatchInv, WatchShape, EtcdInv, Stamped, Ordered, OneByOne, NoEventNoChange, index

\* A watch that is cancelled, or that waits before it asks again, keeps what it
\* has.
LEMMA RestInv ==
    ASSUME WatchInv, UNCHANGED <<snaps, asked, highest, known, view>>,
           phase' \in {"delay", "returned"}
    PROVE  WatchInv'
<1>1. WatchShape'
  BY EtcdStays DEF WatchInv, WatchShape
<1>2. ClientInv'
  BY DEF WatchInv, ClientInv, KnownIsView, ViewIsOld, GetIsLater, WaitsFromSeen,
         ViewIsSnapshot
<1> QED
  BY <1>1, <1>2, EtcdStays DEF WatchInv

\* Asking for a listing, or for the next event again.
LEMMA AskInv ==
    ASSUME WatchInv, UNCHANGED <<snaps, known, view>>,
           asked' = index, highest' \in {highest, index},
           \/ phase' = "get"
           \/ phase' = "wait" /\ phase = "wait" /\ highest' = highest
    PROVE  WatchInv'
<1>1. index \in Nat /\ index >= 1 /\ index' = index /\ WatchShape /\ EtcdInv'
  BY EtcdStays DEF WatchInv, WatchShape
<1>2. WatchShape'
  BY <1>1 DEF WatchShape
<1>3. KnownIsView' /\ ViewIsOld'
  BY <1>1 DEF WatchInv, ClientInv, KnownIsView, ViewIsOld, WatchShape
<1>4. GetIsLater' /\ WaitsFromSeen' /\ ViewIsSnapshot'
  BY <1>1 DEF WatchInv, ClientInv, GetIsLater, WaitsFromSeen, ViewIsSnapshot, WatchShape
<1> QED
  BY <1>1, <1>2, <1>3, <1>4 DEF WatchInv, ClientInv

\* The client has told its receiver exactly the directory at the index i.
LEMMA SeenInv ==
    ASSUME WatchInv, NEW i \in 1..index, UNCHANGED snaps,
           phase' = "wait", asked' = index, highest' = i,
           known' = snaps[i], view' = snaps[i]
    PROVE  WatchInv'
<1>1. index \in Nat /\ index >= 1 /\ index' = index /\ WatchShape /\ EtcdInv'
  BY EtcdStays DEF WatchInv, WatchShape
<1>2. snaps[i] \in Contents
  BY <1>1 DEF WatchShape, index
<1>3. WatchShape'
  BY <1>1, <1>2 DEF WatchShape
<1>4. KnownIsView' /\ ViewIsOld'
  BY <1>1 DEF KnownIsView, ViewIsOld
<1>5. GetIsLater' /\ WaitsFromSeen' /\ ViewIsSnapshot'
  BY <1>1 DEF GetIsLater, WaitsFromSeen, ViewIsSnapshot
<1> QED
  BY <1>1, <1>3, <1>4, <1>5 DEF WatchInv, ClientInv

\* Modified indexes tell which nodes of a listing are new, and known_keys_ which
\* are gone: with the updates the receiver has the listing.
LEMMA UpdatesSuffice ==
    ASSUME WatchInv, phase = "get", NEW i \in asked..index
    PROVE  [k \in Key |-> IF k \in Updates(snaps[i]) THEN snaps[i][k] ELSE view[k]]
              = snaps[i]
<1>1. PICK h \in 1..asked : view = snaps[h]
  BY DEF WatchInv, ClientInv, ViewIsOld
<1>2. index \in Nat /\ asked \in 1..index /\ h \in 1..index /\ i \in 1..index /\ h <= i
  BY DEF WatchInv, WatchShape, index
<1>3. snaps[i] \in Contents /\ snaps[h] \in Contents
  BY <1>2 DEF WatchInv, WatchShape, index
<1>4. \A k \in Key : snaps[i][k] > 0 => snaps[h][k] <= snaps[i][k]
  BY <1>2 DEF WatchInv, EtcdInv, Ordered
<1>5. known = snaps[h]
  BY <1>1 DEF WatchInv, ClientInv, KnownIsView
<1>6. ASSUME NEW k \in Key
      PROVE  (IF k \in Updates(snaps[i]) THEN snaps[i][k] ELSE view[k]) = snaps[i][k]
  BY <1>1, <1>3, <1>4, <1>5 DEF Updates, Contents
<1> QED
  BY <1>3, <1>6 DEF Contents

\* WatchInitialGetDone: the updates take the receiver to the listing.
LEMMA InitialGetDoneInv == WatchInv /\ WatchInitialGetDone => WatchInv' /\ highest' >= highest
<1> SUFFICES ASSUME WatchInv, WatchInitialGetDone PROVE WatchInv' /\ highest' >= highest
  OBVIOUS
<1>0. UNCHANGED snaps /\ highest \in Int /\ phase = "get"
  BY DEF WatchInitialGetDone, WatchInv, WatchShape
<1>1. CASE cancelled
  BY <1>0, <1>1, RestInv DEF WatchInitialGetDone, WatchReturns
<1>2. CASE ~cancelled
  <2>1. PICK i \in asked..index :
           /\ highest' = SeenIn(i)
           /\ known' = snaps[i]
           /\ view' = [k \in Key |-> IF k \in Updates(snaps[i]) THEN snaps[i][k]
                                     ELSE view[k]]
           /\ SendWait
    BY <1>2 DEF WatchInitialGetDone
  <2>2. i \in 1..index /\ highest <= i /\ highest' = i
    BY <1>0, <2>1 DEF WatchInv, WatchShape, ClientInv, GetIsLater, SeenIn, Later, index
  <2>3. view' = snaps[i]
    BY <1>0, <2>1, UpdatesSuffice
  <2>4. phase' = "wait" /\ asked' = index
    BY <2>1 DEF SendWait
  <2>5. WatchInv'
    BY <1>0, <2>1, <2>2, <2>3, <2>4, SeenInv
  <2> QED
    BY <1>0, <2>2, <2>5
<1> QED
  BY <1>1, <1>2

\* The first event after the highest index seen is the only change since then.
LEMMA EventSuffices ==
    ASSUME WatchInv, phase = "wait", NEW e \in EventsFrom(highest + 1), NEW k \in Key,
           \A j \in EventsFrom(highest + 1) : e <= j,
           snaps[e][k] # snaps[e - 1][k]
    PROVE  /\ e \in 1..index /\ highest < e
           /\ [view EXCEPT ![k] = snaps[e][k]] = snaps[e]
<1>1. index \in Nat /\ highest \in 1..index /\ view = snaps[highest]
  BY DEF WatchInv, WatchShape, index, ClientInv, WaitsFromSeen, ViewIsSnapshot
<1>2. e \in 2..index /\ e >= highest + 1
  BY DEF EventsFrom
<1>3. \A m \in (highest + 1)..(e - 1) : snaps[m] = snaps[m - 1]
  <2> SUFFICES ASSUME NEW m \in (highest + 1)..(e - 1), snaps[m] # snaps[m - 1] PROVE FALSE
    OBVIOUS
  <2>1. m \in EventsFrom(highest + 1)
    BY <1>1, <1>2 DEF EventsFrom
  <2> QED
    BY <1>1, <1>2, <2>1
<1>4. e - 1 \in 1..index /\ highest <= e - 1
  BY <1>1, <1>2
<1>5. view = snaps[e - 1]
  BY <1>1, <1>3, <1>4 DEF WatchInv, EtcdInv, NoEventNoChange
<1>6. snaps[e] \in Contents /\ snaps[e - 1] \in Contents
  BY <1>2, <1>4 DEF WatchInv, WatchShape, index
<1>7. \A l \in Key : l # k => snaps[e][l] = snaps[e - 1][l]
  BY <1>2 DEF WatchInv, EtcdInv, OneByOne
<1>8. [view EXCEPT ![k] = snaps[e][k]] = snaps[e]
  BY <1>5, <1>6, <1>7 DEF Contents
<1> QED
  BY <1>1, <1>2, <1>8

\* WatchRequestDone: the event takes the receiver to the index of the event.
LEMMA RequestDoneInv == WatchInv /\ WatchRequestDone => WatchInv' /\ highest' >= highest
<1> SUFFICES ASSUME WatchInv, WatchRequestDone PROVE WatchInv' /\ highest' >= highest
  OBVIOUS
<1>0. UNCHANGED snaps /\ highest \in Int /\ phase = "wait" /\ known = view
  BY DEF WatchRequestDone, WatchInv, WatchShape, ClientInv, KnownIsView
<1>1. CASE cancelled
  BY <1>0, <1>1, RestInv DEF WatchRequestDone, WatchReturns
<1>2. CASE ~cancelled
  <2>1. PICK e \in EventsFrom(highest + 1), k \in Key :
           /\ \A j \in EventsFrom(highest + 1) : e <= j
           /\ snaps[e][k] # snaps[e - 1][k]
           /\ highest' = Later(highest, e)
           /\ known' = [known EXCEPT ![k] = snaps[e][k]]
           /\ view' = [view EXCEPT ![k] = snaps[e][k]]
           /\ SendWait
    BY <1>2 DEF WatchRequestDone
  <2>2. e \in 1..index /\ highest < e /\ [view EXCEPT ![k] = snaps[e][k]] = snaps[e]
    BY <1>0, <2>1, EventSuffices, Zenon
  <2>3. highest' = e /\ known' = snaps[e] /\ view' = snaps[e]
    BY <1>0, <2>1, <2>2 DEF Later, index
  <2>4. phase' = "wait" /\ asked' = index
    BY <2>1 DEF SendWait
  <2>5. WatchInv'
    BY <1>0, <2>2, <2>3, <2>4, SeenInv
  <2> QED
    BY <1>0, <2>2, <2>3, <2>5 DEF index
<1> QED
  BY <1>1, <1>2

\* Every step keeps the invariant and none lowers highest_index_seen_.
LEMMA WatchStep == WatchInv /\ [WatchNext]_watchVars => WatchInv' /\ highest' >= highest
<1> SUFFICES ASSUME WatchInv, [WatchNext]_watchVars PROVE WatchInv' /\ highest' >= highest
  OBVIOUS
<1>0. highest \in Int /\ index \in Nat /\ highest <= index
  BY DEF WatchInv, WatchShape, index
<1>1. CASE Change
  BY <1>0, <1>1, ChangeInv DEF Change
<1>2. CASE WatchInitialGetDone
  BY <1>2, InitialGetDoneInv
<1>3. CASE InitialGetFailed
  BY <1>0, <1>3, RestInv DEF InitialGetFailed, WatchReturns
<1>4. CASE RetryGet
  <2>1. CASE cancelled
    BY <1>0, <1>4, <2>1, RestInv DEF RetryGet, WatchReturns
  <2>2. CASE ~cancelled
    BY <1>0, <1>4, <2>2, AskInv DEF RetryGet, SendGet
  <2> QED
    BY <2>1, <2>2
<1>5. CASE WatchOutdated
  <2>1. CASE cancelled
    BY <1>0, <1>5, <2>1, RestInv DEF WatchOutdated, WatchReturns
  <2>2. CASE ~cancelled
    <3>1. highest' = index
      BY <1>0, <1>5, <2>2 DEF WatchOutdated, Later
    <3> QED
      BY <1>0, <1>5, <2>2, <3>1, AskInv DEF WatchOutdated, SendGet
  <2> QED
    BY <2>1, <2>2
<1>6. CASE WatchFailed
  <2>1. CASE cancelled
    BY <1>0, <1>6, <2>1, RestInv DEF WatchFailed, WatchReturns
  <2>2. CASE ~cancelled
    BY <1>0, <1>6, <2>2, AskInv DEF WatchFailed, SendWait
  <2> QED
    BY <2>1, <2>2
<1>7. CASE WatchRequestDone
  BY <1>7, RequestDoneInv
<1>8. CASE Cancel \/ UNCHANGED watchVars
  <2>1. UNCHANGED <<snaps, phase, asked, highest, known, view>>
    BY <1>8 DEF Cancel, watchVars
  <2>2. WatchShape' /\ ClientInv'
    BY <2>1 DEF WatchInv, WatchShape, index, ClientInv, KnownIsView, ViewIsOld, GetIsLater,
                WaitsFromSeen, ViewIsSnapshot
  <2> QED
    BY <1>0, <2>1, <2>2, EtcdStays DEF WatchInv
<1> QED
  BY <1>1, <1>2, <1>3, <1>4, <1>5, <1>6, <1>7, <1>8 DEF WatchNext, Client

-----------------------------------------------------------------------------
(* EtcdWatch: the theorems. *)

(***************************************************************************)
(* EtcdClient::Watch loses nothing: whatever is created, changed and       *)
(* deleted, however little etcd remembers and whichever requests fail, the *)
(* receiver of a watch that polls has been told exactly the directory as   *)
(* it was at the highest index seen, and known_keys_ is what it was told.  *)
(***************************************************************************)
THEOREM WatchFaithful == WatchSpec => [](ViewIsSnapshot /\ KnownIsView)
<1>1. WatchInv => ViewIsSnapshot /\ KnownIsView
  BY DEF WatchInv, ClientInv
<1> QED
  BY <1>1, WatchInitInv, WatchStep, PTL DEF WatchSpec

(***************************************************************************)
(* highest_index_seen_ never decreases, so that no poll asks for an event  *)
(* again that the receiver has been told.                                  *)
(***************************************************************************)
THEOREM WatchForward == WatchSpec => [][NeverBackwards]_watchVars
<1>1. WatchInv /\ [WatchNext]_watchVars => [NeverBackwards]_watchVars
  BY WatchStep DEF NeverBackwards
<1>2. WatchInv /\ [WatchNext]_watchVars => WatchInv'
  BY WatchStep
<1> QED
  BY <1>1, <1>2, WatchInitInv, PTL DEF WatchSpec

-----------------------------------------------------------------------------
(* ServingSth: facts about tree heads. *)

\* A nonempty set of numbers with a bound has a largest one.
LEMMA MaxExists ==
    ASSUME NEW S, S \subseteq Nat, S # {}, NEW b \in Nat, \A x \in S : x <= b
    PROVE  \E x \in S : \A y \in S : y <= x
<1> DEFINE T == {b - x : x \in S}
<1>1. T \subseteq Nat
  BY SMT
<1>2. PICK x \in S : TRUE
  BY Zenon
<1>3. b - x \in T
  OBVIOUS
<1>4. PICK t \in T : \A u \in T : t <= u
  <2> HIDE DEF T
  <2> QED
    BY <1>1, <1>3, LeastExists, Zenon
<1>5. PICK y \in S : t = b - y
  OBVIOUS
<1>6. ASSUME NEW z \in S PROVE z <= y
  <2>1. t <= b - z
    BY <1>4
  <2>2. z \in Nat /\ y \in Nat
    BY Zenon
  <2> QED
    BY <1>5, <2>1, <2>2
<1> QED
  BY <1>6

\* The fields of a tree head; NoSth is none.
LEMMA SthFields ==
    /\ NoSth.size = 0 /\ NoSth.time = 0
    /\ NoSth \notin Sth
    /\ \A h \in Sth : /\ h.size \in Nat /\ h.size <= MaxSize
                      /\ h.time \in Nat /\ h.time >= 1 /\ h.time <= MaxTime
BY HeadAssumption DEF Sth, NoSth

\* Of some heads there is a newest one, and one of a largest tree.
LEMMA NewestExists ==
    ASSUME NEW S, S \subseteq Sth, S # {}
    PROVE  \E h \in S : \A g \in S : g.time <= h.time
<1> DEFINE T == {h.time : h \in S}
<1>1. T \subseteq Nat /\ \A t \in T : t <= MaxTime
  BY SthFields
<1>2. T # {}
  BY Zenon
<1>3. PICK t \in T : \A u \in T : u <= t
  <2> HIDE DEF T
  <2> QED
    BY <1>1, <1>2, MaxExists, HeadAssumption, Zenon
<1> QED
  BY <1>3, Zenon

LEMMA LargestExists ==
    ASSUME NEW S, S \subseteq Sth, S # {}
    PROVE  \E h \in S : \A g \in S : g.size <= h.size
<1> DEFINE T == {h.size : h \in S}
<1>1. T \subseteq Nat /\ \A t \in T : t <= MaxSize
  BY SthFields
<1>2. T # {}
  BY Zenon
<1>3. PICK t \in T : \A u \in T : u <= t
  <2> HIDE DEF T
  <2> QED
    BY <1>1, <1>2, MaxExists, HeadAssumption, Zenon
<1> QED
  BY <1>3, Zenon

-----------------------------------------------------------------------------
(* ServingSth: the inductive invariant. *)

AnyHead == Sth \cup {NoSth}

Shape ==
    /\ served \in Seq(Sth)
    /\ announced \in [Node -> SUBSET Sth]
    /\ size \in [Node -> 0 .. MaxSize]
    /\ newest \in [Node -> AnyHead]
    /\ configured \in [Node -> BOOLEAN]
    /\ calculated \in [Node -> AnyHead]
    /\ updating \in [Node -> AnyHead]

\* A node announces a tree only when its database has the entries.
AnnouncedIsStored == \A n \in Node : \A h \in announced[n] : h.size <= size[n]

HeadInvariant == Shape /\ AnnouncedIsStored

\* The nodes of which the database has s entries, and whether they are enough.
Holders(s) == {n \in Node : size[n] >= s}
Replicated(h) == h # NoSth => Cardinality(Holders(h.size)) >= MinServingNodes

\* With the configuration known, what a node has chosen is replicated, and stays
\* so until it is served.
ChosenIsReplicated ==
    \A n \in Node : /\ configured[n]
                    /\ Replicated(calculated[n])
                    /\ Replicated(updating[n])

ReplicationInv == HeadInvariant /\ ChosenIsReplicated /\ ServedIsReplicated

-----------------------------------------------------------------------------
(* ServingSth: the choice of a head. *)

LEMMA ServedAtHead ==
    ASSUME Shape, NEW p \in 0 .. Len(served)
    PROVE  ServedAt(p) \in AnyHead
BY DEF Shape, ServedAt, AnyHead

LEMMA HeadFields ==
    \A h \in AnyHead : h.size \in Nat /\ h.size <= MaxSize /\ h.time \in 0 .. MaxTime
BY SthFields, HeadAssumption DEF AnyHead

\* all_peers_ has heads that were announced.
LEMMA PeersAnnounced ==
    ASSUME HeadInvariant, NEW state \in NodeStates, NEW m \in Announcing(state)
    PROVE  m \in Node /\ state[m] \in announced[m] /\ state[m] \in Sth
<1>1. m \in Node /\ state[m].time > 0
  BY DEF Announcing
<1>2. state[m] \in announced[m] \cup {NoSth, Gone}
  BY <1>1 DEF NodeStates
<1>3. state[m] # NoSth /\ state[m] # Gone
  BY <1>1 DEF NoSth, Gone
<1> QED
  BY <1>1, <1>2, <1>3 DEF HeadInvariant, Shape

\* sth_by_size: a head of that size which some node has announced.
LEMMA SthBySizeIsAnnounced ==
    ASSUME HeadInvariant, NEW state \in NodeStates, NEW k \in Announcing(state)
    PROVE  /\ SthBySize(state, state[k].size) \in Sth
           /\ SthBySize(state, state[k].size).size = state[k].size
<1> DEFINE S == {state[m] : m \in {j \in Announcing(state) : state[j].size = state[k].size}}
<1>1. S \subseteq Sth /\ \A h \in S : h.size = state[k].size
  BY PeersAnnounced
<1>2. state[k] \in S
  OBVIOUS
<1>3. \E h \in S : \A g \in S : g.time <= h.time
  <2> HIDE DEF S
  <2> QED
    BY <1>1, <1>2, NewestExists
<1>4. Newest(S) \in S
  <2> HIDE DEF S
  <2> QED
    BY <1>3 DEF Newest
<1>5. SthBySize(state, state[k].size) = Newest(S)
  BY DEF SthBySize
<1> HIDE DEF S
<1> QED
  BY <1>1, <1>4, <1>5

\* The nodes counted for a size have it in their databases.
LEMMA SeenAreHolders ==
    ASSUME HeadInvariant, NEW state \in NodeStates, NEW s \in Nat
    PROVE  NumNodesSeen(state, s) <= Cardinality(Holders(s))
<1> DEFINE Seen == {m \in Announcing(state) : state[m].size >= s}
<1>1. Seen \subseteq Holders(s)
  <2> SUFFICES ASSUME NEW m \in Seen PROVE m \in Holders(s)
    OBVIOUS
  <2>1. m \in Node /\ state[m] \in announced[m] /\ state[m] \in Sth
    BY PeersAnnounced
  <2>2. state[m].size <= size[m] /\ size[m] \in Nat /\ state[m].size \in Nat
    BY <2>1, SthFields DEF HeadInvariant, AnnouncedIsStored, Shape
  <2> QED
    BY <2>1, <2>2 DEF Holders
<1>2. IsFiniteSet(Holders(s))
  BY NodeAssumption, FS_Subset DEF Holders
<1>3. Cardinality(Seen) <= Cardinality(Holders(s))
  <2> HIDE DEF Seen
  <2> QED
    BY <1>1, <1>2, FS_Subset
<1> QED
  BY <1>3 DEF NumNodesSeen

LEMMA CandidatesAreGood ==
    ASSUME HeadInvariant, NEW n \in Node, NEW state \in NodeStates, NEW conf \in BOOLEAN,
           NEW c \in Candidates(n, state, conf)
    PROVE  c \in Sth /\ (conf => Replicated(c))
<1>1. PICK k \in Announcing(state) :
         c = SthBySize(state, state[k].size) /\ EnoughNodes(state, conf, state[k].size)
  <2> DEFINE sizes == {state[m].size : m \in Announcing(state)}
  <2>1. PICK s \in sizes : c = SthBySize(state, s) /\ EnoughNodes(state, conf, s)
    BY DEF Candidates
  <2> QED
    BY <2>1
<1>2. c \in Sth /\ c.size = state[k].size /\ c.size \in Nat
  BY <1>1, SthBySizeIsAnnounced, SthFields
<1>3. conf => NumNodesSeen(state, c.size) >= MinServingNodes
  BY <1>1, <1>2 DEF EnoughNodes
<1>4. NumNodesSeen(state, c.size) <= Cardinality(Holders(c.size))
  BY <1>2, SeenAreHolders
<1>5. NumNodesSeen(state, c.size) \in Nat /\ Cardinality(Holders(c.size)) \in Nat
  <2>1. IsFiniteSet(Holders(c.size)) /\ IsFiniteSet({m \in Announcing(state) : state[m].size >= c.size})
    BY NodeAssumption, FS_Subset DEF Holders, Announcing
  <2> QED
    BY <2>1, FS_CardinalityType DEF NumNodesSeen
<1> QED
  BY <1>2, <1>3, <1>4, <1>5, BoundAssumption DEF Replicated

\* What the loop of CalculateServingSTH selects.
LEMMA SelectableIsGood ==
    ASSUME HeadInvariant, NEW n \in Node, NEW conf \in BOOLEAN,
           NEW sth \in Selectable(n, conf)
    PROVE  sth \in AnyHead /\ (conf => Replicated(sth))
<1>1. PICK state \in NodeStates, actual \in ActualSths(n) :
         sth = SelectSTH(Candidates(n, state, conf), actual)
  <2> DEFINE CC == {Candidates(n, state, conf) : state \in NodeStates}
  <2>1. PICK C \in CC, actual \in ActualSths(n) : sth = SelectSTH(C, actual)
    BY DEF Selectable
  <2> QED
    BY <2>1
<1> DEFINE C == Candidates(n, state, conf)
           viable == {h \in C : h.time > actual.time}
<1>2. \A c \in C : c \in Sth /\ (conf => Replicated(c))
  BY CandidatesAreGood
<1> HIDE DEF C
<1>3. CASE viable = {}
  <2>1. sth = NoSth
    BY <1>1, <1>3 DEF SelectSTH, C
  <2> QED
    BY <2>1 DEF AnyHead, Replicated
<1>4. CASE viable # {}
  <2>1. viable \subseteq Sth
    BY <1>2
  <2>2. sth = CHOOSE h \in viable : \A other \in viable : other.size <= h.size
    BY <1>1, <1>4 DEF SelectSTH, C
  <2>3. \E h \in viable : \A other \in viable : other.size <= h.size
    <3> HIDE DEF viable
    <3> QED
      BY <1>4, <2>1, LargestExists
  <2>4. sth \in viable
    <3> HIDE DEF viable
    <3> QED
      BY <2>2, <2>3
  <2> QED
    BY <1>2, <2>4 DEF AnyHead
<1> QED
  BY <1>3, <1>4

-----------------------------------------------------------------------------
(* ServingSth: the steps. *)

\* A process that starts again announces a head whose entries it has, and has
\* chosen none.
LEMMA RebootInv ==
    ASSUME HeadInvariant, NEW n \in Node, Reboot(n)
    PROVE  /\ HeadInvariant' /\ UNCHANGED <<served, size>>
           /\ \A m \in Node : /\ calculated'[m] \in {calculated[m], NoSth}
                              /\ updating'[m] \in {updating[m], NoSth}
                              /\ configured'[m] \in {configured[m], ~LateConfig}
<1>1. PICK head \in {ServedAt(p) : p \in 0 .. Len(served)} :
         /\ head.size <= size[n]
         /\ newest' = Put(newest, n, head)
         /\ announced' = [announced EXCEPT ![n] = @ \cup ({head} \ {NoSth})]
  BY Zenon DEF Reboot
<1>2. /\ configured' = Put(configured, n, ~LateConfig)
      /\ calculated' = Put(calculated, n, NoSth)
      /\ updating' = Put(updating, n, NoSth)
      /\ UNCHANGED <<served, size>>
  BY DEF Reboot
<1>3. head \in AnyHead /\ NoSth \in AnyHead /\ {head} \ {NoSth} \subseteq Sth
  BY ServedAtHead DEF HeadInvariant, AnyHead
<1>4. announced' \in [Node -> SUBSET Sth]
  BY <1>1, <1>3 DEF HeadInvariant, Shape
<1>5. newest' \in [Node -> AnyHead] /\ calculated' \in [Node -> AnyHead]
      /\ updating' \in [Node -> AnyHead] /\ configured' \in [Node -> BOOLEAN]
  BY <1>1, <1>2, <1>3, BoundAssumption DEF HeadInvariant, Shape, Put
<1>6. Shape'
  BY <1>2, <1>4, <1>5 DEF HeadInvariant, Shape
<1>7. AnnouncedIsStored'
  <2> SUFFICES ASSUME NEW m \in Node, NEW h \in announced'[m] PROVE h.size <= size[m]
    BY <1>2 DEF AnnouncedIsStored
  <2>1. h \in announced[m] \/ (m = n /\ h = head)
    BY <1>1 DEF HeadInvariant, Shape
  <2> QED
    BY <1>1, <2>1 DEF HeadInvariant, AnnouncedIsStored
<1>8. HeadInvariant'
  BY <1>6, <1>7, Zenon DEF HeadInvariant
<1>9. /\ configured \in [Node -> BOOLEAN] /\ calculated \in [Node -> AnyHead]
      /\ updating \in [Node -> AnyHead]
  BY DEF HeadInvariant, Shape
<1>10. ASSUME NEW m \in Node
       PROVE  /\ calculated'[m] \in {calculated[m], NoSth}
              /\ updating'[m] \in {updating[m], NoSth}
              /\ configured'[m] \in {configured[m], ~LateConfig}
  BY <1>2, <1>9 DEF Put
<1> QED
  BY <1>2, <1>8, <1>10

\* The part of the state that HeadInvariant is about.
headVars == <<served, announced, size, newest, configured, calculated, updating>>

\* A step that leaves that part alone keeps HeadInvariant.
LEMMA HeadUnchanged ==
    ASSUME HeadInvariant, UNCHANGED headVars
    PROVE  HeadInvariant' /\ UNCHANGED served /\ \A m \in Node : size[m] <= size'[m]
<1>1. Shape'
  BY DEF headVars, HeadInvariant, Shape
<1>2. AnnouncedIsStored'
  BY DEF headVars, HeadInvariant, AnnouncedIsStored
<1>3. \A m \in Node : size[m] <= size'[m]
  BY DEF headVars, HeadInvariant, Shape
<1>4. UNCHANGED served
  BY DEF headVars
<1> QED
  BY <1>1, <1>2, <1>3, <1>4, Zenon DEF HeadInvariant

\* A step that stores neither a serving STH nor an entry.
LEMMA HeadSameSizes ==
    ASSUME HeadInvariant, UNCHANGED <<served, size>>, Shape', AnnouncedIsStored'
    PROVE  HeadInvariant' /\ UNCHANGED served /\ \A m \in Node : size[m] <= size'[m]
<1>1. \A m \in Node : size[m] <= size'[m]
  BY DEF HeadInvariant, Shape
<1>2. UNCHANGED served
  OBVIOUS
<1> QED
  BY <1>1, <1>2, Zenon DEF HeadInvariant

\* The updater takes the head that was calculated, or drops the one it has.
LEMMA UpdaterMoves ==
    ASSUME NEW n \in Node, UpdaterTake(n) \/ UpdateFails(n)
    PROVE  /\ UNCHANGED <<served, announced, size, newest, configured, calculated>>
           /\ UNCHANGED <<served, configured, calculated>>
           /\ \/ updating' = Put(updating, n, calculated[n])
              \/ updating' = Put(updating, n, NoSth)
<1>1. CASE UpdaterTake(n)
  BY <1>1 DEF UpdaterTake
<1>2. CASE UpdateFails(n)
  BY <1>2 DEF UpdateFails
<1> QED
  BY <1>1, <1>2, Zenon

\* More entries make no node lose what it has.
LEMMA HoldersStay ==
    ASSUME Shape, Shape', NEW s \in Nat, \A m \in Node : size[m] <= size'[m]
    PROVE  /\ Cardinality(Holders(s)) \in Nat
           /\ Cardinality(Holders(s)') \in Nat
           /\ Cardinality(Holders(s)) <= Cardinality(Holders(s)')
<1>1. Holders(s) \subseteq Holders(s)'
  BY DEF Holders, Shape
<1>2. IsFiniteSet(Holders(s)) /\ IsFiniteSet(Holders(s)')
  BY NodeAssumption, FS_Subset DEF Holders
<1> QED
  BY <1>1, <1>2, FS_Subset, FS_CardinalityType

\* Every action keeps the shape of the state, and what is announced is stored.
\* One that stores a serving STH does it as ServingHead says.
LEMMA HeadStep ==
    ASSUME HeadInvariant, [Next]_vars
    PROVE  HeadInvariant' /\ [HeadNext]_served /\ \A m \in Node : size[m] <= size'[m]
<1>0. \A m \in Node : size[m] \in Nat
  BY DEF HeadInvariant, Shape
<1>1. CASE UNCHANGED vars
  <2>1. UNCHANGED headVars
    BY <1>1 DEF vars, memory, headVars
  <2> QED
    BY <2>1, HeadUnchanged, Zenon
<1>2. ASSUME NEW n \in Node, Reboot(n)
      PROVE  HeadInvariant' /\ UNCHANGED served /\ \A m \in Node : size[m] <= size'[m]
  BY <1>0, <1>2, RebootInv
<1>3. ASSUME NEW n \in Node, Elect(n)
      PROVE  HeadInvariant' /\ UNCHANGED served /\ \A m \in Node : size[m] <= size'[m]
  <2>1. UNCHANGED headVars
    BY <1>3 DEF Elect, memory, headVars
  <2> QED
    BY <2>1, HeadUnchanged, Zenon
<1>4. ASSUME NEW n \in Node, CreateSequencedEntry(n)
      PROVE  HeadInvariant' /\ UNCHANGED served /\ \A m \in Node : size[m] <= size'[m]
  <2>1. /\ size[n] < MaxSize /\ size' = [size EXCEPT ![n] = @ + 1]
        /\ UNCHANGED <<served, announced, newest, configured, calculated, updating>>
    BY <1>4 DEF CreateSequencedEntry, memory
  <2>2. size' \in [Node -> 0 .. MaxSize] /\ \A m \in Node : size[m] <= size'[m]
    BY <2>1, HeadAssumption DEF HeadInvariant, Shape
  <2>3. Shape'
    BY <2>1, <2>2 DEF HeadInvariant, Shape
  <2>4. AnnouncedIsStored'
    <3> SUFFICES ASSUME NEW m \in Node, NEW h \in announced[m] PROVE h.size <= size'[m]
      BY <2>1 DEF AnnouncedIsStored
    <3>1. h \in Sth /\ h.size \in Nat /\ h.size <= size[m] /\ size'[m] \in Nat
      BY <2>2, SthFields DEF HeadInvariant, Shape, AnnouncedIsStored
    <3> QED
      BY <1>0, <2>2, <3>1
  <2>5. UNCHANGED served
    BY <2>1
  <2> QED
    BY <2>2, <2>3, <2>4, <2>5, Zenon DEF HeadInvariant
<1>5. ASSUME NEW n \in Node, SignMerkleTree(n)
      PROVE  HeadInvariant' /\ UNCHANGED served /\ \A m \in Node : size[m] <= size'[m]
  <2> DEFINE sth(t) == [size |-> size[n], time |-> t]
  <2>1. PICK time \in Timestamps(newest[n]) :
           /\ newest' = Put(newest, n, sth(time))
           /\ announced' = [announced EXCEPT ![n] = @ \cup {sth(time)}]
    BY <1>5, Zenon DEF SignMerkleTree
  <2>2. UNCHANGED <<served, size, configured, calculated, updating>>
    BY <1>5 DEF SignMerkleTree
  <2>3. newest[n] \in AnyHead /\ size[n] \in 0 .. MaxSize
    BY DEF HeadInvariant, Shape
  <2>4. newest[n].time \in 0 .. MaxTime
    BY <2>3, HeadFields
  <2>5. time \in 1 .. MaxTime
    BY <2>4, HeadAssumption DEF Timestamps
  <2>6. sth(time) \in Sth /\ sth(time) \in AnyHead /\ sth(time).size = size[n]
    BY <2>3, <2>5, Zenon DEF Sth, AnyHead
  <2> HIDE DEF sth
  <2>7. Shape'
    <3>1. newest' \in [Node -> AnyHead] /\ announced' \in [Node -> SUBSET Sth]
      BY <2>1, <2>6 DEF HeadInvariant, Shape, Put
    <3> QED
      BY <2>2, <3>1 DEF HeadInvariant, Shape
  <2>8. AnnouncedIsStored'
    <3> SUFFICES ASSUME NEW m \in Node, NEW h \in announced'[m] PROVE h.size <= size[m]
      BY <2>2 DEF AnnouncedIsStored
    <3>1. h \in announced[m] \/ (m = n /\ h = sth(time))
      BY <2>1 DEF HeadInvariant, Shape
    <3>2. CASE h \in announced[m]
      BY <3>2, Zenon DEF HeadInvariant, AnnouncedIsStored
    <3>3. CASE m = n /\ h = sth(time)
      BY <1>0, <2>6, <3>3
    <3> QED
      BY <3>1, <3>2, <3>3, Zenon
  <2> QED
    BY <2>2, <2>7, <2>8, HeadSameSizes, Zenon
<1>6. ASSUME NEW n \in Node, NEW conf \in {configured[n], TRUE},
             NEW sth \in Selectable(n, conf), OnClusterUpdated(n, conf, sth)
      PROVE  HeadInvariant' /\ UNCHANGED served /\ \A m \in Node : size[m] <= size'[m]
  <2>1. conf \in BOOLEAN
    BY Zenon DEF HeadInvariant, Shape
  <2>2. sth \in AnyHead
    BY <2>1, SelectableIsGood
  <2>3. configured' = Put(configured, n, conf)
        /\ UNCHANGED <<served, announced, size, newest, updating>>
    BY <1>6 DEF OnClusterUpdated
  <2>4. calculated' = calculated \/ calculated' = Put(calculated, n, sth)
    BY <1>6 DEF OnClusterUpdated, CalculateServingSTH
  <2>5. Shape'
    <3>1. configured' \in [Node -> BOOLEAN] /\ calculated' \in [Node -> AnyHead]
      BY <2>1, <2>2, <2>3, <2>4 DEF HeadInvariant, Shape, Put
    <3> QED
      BY <2>3, <3>1 DEF HeadInvariant, Shape
  <2>6. AnnouncedIsStored'
    BY <2>3 DEF HeadInvariant, AnnouncedIsStored
  <2> QED
    BY <2>3, <2>5, <2>6, HeadSameSizes, Zenon
<1>7. ASSUME NEW n \in Node, UpdaterTake(n) \/ UpdateFails(n)
      PROVE  HeadInvariant' /\ UNCHANGED served /\ \A m \in Node : size[m] <= size'[m]
  <2>1. UNCHANGED <<served, announced, size, newest, configured, calculated>>
    BY <1>7, UpdaterMoves, Zenon
  <2>2. updating' = Put(updating, n, calculated[n]) \/ updating' = Put(updating, n, NoSth)
    BY <1>7, UpdaterMoves, Zenon
  <2>3. Shape'
    <3>1. updating' \in [Node -> AnyHead]
      BY <2>1, <2>2 DEF HeadInvariant, Shape, Put, AnyHead
    <3> QED
      BY <2>1, <3>1 DEF HeadInvariant, Shape
  <2>4. AnnouncedIsStored'
    BY <2>1 DEF HeadInvariant, AnnouncedIsStored
  <2> QED
    BY <2>1, <2>3, <2>4, HeadSameSizes, Zenon
<1>8. ASSUME NEW n \in Node, SetServingSTH(n)
      PROVE  HeadInvariant' /\ [HeadNext]_served /\ \A m \in Node : size[m] <= size'[m]
  <2>1. CASE Die(n)
    BY <1>2, <2>1, Zenon DEF Die
  <2>2. CASE ~Die(n)
    <3>1. ~ (master[n] /\ ServedAt(stored[n]).time < updating[n].time /\ SizeIsWeird(n))
      BY <1>8, <2>2, Zenon DEF SetServingSTH
    <3>2. /\ updating[n] # NoSth
          /\ IF UpdateRefused(n) THEN UNCHANGED served
             ELSE served' = Append(served, updating[n])
          /\ updating' = Put(updating, n, NoSth)
          /\ UNCHANGED <<announced, size, newest, configured, calculated>>
      BY <1>8, <3>1 DEF SetServingSTH
    <3>3. updating[n] \in Sth
      BY <3>2 DEF HeadInvariant, Shape, AnyHead
    <3>4. updating' \in [Node -> AnyHead]
      BY <3>2 DEF HeadInvariant, Shape, Put, AnyHead
    <3>5. served' \in Seq(Sth)
      <4>1. served \in Seq(Sth) /\ Append(served, updating[n]) \in Seq(Sth)
        BY <3>3 DEF HeadInvariant, Shape
      <4>2. served' = served \/ served' = Append(served, updating[n])
        BY <3>2
      <4> QED
        BY <4>1, <4>2
    <3>6. HeadInvariant'
      <4>1. Shape'
        BY <3>2, <3>4, <3>5 DEF HeadInvariant, Shape
      <4>2. AnnouncedIsStored'
        BY <3>2 DEF HeadInvariant, AnnouncedIsStored
      <4> QED
        BY <4>1, <4>2, Zenon DEF HeadInvariant
    <3>7. ~UpdateRefused(n) => Serve(updating[n])
      <4> SUFFICES ASSUME ~UpdateRefused(n) PROVE Serve(updating[n])
        OBVIOUS
      <4>1. /\ master[n] /\ stored[n] = Len(served)
            /\ ~ (ServedAt(stored[n]).time >= updating[n].time)
        BY DEF UpdateRefused
      <4>2. Serving = ServedAt(stored[n])
        BY <4>1 DEF Serving
      <4>3. Serving \in AnyHead /\ updating[n] \in AnyHead
        BY <3>3, ServedAtHead DEF Serving, HeadInvariant, Shape, AnyHead
      <4>4. /\ Serving.time \in Nat /\ updating[n].time \in Nat
            /\ Serving.size \in Nat /\ updating[n].size \in Nat
        BY <4>3, HeadFields
      <4>5. updating[n].time > Serving.time
        BY <4>1, <4>2, <4>4
      <4>6. ~ SizeIsWeird(n)
        BY <3>1, <4>1, <4>2, <4>4, <4>5
      <4>7. updating[n].size >= Serving.size
        BY <4>2, <4>4, <4>6 DEF SizeIsWeird
      <4> QED
        BY <3>2, <4>5, <4>7 DEF Serve
    <3>8. [HeadNext]_served
      BY <3>2, <3>3, <3>7 DEF HeadNext
    <3>9. \A m \in Node : size[m] <= size'[m]
      BY <1>0, <3>2
    <3> QED
      BY <3>6, <3>8, <3>9, Zenon
  <2> QED
    BY <2>1, <2>2, Zenon
<1>9. ASSUME NEW n \in Node, OnEtcdServingSTHUpdated(n)
      PROVE  HeadInvariant' /\ UNCHANGED served /\ \A m \in Node : size[m] <= size'[m]
  <2>1. CASE Die(n)
    BY <1>2, <2>1, Zenon DEF Die
  <2>2. CASE ~Die(n)
    <3>1. UNCHANGED headVars
      BY <1>9, <2>2 DEF OnEtcdServingSTHUpdated, headVars
    <3> QED
      BY <3>1, HeadUnchanged, Zenon
  <2> QED
    BY <2>1, <2>2, Zenon
<1>10. ASSUME NEW n \in Node, Step(n)
       PROVE  HeadInvariant' /\ [HeadNext]_served /\ \A m \in Node : size[m] <= size'[m]
  BY <1>2, <1>3, <1>4, <1>5, <1>6, <1>7, <1>8, <1>9, <1>10, Zenon DEF Step, Restart
<1> QED
  BY <1>1, <1>10, Zenon DEF Next

\* The serving STH is a function of what was stored under /serving_sth.
LEMMA ServingStays ==
    ASSUME UNCHANGED served
    PROVE  Serving' = Serving
BY DEF Serving, ServedAt

\* What a step may choose, pass on to the updater and serve.
LEMMA StepChoices ==
    ASSUME HeadInvariant, [Next]_vars
    PROVE  /\ \A m \in Node :
                 /\ configured'[m] \in {configured[m], TRUE, ~LateConfig}
                 /\ \/ calculated'[m] \in {calculated[m], NoSth}
                    \/ \E conf \in {configured[m], TRUE} :
                          calculated'[m] \in Selectable(m, conf)
                 /\ updating'[m] \in {updating[m], calculated[m], NoSth}
           /\ Serving' = Serving \/ \E m \in Node : Serving' = updating[m]
<1> DEFINE Same(m) == /\ configured'[m] = configured[m]
                      /\ calculated'[m] = calculated[m]
                      /\ updating'[m] = updating[m]
<1>1. CASE UNCHANGED vars
  <2>1. configured' = configured /\ calculated' = calculated /\ updating' = updating
    BY <1>1 DEF vars, memory
  <2>2. UNCHANGED served
    BY <1>1 DEF vars
  <2>3. Serving' = Serving
    BY <2>2, ServingStays
  <2> QED
    BY <2>1, <2>3
<1>2. ASSUME NEW n \in Node, Step(n)
      PROVE  /\ \A m \in Node : m # n => Same(m)
             /\ configured'[n] \in {configured[n], TRUE, ~LateConfig}
             /\ \/ calculated'[n] \in {calculated[n], NoSth}
                \/ \E conf \in {configured[n], TRUE} :
                      calculated'[n] \in Selectable(n, conf)
             /\ updating'[n] \in {updating[n], calculated[n], NoSth}
             /\ Serving' \in {Serving, updating[n]}
  <2>0. /\ configured \in [Node -> BOOLEAN]
        /\ calculated \in [Node -> AnyHead] /\ updating \in [Node -> AnyHead]
        /\ served \in Seq(Sth)
    BY DEF HeadInvariant, Shape
  <2>1. CASE Reboot(n)
    <3>1. /\ configured' = Put(configured, n, ~LateConfig)
          /\ calculated' = Put(calculated, n, NoSth)
          /\ updating' = Put(updating, n, NoSth)
          /\ UNCHANGED served
      BY <2>1 DEF Reboot
    <3>2. \A m \in Node : m # n => Same(m)
      BY <2>0, <3>1 DEF Put
    <3>3. configured'[n] = ~LateConfig /\ calculated'[n] = NoSth /\ updating'[n] = NoSth
      BY <2>0, <3>1 DEF Put
    <3>4. Serving' = Serving
      BY <3>1, ServingStays
    <3> HIDE DEF Same
    <3> QED
      BY <3>2, <3>3, <3>4
  <2>2. CASE UNCHANGED <<served, configured, calculated, updating>>
    <3>1. \A m \in Node : Same(m)
      BY <2>2
    <3>2. Serving' = Serving
      BY <2>2, ServingStays
    <3> QED
      BY <3>1, <3>2, Zenon
  <2>3. CASE \E conf \in {configured[n], TRUE} :
               \E sth \in Selectable(n, conf) : OnClusterUpdated(n, conf, sth)
    <3>0. PICK conf \in {configured[n], TRUE} :
             \E sth \in Selectable(n, conf) : OnClusterUpdated(n, conf, sth)
      BY <2>3, Zenon
    <3>1. PICK sth \in Selectable(n, conf) : OnClusterUpdated(n, conf, sth)
      BY <3>0
    <3>2. configured' = Put(configured, n, conf) /\ UNCHANGED <<served, updating>>
      BY <3>1 DEF OnClusterUpdated
    <3>3. calculated' = calculated \/ calculated' = Put(calculated, n, sth)
      BY <3>1 DEF OnClusterUpdated, CalculateServingSTH
    <3>4. \A m \in Node : m # n => Same(m)
      BY <2>0, <3>2, <3>3 DEF Put
    <3>5. configured'[n] = conf /\ calculated'[n] \in {calculated[n], sth}
      BY <2>0, <3>2, <3>3 DEF Put
    <3>6. Serving' = Serving /\ updating'[n] = updating[n]
      BY <3>2, ServingStays
    <3> HIDE DEF Same
    <3> QED
      BY <3>1, <3>4, <3>5, <3>6, Zenon
  <2>4. CASE UpdaterTake(n) \/ UpdateFails(n)
    <3>1. UNCHANGED <<served, configured, calculated>>
      BY <2>4, UpdaterMoves, Zenon
    <3>2. updating' = Put(updating, n, calculated[n]) \/ updating' = Put(updating, n, NoSth)
      BY <2>4, UpdaterMoves, Zenon
    <3>3. \A m \in Node : m # n => Same(m)
      BY <2>0, <3>1, <3>2 DEF Put
    <3>4. /\ configured'[n] = configured[n] /\ calculated'[n] = calculated[n]
          /\ updating'[n] \in {calculated[n], NoSth}
      BY <2>0, <3>1, <3>2 DEF Put
    <3>5. Serving' = Serving
      BY <3>1, ServingStays
    <3> HIDE DEF Same
    <3> QED
      BY <3>3, <3>4, <3>5
  <2>5. CASE SetServingSTH(n) /\ ~Reboot(n)
    <3>1. /\ IF UpdateRefused(n) THEN UNCHANGED served
             ELSE served' = Append(served, updating[n])
          /\ updating' = Put(updating, n, NoSth)
          /\ UNCHANGED <<configured, calculated>>
      BY <2>5 DEF SetServingSTH, Die
    <3>2. Serving' \in {Serving, updating[n]}
      <4>1. CASE UpdateRefused(n)
        BY <3>1, <4>1, ServingStays
      <4>2. CASE ~UpdateRefused(n)
        <5>1. served' = Append(served, updating[n]) /\ Len(served) \in Nat
          BY <2>0, <3>1, <4>2
        <5>2. Len(served') # 0 /\ served'[Len(served')] = updating[n]
          BY <2>0, <5>1
        <5> QED
          BY <5>2 DEF Serving, ServedAt
      <4> QED
        BY <4>1, <4>2
    <3>3. \A m \in Node : m # n => Same(m)
      BY <2>0, <3>1 DEF Put
    <3>4. /\ configured'[n] = configured[n] /\ calculated'[n] = calculated[n]
          /\ updating'[n] = NoSth
      BY <2>0, <3>1 DEF Put
    <3>5. /\ configured'[n] \in {configured[n], TRUE, ~LateConfig}
          /\ calculated'[n] \in {calculated[n], NoSth}
          /\ updating'[n] \in {updating[n], calculated[n], NoSth}
      BY <3>4
    <3> HIDE DEF Same
    <3> QED
      BY <3>2, <3>3, <3>5, Zenon
  <2>6. CASE OnEtcdServingSTHUpdated(n) /\ ~Reboot(n)
    <3>1. UNCHANGED <<served, configured, calculated, updating>>
      BY <2>6 DEF OnEtcdServingSTHUpdated, Die
    <3> QED
      BY <2>2, <3>1, Zenon
  <2>7. CASE Elect(n) \/ CreateSequencedEntry(n) \/ SignMerkleTree(n)
    <3>1. UNCHANGED <<served, configured, calculated, updating>>
      BY <2>7 DEF Elect, CreateSequencedEntry, SignMerkleTree, memory
    <3> QED
      BY <2>2, <3>1, Zenon
  <2> QED
    BY <1>2, <2>1, <2>3, <2>4, <2>5, <2>6, <2>7, Zenon DEF Step, Restart
<1>3. CASE \E n \in Node : Step(n)
  <2>1. PICK n \in Node : Step(n)
    BY <1>3
  <2> QED
    BY <1>2, <2>1, Zenon
<1> QED
  BY <1>1, <1>3, Zenon DEF Next

\* Everything chosen is replicated if the configuration is known from the start.
LEMMA ReplicationStep ==
    ASSUME ~LateConfig, ReplicationInv, [Next]_vars
    PROVE  ReplicationInv'
<1>1. HeadInvariant /\ HeadInvariant' /\ \A m \in Node : size[m] <= size'[m]
  BY HeadStep DEF ReplicationInv
<1>2. ASSUME NEW h \in AnyHead, Replicated(h)
      PROVE  h # NoSth => Cardinality(Holders(h.size)') >= MinServingNodes
  <2>1. h.size \in Nat
    BY HeadFields
  <2>2. /\ Cardinality(Holders(h.size)) \in Nat
        /\ Cardinality(Holders(h.size)') \in Nat
        /\ Cardinality(Holders(h.size)) <= Cardinality(Holders(h.size)')
    BY <1>1, <2>1, HoldersStay DEF HeadInvariant
  <2> QED
    BY <1>2, <2>2, BoundAssumption DEF Replicated
<1>3. NoSth \in AnyHead /\ Replicated(NoSth)
  BY DEF AnyHead, Replicated
<1>4. \A m \in Node : /\ configured[m] /\ calculated[m] \in AnyHead /\ updating[m] \in AnyHead
                      /\ Replicated(calculated[m]) /\ Replicated(updating[m])
  BY <1>1 DEF ReplicationInv, ChosenIsReplicated, HeadInvariant, Shape
<1>5. Serving \in AnyHead /\ Replicated(Serving)
  BY <1>1, ServedAtHead
     DEF Serving, HeadInvariant, Shape, ReplicationInv, ServedIsReplicated, Replicated, Holders
<1>6. ASSUME NEW m \in Node
      PROVE  /\ calculated'[m] \in AnyHead /\ Replicated(calculated'[m])
             /\ updating'[m] \in AnyHead /\ Replicated(updating'[m])
             /\ configured'[m]
  <2>1. \A sth \in Selectable(m, TRUE) : sth \in AnyHead /\ Replicated(sth)
    BY <1>1, SelectableIsGood, Zenon
  <2>2. configured[m] = TRUE
    BY <1>1, <1>4 DEF HeadInvariant, Shape
  <2>3. /\ configured'[m] \in {configured[m], TRUE, ~LateConfig}
        /\ \/ calculated'[m] \in {calculated[m], NoSth}
           \/ \E conf \in {configured[m], TRUE} : calculated'[m] \in Selectable(m, conf)
        /\ updating'[m] \in {updating[m], calculated[m], NoSth}
    BY <1>1, StepChoices, Zenon
  <2> QED
    BY <1>3, <1>4, <2>1, <2>2, <2>3, Zenon
<1>7. Serving' \in AnyHead /\ Replicated(Serving')
  <2>1. Serving' = Serving \/ \E m \in Node : Serving' = updating[m]
    BY <1>1, StepChoices, Zenon
  <2> QED
    BY <1>4, <1>5, <2>1
<1>8. ChosenIsReplicated'
  BY <1>2, <1>6 DEF ChosenIsReplicated, Replicated
<1>9. ServedIsReplicated'
  BY <1>2, <1>7 DEF ServedIsReplicated, Replicated, Holders
<1> QED
  BY <1>1, <1>8, <1>9 DEF ReplicationInv

LEMMA InitInv == Init => HeadInvariant /\ HeadInit /\ (~LateConfig => ReplicationInv)
<1> SUFFICES ASSUME Init
             PROVE  HeadInvariant /\ HeadInit /\ (~LateConfig => ReplicationInv)
  OBVIOUS
<1>1. /\ served = <<>> /\ announced = [n \in Node |-> {}] /\ size = [n \in Node |-> 0]
      /\ newest = [n \in Node |-> NoSth] /\ configured = [n \in Node |-> ~LateConfig]
      /\ calculated = [n \in Node |-> NoSth] /\ updating = [n \in Node |-> NoSth]
  BY DEF Init
<1>2. HeadInvariant
  BY <1>1, HeadAssumption, BoundAssumption
     DEF HeadInvariant, Shape, AnnouncedIsStored, AnyHead
<1>3. Serving = NoSth
  BY <1>1 DEF Serving, ServedAt
<1>4. ~LateConfig => ChosenIsReplicated /\ ServedIsReplicated
  BY <1>1, <1>3, Zenon DEF ChosenIsReplicated, ServedIsReplicated, Replicated
<1> QED
  BY <1>1, <1>2, <1>4 DEF HeadInit, ReplicationInv

-----------------------------------------------------------------------------
(* ServingSth: the theorems. *)

(***************************************************************************)
(* The cluster keeps the promise of ServingHead: however many nodes take   *)
(* themselves for the master, and whatever they select from states that    *)
(* are out of date, the compare-and-set in SetServingSTH and the checks    *)
(* before it let /serving_sth change only to a newer head of a tree that   *)
(* is not smaller.                                                         *)
(***************************************************************************)
THEOREM ServesAsPromised == Spec => HeadSpec
<1>1. HeadInvariant /\ [Next]_vars => HeadInvariant' /\ [HeadNext]_served
  BY HeadStep
<1>2. Init => HeadInvariant /\ HeadInit
  BY InitInv
<1> QED
  BY <1>1, <1>2, PTL DEF Spec, HeadSpec

(***************************************************************************)
(* Where the configuration is delivered before the node states, a tree is  *)
(* only served when MinServingNodes databases have it, for any thresholds  *)
(* (CalculateServingSTH): the choice is made from what nodes announced at  *)
(* some time, which their databases still have when it is served.          *)
(***************************************************************************)
THEOREM ServedOnEnough ==
    ASSUME ~LateConfig
    PROVE  Spec => []ServedIsReplicated
<1>1. ReplicationInv => ServedIsReplicated
  BY DEF ReplicationInv
<1>2. Init => ReplicationInv
  BY InitInv
<1>3. ReplicationInv /\ [Next]_vars => ReplicationInv'
  BY ReplicationStep
<1> QED
  BY <1>1, <1>2, <1>3, PTL DEF Spec

=============================================================================
