-------------------------- MODULE LogServerProofs --------------------------
(***************************************************************************)
(* Theorems about the two sides of a node: what it answers its clients     *)
(* from its tree and its database (LogServer), for any number of requests, *)
(* entries and tree heads; and what it fetches from its peers              *)
(* (ContinuousFetcher), for any number of peers, changes and failed        *)
(* fetches, and trees of any size.                                         *)
(***************************************************************************)
EXTENDS LogServer, ContinuousFetcher, WellFoundedInduction, TLAPS

\* Leaves that name no prover are given to SMT and then to Zenon, with time
\* enough for a busy machine.
USE SMTT(15), ZenonT(25)

-----------------------------------------------------------------------------
(* A fact about numbers. *)

\* Of some numbers there is a least one.
LEMMA LeastExists ==
    ASSUME NEW S, S \subseteq Nat, S # {}
    PROVE  \E n \in S : \A m \in S : n <= m
<1> DEFINE R == {x \in Nat \X Nat : x[1] < x[2]}
<1>1. IsWellFoundedOn(R, Nat)
  BY NatLessThanWellFounded DEF OpToRel
<1>2. PICK n \in S : \A m \in S : <<m, n>> \notin R
  <2> HIDE DEF R
  <2> QED
    BY <1>1, WFMin, Zenon
<1>3. ASSUME NEW m \in S
      PROVE  n <= m
  <2>1. m \in Nat /\ n \in Nat
    OBVIOUS
  <2>2. ~(m < n)
    BY <1>2, <2>1, Zenon
  <2> QED
    BY <2>1, <2>2
<1> QED
  BY <1>3

-----------------------------------------------------------------------------
(* LogServer: the inductive invariant. *)

\* No entry is none.
ServerSetting ==
    MaxLeaves \in Nat /\ MaxStamp \in Nat /\ MaxEntries \in Int /\ None \notin Leaf

ServerShape ==
    /\ db \in [0..(MaxLeaves - 1) -> Leaf \cup {None}]
    /\ tree \in Seq(Leaf) /\ Len(tree) <= MaxLeaves
    /\ latest \in AnySth /\ copying \in AnySth \cup {None}
    /\ DOMAIN req = Request /\ DOMAIN replies = Request

\* The tree has been extended to the head that is being copied.
CopyIsReady == copying # None => copying.size = Len(tree)

\* The leaf is in the tree t, and first at this index.
FirstAt(leaf, n, t) ==
    n + 1 <= Len(t) /\ t[n + 1] = leaf /\ \A i \in 1..n : t[i] # leaf

\* These are entries of the database d, from number `first' on.
Copied(first, got, d) ==
    \A i \in 1..Len(got) : first + i - 1 < MaxLeaves /\ got[i] = d[first + i - 1]

\* What a handler has read so far is true of the tree t and the database d.
HandlerOK(q, t, d) ==
    \/ q \in [at : {"idle", "pool"}]
    \/ q.at = "done"
    \/ q \in [at : {"scan"}, start : Nat, end : Int, got : Seq(Leaf)] /\ Copied(q.start, q.got, d)
    \/ q \in [at : {"index"}, leaf : Leaf, size : Nat] /\ q.size <= Len(t)
    \/ /\ q \in [at : {"path"}, leaf : Leaf, size : Nat, index : Nat]
       /\ q.size <= Len(t) /\ FirstAt(q.leaf, q.index, t)
    \/ q \in [at : {"time"}, size : Int]
    \/ q \in [at : {"wait"}, first : Int, second : Int]
    \/ q \in [at : {"sending"}, code : Int]

\* ... and so is what it has answered.
ReplyOK(x, t, d) ==
    /\ Has(x, "path") =>
           /\ x.size \in Nat /\ x.size <= Len(t)
           /\ (\E i \in 1..x.size : t[i] = x.leaf) =>
                  x.path = [leaf |-> x.leaf, size |-> x.size] /\ x.index < x.size
    /\ Has(x, "entries") =>
           x.entries \in Seq(Leaf) /\ x.start \in Nat /\ Copied(x.start, x.entries, d)

HandlersFit ==
    \A r \in Request :
        /\ HandlerOK(req[r], tree, db)
        /\ req[r].at = "done" => \E x : replies[r] = <<x>> /\ ReplyOK(x, tree, db)
        /\ req[r].at # "done" => replies[r] = <<>>

ServerInv == ServerShape /\ CopyIsReady /\ TreeCoversHead /\ HandlersFit

-----------------------------------------------------------------------------
(* LogServer: lemmas. *)

\* Min is the least of some numbers.
LEMMA MinIsLeast ==
    ASSUME NEW S, S \subseteq Nat, S # {}
    PROVE  Min(S) \in S /\ \A m \in S : Min(S) <= m
<1> DEFINE Fits(n) == \A m \in S : n <= m
<1>1. PICK n \in S : Fits(n)
  BY LeastExists, Zenon
<1>2. Min(S) = CHOOSE k \in S : Fits(k)
  BY DEF Min
<1> HIDE DEF Fits
<1>3. Min(S) \in S /\ Fits(Min(S))
  BY <1>1, <1>2
<1> QED
  BY <1>3 DEF Fits

\* The entries that TreeSize counts are all there.
LEMMA ContiguousIs ==
    ASSUME ServerSetting
    PROVE  Contiguous \in 0..MaxLeaves /\ \A i \in 0..(Contiguous - 1) : db[i] # None
<1> DEFINE S == {n \in 0..MaxLeaves : n < MaxLeaves => db[n] = None}
           Fits(n) == (\A i \in 0..(n - 1) : db[i] # None) /\ (n < MaxLeaves => db[n] = None)
<1>1. S \subseteq Nat /\ MaxLeaves \in S
  BY DEF ServerSetting
<1>2. PICK n \in S : \A m \in S : n <= m
  <2> HIDE DEF S
  <2> QED
    BY <1>1, LeastExists, Zenon
<1>3. ASSUME NEW i \in 0..(n - 1)
      PROVE  db[i] # None
  <2>1. i \in 0..MaxLeaves /\ i < MaxLeaves /\ i < n
    BY <1>1, <1>2 DEF ServerSetting
  <2>2. i \notin S
    BY <1>1, <1>2, <2>1
  <2> QED
    BY <2>1, <2>2
<1>4. n \in 0..MaxLeaves /\ Fits(n)
  BY <1>2, <1>3
<1>5. Contiguous = CHOOSE m \in 0..MaxLeaves : Fits(m)
  BY DEF Contiguous
<1> HIDE DEF Fits
<1>6. Contiguous \in 0..MaxLeaves /\ Fits(Contiguous)
  BY <1>4, <1>5
<1> QED
  BY <1>6 DEF Fits

\* What a handler has read stays true while the database and the tree grow.
LEMMA ReadsStayTrue ==
    ASSUME ServerSetting, NEW t \in Seq(Leaf), NEW u \in Seq(Leaf), NEW d, NEW e,
           Len(t) <= Len(u), \A i \in 1..Len(t) : u[i] = t[i],
           \A i \in 0..(MaxLeaves - 1) : d[i] # None => e[i] = d[i]
    PROVE  /\ \A q : HandlerOK(q, t, d) => HandlerOK(q, u, e)
           /\ \A x : ReplyOK(x, t, d) => ReplyOK(x, u, e)
<1>1. Len(t) \in Nat /\ Len(u) \in Nat /\ MaxLeaves \in Nat
  BY DEF ServerSetting
<1>2. ASSUME NEW first \in Nat, NEW got \in Seq(Leaf), Copied(first, got, d)
      PROVE  Copied(first, got, e)
  <2> SUFFICES ASSUME NEW i \in 1..Len(got)
               PROVE  first + i - 1 < MaxLeaves /\ got[i] = e[first + i - 1]
    BY DEF Copied
  <2>1. first + i - 1 < MaxLeaves /\ got[i] = d[first + i - 1] /\ got[i] \in Leaf
    BY <1>2 DEF Copied
  <2>2. first + i - 1 \in 0..(MaxLeaves - 1) /\ d[first + i - 1] # None
    BY <1>1, <2>1 DEF ServerSetting
  <2> QED
    BY <2>1, <2>2
<1>3. ASSUME NEW leaf, NEW n \in Nat, FirstAt(leaf, n, t)
      PROVE  FirstAt(leaf, n, u)
  <2>1. n + 1 \in 1..Len(t) /\ \A i \in 1..n : i \in 1..Len(t)
    BY <1>1, <1>3 DEF FirstAt
  <2> QED
    BY <1>1, <1>3, <2>1 DEF FirstAt
<1>4. ASSUME NEW q, HandlerOK(q, t, d)
      PROVE  HandlerOK(q, u, e)
  <2>1. CASE /\ q \in [at : {"scan"}, start : Nat, end : Int, got : Seq(Leaf)]
             /\ Copied(q.start, q.got, d)
    <3>1. q.start \in Nat /\ q.got \in Seq(Leaf)
      BY <2>1
    <3> QED
      BY <1>2, <2>1, <3>1 DEF HandlerOK
  <2>2. CASE q \in [at : {"index"}, leaf : Leaf, size : Nat] /\ q.size <= Len(t)
    <3>1. q.size <= Len(u)
      BY <1>1, <2>2
    <3> QED
      BY <2>2, <3>1 DEF HandlerOK
  <2>3. CASE /\ q \in [at : {"path"}, leaf : Leaf, size : Nat, index : Nat]
             /\ q.size <= Len(t) /\ FirstAt(q.leaf, q.index, t)
    <3>1. q.size <= Len(u) /\ q.index \in Nat
      BY <1>1, <2>3
    <3> QED
      BY <1>3, <2>3, <3>1 DEF HandlerOK
  <2>4. CASE \/ q \in [at : {"idle", "pool"}] \/ q.at = "done"
             \/ q \in [at : {"time"}, size : Int]
             \/ q \in [at : {"wait"}, first : Int, second : Int]
             \/ q \in [at : {"sending"}, code : Int]
    BY <2>4 DEF HandlerOK
  <2> QED
    BY <1>4, <2>1, <2>2, <2>3, <2>4 DEF HandlerOK
<1>5. ASSUME NEW x, ReplyOK(x, t, d)
      PROVE  ReplyOK(x, u, e)
  <2>1. ASSUME Has(x, "path")
        PROVE  /\ x.size \in Nat /\ x.size <= Len(u)
               /\ (\E i \in 1..x.size : u[i] = x.leaf) =>
                      x.path = [leaf |-> x.leaf, size |-> x.size] /\ x.index < x.size
    <3>1. x.size \in Nat /\ x.size <= Len(t)
      BY <1>5, <2>1 DEF ReplyOK
    <3>2. x.size <= Len(u) /\ \A i \in 1..x.size : u[i] = t[i]
      BY <1>1, <3>1
    <3>3. (\E i \in 1..x.size : t[i] = x.leaf) =>
              x.path = [leaf |-> x.leaf, size |-> x.size] /\ x.index < x.size
      BY <1>5, <2>1 DEF ReplyOK
    <3> QED
      BY <3>1, <3>2, <3>3
  <2>2. ASSUME Has(x, "entries")
        PROVE  x.entries \in Seq(Leaf) /\ x.start \in Nat /\ Copied(x.start, x.entries, e)
    BY <1>2, <1>5, <2>2 DEF ReplyOK
  <2> QED
    BY <2>1, <2>2 DEF ReplyOK
<1> QED
  BY <1>4, <1>5

\* The invariant holds at start.
LEMMA ServerInitInv ==
    ASSUME ServerSetting, ServerInit
    PROVE  ServerInv
<1>1. tree = <<>> /\ Len(tree) = 0 /\ tree \in Seq(Leaf)
  BY DEF ServerInit
<1>2. ServerShape
  BY <1>1 DEF ServerInit, ServerShape, ServerSetting, AnySth
<1>3. CopyIsReady /\ TreeCoversHead
  BY <1>1 DEF ServerInit, CopyIsReady, TreeCoversHead
<1>4. HandlersFit
  BY DEF ServerInit, HandlersFit, HandlerOK
<1> QED
  BY <1>2, <1>3, <1>4 DEF ServerInv

\* The handlers do not notice what is written and copied.
LEMMA HandlersStayFit ==
    ASSUME ServerSetting, ServerInv, UNCHANGED <<req, replies>>,
           tree' \in Seq(Leaf), Len(tree) <= Len(tree'),
           \A i \in 1..Len(tree) : tree'[i] = tree[i],
           \A i \in 0..(MaxLeaves - 1) : db[i] # None => db'[i] = db[i]
    PROVE  HandlersFit'
<1>1. tree \in Seq(Leaf)
  BY DEF ServerInv, ServerShape
<1>2. /\ \A q : HandlerOK(q, tree, db) => HandlerOK(q, tree', db')
      /\ \A x : ReplyOK(x, tree, db) => ReplyOK(x, tree', db')
  BY <1>1, ReadsStayTrue
<1> SUFFICES ASSUME NEW r \in Request
             PROVE  /\ HandlerOK(req[r], tree', db')
                    /\ req[r].at = "done" => \E x : replies[r] = <<x>> /\ ReplyOK(x, tree', db')
                    /\ req[r].at # "done" => replies[r] = <<>>
  BY DEF HandlersFit
<1>3. /\ HandlerOK(req[r], tree, db)
      /\ req[r].at = "done" => \E x : replies[r] = <<x>> /\ ReplyOK(x, tree, db)
      /\ req[r].at # "done" => replies[r] = <<>>
  BY DEF ServerInv, HandlersFit
<1> QED
  BY <1>2, <1>3

\* An entry is stored where there was none.
LEMMA StoreKeeps ==
    ASSUME ServerSetting, ServerInv, NEW i \in 0..(MaxLeaves - 1), NEW leaf \in Leaf,
           Store(i, leaf)
    PROVE  ServerInv'
<1>1. /\ db[i] = None /\ db' = [db EXCEPT ![i] = leaf]
      /\ UNCHANGED <<tree, latest, copying, req, replies>>
  BY DEF Store
<1>2. ServerShape
  BY DEF ServerInv
<1>3. \A j \in 0..(MaxLeaves - 1) : db[j] # None => db'[j] = db[j]
  BY <1>1, <1>2 DEF ServerShape
<1>4. HandlersFit'
  <2>1. tree' \in Seq(Leaf) /\ Len(tree) <= Len(tree') /\ \A j \in 1..Len(tree) : tree'[j] = tree[j]
    BY <1>1, <1>2 DEF ServerShape
  <2> QED
    BY <1>1, <1>3, <2>1, HandlersStayFit
<1>5. ServerShape'
  BY <1>1, <1>2 DEF ServerShape
<1>6. TreeCoversHead'
  <2>1. latest'.size <= Len(tree')
    BY <1>1 DEF ServerInv, TreeCoversHead
  <2>2. ASSUME NEW j \in 1..Len(tree)
        PROVE  db'[j - 1] = tree[j]
    <3>1. j - 1 \in 0..(MaxLeaves - 1) /\ tree[j] \in Leaf
      BY <1>2 DEF ServerShape, ServerSetting
    <3>2. db[j - 1] = tree[j]
      BY DEF ServerInv, TreeCoversHead
    <3> QED
      BY <1>3, <3>1, <3>2 DEF ServerSetting
  <2> QED
    BY <1>1, <2>1, <2>2 DEF TreeCoversHead
<1>7. CopyIsReady'
  BY <1>1 DEF ServerInv, CopyIsReady
<1> QED
  BY <1>4, <1>5, <1>6, <1>7 DEF ServerInv

\* A sequence with another at its end.
LEMMA ConcatIs ==
    ASSUME NEW S, NEW a \in Seq(S), NEW b \in Seq(S)
    PROVE  /\ a \o b \in Seq(S) /\ Len(a \o b) = Len(a) + Len(b)
           /\ \A i \in 1..Len(a) : (a \o b)[i] = a[i]
           /\ \A i \in 1..Len(b) : (a \o b)[Len(a) + i] = b[i]
<1>1. a \o b \in Seq(S) /\ Len(a \o b) = Len(a) + Len(b)
  OBVIOUS
<1>2. \A i \in 1..Len(a) : (a \o b)[i] = a[i]
  OBVIOUS
<1>3. \A i \in 1..Len(b) : (a \o b)[Len(a) + i] = b[i]
  OBVIOUS
<1> QED
  BY <1>1, <1>2, <1>3

\* What UpdateFromSTH makes of the tree.
LEMMA TreeIsExtended ==
    ASSUME ServerSetting, ServerInv, NEW sth \in AnySth, UpdateFromSTH(sth)
    PROVE  /\ tree' \in Seq(Leaf) /\ Len(tree') = sth.size /\ Len(tree) <= Len(tree')
           /\ \A i \in 1..Len(tree) : tree'[i] = tree[i]
           /\ \A i \in 1..Len(tree') : db[i - 1] = tree'[i]
<1> DEFINE n == sth.size - Len(tree)
           new == NewLeaves(sth)
<1>1. tree \in Seq(Leaf) /\ Len(tree) \in Nat /\ sth.size \in Nat
  BY DEF ServerInv, ServerShape, AnySth
<1>2. tree' = tree \o new /\ sth.size <= Contiguous /\ Len(tree) <= sth.size
  BY <1>1 DEF UpdateFromSTH, IsOlder
<1>3. n \in Nat
  BY <1>1, <1>2
<1>4. \A i \in 1..n : db[Len(tree) + i - 1] \in Leaf
  <2> TAKE i \in 1..n
  <2>1. Contiguous \in 0..MaxLeaves /\ \A j \in 0..(Contiguous - 1) : db[j] # None
    BY ContiguousIs
  <2>2. Len(tree) + i - 1 \in 0..(Contiguous - 1) /\ Len(tree) + i - 1 \in 0..(MaxLeaves - 1)
    BY <1>1, <1>2, <1>3, <2>1 DEF ServerSetting
  <2> QED
    BY <2>1, <2>2 DEF ServerInv, ServerShape
<1>5. new = [i \in 1..n |-> db[Len(tree) + i - 1]]
  BY DEF NewLeaves
<1> HIDE DEF new
<1>6. new \in Seq(Leaf) /\ Len(new) = n
  BY <1>3, <1>4, <1>5
<1>7. tree' \in Seq(Leaf) /\ Len(tree') = Len(tree) + n
  <2>1. tree \o new \in Seq(Leaf) /\ Len(tree \o new) = Len(tree) + Len(new)
    BY <1>1, <1>6, ConcatIs, Zenon
  <2> QED
    BY <1>2, <1>6, <2>1
<1>8. \A i \in 1..Len(tree) : tree'[i] = tree[i]
  BY <1>1, <1>2, <1>6, ConcatIs
<1>9. ASSUME NEW i \in 1..Len(tree')
      PROVE  db[i - 1] = tree'[i]
  <2>1. CASE i <= Len(tree)
    BY <1>1, <1>8, <2>1 DEF ServerInv, TreeCoversHead
  <2>2. CASE i > Len(tree)
    <3>1. tree'[i] = new[i - Len(tree)] /\ i - Len(tree) \in 1..n
      BY <1>1, <1>2, <1>3, <1>6, <1>7, <2>2
    <3>2. Len(tree) + (i - Len(tree)) - 1 = i - 1
      BY <1>1
    <3> QED
      BY <1>5, <3>1, <3>2
  <2> QED
    BY <1>1, <1>7, <2>1, <2>2
<1> QED
  BY <1>1, <1>2, <1>3, <1>7, <1>8, <1>9

\* The tree grows to the head that came in, which is not given out yet.
LEMMA UpdateFromSTHKeeps ==
    ASSUME ServerSetting, ServerInv, NEW sth \in AnySth, UpdateFromSTH(sth)
    PROVE  ServerInv'
<1>1. copying' = sth /\ UNCHANGED <<db, latest, req, replies>>
  BY DEF UpdateFromSTH
<1>2. /\ tree' \in Seq(Leaf) /\ Len(tree') = sth.size /\ Len(tree) <= Len(tree')
      /\ \A i \in 1..Len(tree) : tree'[i] = tree[i]
      /\ \A i \in 1..Len(tree') : db[i - 1] = tree'[i]
  BY TreeIsExtended
<1>3. sth.size \in 0..MaxLeaves
  BY DEF AnySth
<1>4. ServerShape'
  BY <1>1, <1>2, <1>3 DEF ServerInv, ServerShape, ServerSetting
<1>5. TreeCoversHead'
  <2>1. latest.size <= Len(tree')
    BY <1>2 DEF ServerInv, ServerShape, TreeCoversHead, AnySth
  <2> QED
    BY <1>1, <1>2, <2>1 DEF TreeCoversHead
<1>6. HandlersFit'
  BY <1>1, <1>2, HandlersStayFit
<1>7. CopyIsReady'
  BY <1>1, <1>2 DEF CopyIsReady
<1> QED
  BY <1>4, <1>5, <1>6, <1>7 DEF ServerInv

\* The head is given out.
LEMMA CopyDoneKeeps ==
    ASSUME ServerSetting, ServerInv, CopyDone
    PROVE  ServerInv'
<1>1. /\ copying # None /\ latest' = copying /\ copying' = None
      /\ UNCHANGED <<db, tree, req, replies>>
  BY DEF CopyDone
<1>2. copying \in AnySth /\ copying.size = Len(tree)
  BY <1>1 DEF ServerInv, ServerShape, CopyIsReady
<1>3. ServerShape'
  BY <1>1, <1>2 DEF ServerInv, ServerShape
<1>4. TreeCoversHead'
  BY <1>1, <1>2 DEF ServerInv, TreeCoversHead, AnySth
<1>5. CopyIsReady'
  BY <1>1 DEF CopyIsReady
<1>6. HandlersFit'
  <2>1. /\ tree' \in Seq(Leaf) /\ Len(tree) <= Len(tree')
        /\ \A i \in 1..Len(tree) : tree'[i] = tree[i]
        /\ \A i \in 0..(MaxLeaves - 1) : db[i] # None => db'[i] = db[i]
    BY <1>1 DEF ServerInv, ServerShape
  <2> QED
    BY <1>1, <2>1, HandlersStayFit
<1> QED
  BY <1>3, <1>4, <1>5, <1>6 DEF ServerInv

\* What is known of a handler by where it is.
LEMMA HandlerAt ==
    ASSUME NEW q, HandlerOK(q, tree, db)
    PROVE  /\ q.at # "done" => "at" \in DOMAIN q
           /\ q.at = "scan" =>
                 /\ q \in [at : {"scan"}, start : Nat, end : Int, got : Seq(Leaf)]
                 /\ Copied(q.start, q.got, db)
           /\ q.at = "index" =>
                 q \in [at : {"index"}, leaf : Leaf, size : Nat] /\ q.size <= Len(tree)
           /\ q.at = "path" =>
                 /\ q \in [at : {"path"}, leaf : Leaf, size : Nat, index : Nat]
                 /\ q.size <= Len(tree) /\ FirstAt(q.leaf, q.index, tree)
<1>1. q.at # "done" => "at" \in DOMAIN q
  BY DEF HandlerOK
<1>2. q.at = "scan" => /\ q \in [at : {"scan"}, start : Nat, end : Int, got : Seq(Leaf)]
                       /\ Copied(q.start, q.got, db)
  BY DEF HandlerOK
<1>3. q.at = "index" =>
         q \in [at : {"index"}, leaf : Leaf, size : Nat] /\ q.size <= Len(tree)
  BY DEF HandlerOK
<1>4. q.at = "path" =>
         /\ q \in [at : {"path"}, leaf : Leaf, size : Nat, index : Nat]
         /\ q.size <= Len(tree) /\ FirstAt(q.leaf, q.index, tree)
  BY DEF HandlerOK
<1> QED
  BY <1>1, <1>2, <1>3, <1>4

\* A step of one handler leaves the others alone.
LEMMA OneHandlerKeeps ==
    ASSUME ServerSetting, ServerInv, NEW r \in Request, Others,
           DOMAIN req' = Request, DOMAIN replies' = Request,
           \A p \in Request : p # r => req'[p] = req[p] /\ replies'[p] = replies[p],
           HandlerOK(req'[r], tree, db),
           req'[r].at = "done" => \E x : replies'[r] = <<x>> /\ ReplyOK(x, tree, db),
           req'[r].at # "done" => replies'[r] = <<>>
    PROVE  ServerInv'
<1>1. UNCHANGED <<db, tree, latest, copying>>
  BY DEF Others
<1>2. ServerShape' /\ CopyIsReady' /\ TreeCoversHead'
  BY <1>1 DEF ServerInv, ServerShape, CopyIsReady, TreeCoversHead
<1>3. ASSUME NEW p \in Request
      PROVE  /\ HandlerOK(req'[p], tree, db)
             /\ req'[p].at = "done" => \E x : replies'[p] = <<x>> /\ ReplyOK(x, tree, db)
             /\ req'[p].at # "done" => replies'[p] = <<>>
  <2>1. CASE p = r
    BY <2>1
  <2>2. CASE p # r
    <3>1. /\ HandlerOK(req[p], tree, db)
          /\ req[p].at = "done" => \E x : replies[p] = <<x>> /\ ReplyOK(x, tree, db)
          /\ req[p].at # "done" => replies[p] = <<>>
      BY DEF ServerInv, HandlersFit
    <3>2. req'[p] = req[p] /\ replies'[p] = replies[p]
      BY <2>2
    <3> QED
      BY <3>1, <3>2
  <2> QED
    BY <2>1, <2>2
<1>4. HandlersFit'
  BY <1>1, <1>3 DEF HandlersFit
<1> QED
  BY <1>2, <1>4 DEF ServerInv

\* A handler answers, for good, with something true.
LEMMA ReplyKeeps ==
    ASSUME ServerSetting, ServerInv, NEW r \in Request, req[r].at # "done",
           NEW x, ReplyOK(x, tree, db), Reply(r, x)
    PROVE  ServerInv'
<1>1. /\ replies' = [replies EXCEPT ![r] = Append(@, x)]
      /\ req' = [req EXCEPT ![r].at = "done"] /\ Others
  BY DEF Reply
<1>2. DOMAIN req = Request /\ DOMAIN replies = Request
  BY DEF ServerInv, ServerShape
<1>3. HandlerOK(req[r], tree, db) /\ replies[r] = <<>>
  BY DEF ServerInv, HandlersFit
<1>4. "at" \in DOMAIN req[r]
  BY <1>3, HandlerAt
<1>5. req'[r].at = "done"
  BY <1>1, <1>2, <1>4
<1>6. replies'[r] = <<x>>
  BY <1>1, <1>2, <1>3
<1>7. /\ DOMAIN req' = Request /\ DOMAIN replies' = Request
      /\ \A p \in Request : p # r => req'[p] = req[p] /\ replies'[p] = replies[p]
  BY <1>1, <1>2
<1>8. HandlerOK(req'[r], tree, db)
  BY <1>5 DEF HandlerOK
<1> QED
  BY <1>1, <1>5, <1>6, <1>7, <1>8, OneHandlerKeeps

\* A handler goes on with something true.
LEMMA GoOnKeeps ==
    ASSUME ServerSetting, ServerInv, NEW r \in Request, req[r].at # "done",
           NEW q, HandlerOK(q, tree, db), q.at # "done", GoOn(r, q)
    PROVE  ServerInv'
<1>1. req' = [req EXCEPT ![r] = q] /\ replies' = replies /\ Others
  BY DEF GoOn
<1>2. DOMAIN req = Request /\ DOMAIN replies = Request
  BY DEF ServerInv, ServerShape
<1>3. replies[r] = <<>>
  BY DEF ServerInv, HandlersFit
<1>4. /\ DOMAIN req' = Request /\ DOMAIN replies' = Request /\ req'[r] = q
      /\ \A p \in Request : p # r => req'[p] = req[p] /\ replies'[p] = replies[p]
  BY <1>1, <1>2
<1> QED
  BY <1>1, <1>3, <1>4, OneHandlerKeeps

\* A reply without a path and without entries.
LEMMA ShortReplies ==
    /\ \A c : ReplyOK([code |-> c], tree, db)
    /\ \A c, h : ReplyOK([code |-> c, sth |-> h], tree, db)
    /\ \A c, f, t, p : ReplyOK([code |-> c, first |-> f, second |-> t, proof |-> p], tree, db)
<1>1. \A x : ~Has(x, "path") /\ ~Has(x, "entries") => ReplyOK(x, tree, db)
  BY DEF ReplyOK
<1>2. \A c : ~Has([code |-> c], "path") /\ ~Has([code |-> c], "entries")
  BY DEF Has
<1>3. \A c, h : /\ ~Has([code |-> c, sth |-> h], "path")
                /\ ~Has([code |-> c, sth |-> h], "entries")
  BY DEF Has
<1>4. \A c, f, t, p :
         /\ ~Has([code |-> c, first |-> f, second |-> t, proof |-> p], "path")
         /\ ~Has([code |-> c, first |-> f, second |-> t, proof |-> p], "entries")
  BY DEF Has
<1> QED
  BY <1>1, <1>2, <1>3, <1>4

\* A request that is refused at once.
LEMMA BadRequestKeeps ==
    ASSUME ServerSetting, ServerInv, NEW r \in Request, req[r].at # "done",
           Reply(r, BadRequest)
    PROVE  ServerInv'
BY ReplyKeeps, ShortReplies DEF BadRequest

\* A scan begins with nothing read.
LEMMA GetEntriesKeeps ==
    ASSUME ServerSetting, ServerInv, NEW r \in Request, NEW a \in Int, NEW b \in Int,
           GetEntries(r, a, b)
    PROVE  ServerInv'
<1>1. req[r].at # "done"
  BY DEF GetEntries
<1>2. CASE a < 0 \/ b < a
  BY <1>1, <1>2, BadRequestKeeps DEF GetEntries
<1>3. CASE ~(a < 0 \/ b < a)
  <2> DEFINE e == Min({b, a + MaxEntries})
             q == [at |-> "scan", start |-> a, got |-> <<>>, end |-> e]
  <2>1. e \in Int
    <3> DEFINE Fits(n) == \A m \in {b, a + MaxEntries} : n <= m
    <3>1. b \in Int /\ a + MaxEntries \in Int
      BY DEF ServerSetting
    <3>2. \E n \in {b, a + MaxEntries} : Fits(n)
      BY <3>1
    <3>3. e = CHOOSE n \in {b, a + MaxEntries} : Fits(n)
      BY DEF Min
    <3> HIDE DEF Fits
    <3> QED
      BY <3>1, <3>2, <3>3
  <2>2. GoOn(r, q)
    BY <1>3 DEF GetEntries
  <2> HIDE DEF e
  <2>3. /\ q \in [at : {"scan"}, start : Nat, end : Int, got : Seq(Leaf)]
        /\ q.start = a /\ q.got = <<>> /\ q.at = "scan"
    BY <1>3, <2>1
  <2>4. Copied(a, <<>>, db)
    BY DEF Copied
  <2> HIDE DEF q
  <2>5. HandlerOK(q, tree, db) /\ q.at # "done"
    BY <2>3, <2>4 DEF HandlerOK
  <2> QED
    BY <1>1, <2>2, <2>5, GoOnKeeps
<1> QED
  BY <1>2, <1>3

\* A scan reads one entry more, or ends.
LEMMA BlockingGetEntriesKeeps ==
    ASSUME ServerSetting, ServerInv, NEW r \in Request, BlockingGetEntries(r)
    PROVE  ServerInv'
<1> DEFINE first == req[r].start
           got == req[r].got
           i == first + Len(got)
           entry == IF i > req[r].end THEN None ELSE NextEntry(i)
<1>1. req[r].at = "scan" /\ HandlerOK(req[r], tree, db)
  BY DEF BlockingGetEntries, ServerInv, HandlersFit
<1>2. /\ req[r] \in [at : {"scan"}, start : Nat, end : Int, got : Seq(Leaf)]
      /\ Copied(first, got, db)
  BY <1>1, HandlerAt
<1>3. first \in Nat /\ got \in Seq(Leaf) /\ Len(got) \in Nat /\ i \in Nat
  BY <1>2
<1>4. CASE entry # None
  <2> DEFINE q == [req[r] EXCEPT !.got = Append(@, entry)]
  <2>1. GoOn(r, q)
    BY <1>4 DEF BlockingGetEntries
  <2>2. i < MaxLeaves /\ entry = db[i]
    BY <1>4 DEF NextEntry
  <2>3. i \in 0..(MaxLeaves - 1)
    BY <1>3, <2>2 DEF ServerSetting
  <2>4. entry \in Leaf
    BY <1>4, <2>2, <2>3 DEF ServerInv, ServerShape
  <2> HIDE DEF entry
  <2>5. /\ Append(got, entry) \in Seq(Leaf) /\ Len(Append(got, entry)) = Len(got) + 1
        /\ \A j \in 1..Len(got) : Append(got, entry)[j] = got[j]
        /\ Append(got, entry)[Len(got) + 1] = entry
    BY <1>3, <2>4
  <2>6. /\ q \in [at : {"scan"}, start : Nat, end : Int, got : Seq(Leaf)]
        /\ q.start = first /\ q.got = Append(got, entry) /\ q.at = "scan"
    BY <1>2, <2>5, Zenon
  <2> HIDE DEF first, got, q
  <2>7. Copied(first, Append(got, entry), db)
    <3> SUFFICES ASSUME NEW j \in 1..(Len(got) + 1)
                 PROVE  /\ first + j - 1 < MaxLeaves
                        /\ Append(got, entry)[j] = db[first + j - 1]
      BY <2>5 DEF Copied
    <3>1. CASE j \in 1..Len(got)
      BY <1>2, <2>5, <3>1 DEF Copied
    <3>2. CASE j = Len(got) + 1
      <4>1. first + j - 1 = i
        BY <1>3, <3>2
      <4> QED
        BY <2>2, <2>5, <3>2, <4>1
    <3>3. j \in 1..Len(got) \/ j = Len(got) + 1
      BY <1>3
    <3> QED
      BY <3>1, <3>2, <3>3
  <2>8. HandlerOK(q, tree, db) /\ q.at # "done"
    BY <2>6, <2>7 DEF HandlerOK
  <2> QED
    BY <1>1, <2>1, <2>8, GoOnKeeps
<1>5. CASE entry = None /\ got = <<>>
  BY <1>1, <1>5, BadRequestKeeps DEF BlockingGetEntries
<1>6. CASE entry = None /\ got # <<>>
  <2> DEFINE x == [code |-> 200, start |-> first, entries |-> got]
  <2>1. Reply(r, x)
    BY <1>6 DEF BlockingGetEntries
  <2>2. ReplyOK(x, tree, db)
    BY <1>2, <1>3 DEF ReplyOK, Has
  <2> HIDE DEF x
  <2> QED
    BY <1>1, <2>1, <2>2, ReplyKeeps
<1> QED
  BY <1>4, <1>5, <1>6

\* Whatever of the head a reader gets, the tree is as large as it says.
LEMMA SizesAreCovered ==
    ASSUME ServerSetting, ServerInv, NEW n \in Sizes
    PROVE  n \in Nat /\ n <= Len(tree)
<1>1. latest.size \in Nat /\ latest.size <= Len(tree) /\ Len(tree) \in Nat
  BY DEF ServerInv, ServerShape, TreeCoversHead, AnySth
<1>2. CASE copying = None
  BY <1>1, <1>2 DEF Sizes
<1>3. CASE copying # None
  <2>1. copying.size = Len(tree)
    BY <1>3 DEF ServerInv, CopyIsReady
  <2> QED
    BY <1>1, <1>3, <2>1 DEF Sizes
<1> QED
  BY <1>2, <1>3

\* The size asked for is checked.
LEMMA GetProofKeeps ==
    ASSUME ServerSetting, ServerInv, NEW r \in Request, NEW leaf \in Leaf, NEW n \in Int,
           GetProof(r, leaf, n)
    PROVE  ServerInv'
<1>1. req[r].at # "done"
  BY DEF GetProof
<1>2. PICK known \in Sizes :
         IF n < 0 \/ n > known THEN Reply(r, BadRequest)
         ELSE GoOn(r, [at |-> "index", leaf |-> leaf, size |-> n])
  BY DEF GetProof
<1>3. CASE n < 0 \/ n > known
  BY <1>1, <1>2, <1>3, BadRequestKeeps
<1>4. CASE ~(n < 0 \/ n > known)
  <2> DEFINE q == [at |-> "index", leaf |-> leaf, size |-> n]
  <2>1. known \in Nat /\ known <= Len(tree) /\ Len(tree) \in Nat
    <3>1. known \in Nat /\ known <= Len(tree)
      BY SizesAreCovered
    <3>2. Len(tree) \in Nat
      BY DEF ServerInv, ServerShape
    <3> QED
      BY <3>1, <3>2
  <2>2. n \in Nat /\ n <= Len(tree)
    BY <1>4, <2>1
  <2>3. HandlerOK(q, tree, db) /\ q.at # "done"
    BY <2>2 DEF HandlerOK
  <2> HIDE DEF q
  <2>4. GoOn(r, q)
    BY <1>2, <1>4 DEF q
  <2> QED
    BY <1>1, <2>3, <2>4, GoOnKeeps
<1> QED
  BY <1>3, <1>4

\* GetIndexInternal finds the first place of a leaf.
LEMMA IndexIsFirst ==
    ASSUME ServerSetting, ServerInv, NEW leaf, ~(GetIndexInternal(leaf) < 0)
    PROVE  GetIndexInternal(leaf) \in Nat /\ FirstAt(leaf, GetIndexInternal(leaf), tree)
<1> DEFINE at == {i \in 1..Len(tree) : tree[i] = leaf}
<1>1. GetIndexInternal(leaf) = IF at = {} THEN -1 ELSE Min(at) - 1
  BY DEF GetIndexInternal
<1>2. Len(tree) \in Nat /\ at \subseteq Nat
  BY DEF ServerInv, ServerShape
<1>3. at # {}
  BY <1>1
<1>4. Min(at) \in at /\ \A m \in at : Min(at) <= m
  <2> HIDE DEF at
  <2> QED
    BY <1>2, <1>3, MinIsLeast, Zenon
<1>5. PICK n \in Nat : n + 1 = Min(at)
  <2>1. Min(at) \in Nat /\ Min(at) >= 1
    BY <1>2, <1>4
  <2>2. Min(at) - 1 \in Nat /\ (Min(at) - 1) + 1 = Min(at)
    BY <2>1
  <2> QED
    BY <2>2, Zenon
<1>6. n + 1 \in 1..Len(tree) /\ tree[n + 1] = leaf
  BY <1>4, <1>5
<1>7. ASSUME NEW i \in 1..n
      PROVE  tree[i] # leaf
  <2>1. i \in 1..Len(tree) /\ ~(n + 1 <= i)
    BY <1>2, <1>6
  <2> QED
    BY <1>4, <1>5, <2>1
<1>8. GetIndexInternal(leaf) = n
  BY <1>1, <1>3, <1>5
<1> QED
  BY <1>2, <1>6, <1>7, <1>8 DEF FirstAt

\* The leaf is looked up.
LEMMA GetIndexKeeps ==
    ASSUME ServerSetting, ServerInv, NEW r \in Request, GetIndex(r)
    PROVE  ServerInv'
<1> DEFINE n == GetIndexInternal(req[r].leaf)
<1>1. req[r].at = "index" /\ HandlerOK(req[r], tree, db)
  BY DEF GetIndex, ServerInv, HandlersFit
<1>2. req[r] \in [at : {"index"}, leaf : Leaf, size : Nat] /\ req[r].size <= Len(tree)
  BY <1>1, HandlerAt
<1>3. CASE n < 0
  BY <1>1, <1>3, BadRequestKeeps DEF GetIndex
<1>4. CASE ~(n < 0)
  <2> DEFINE q == [at |-> "path", leaf |-> req[r].leaf, size |-> req[r].size, index |-> n]
  <2>1. n \in Nat /\ FirstAt(req[r].leaf, n, tree)
    BY <1>4, IndexIsFirst
  <2>2. GoOn(r, q)
    BY <1>4 DEF GetIndex
  <2> HIDE DEF n
  <2>3. /\ q \in [at : {"path"}, leaf : Leaf, size : Nat, index : Nat]
        /\ q.size = req[r].size /\ q.leaf = req[r].leaf /\ q.index = n /\ q.at = "path"
    BY <1>2, <2>1
  <2> HIDE DEF q
  <2>4. HandlerOK(q, tree, db) /\ q.at # "done"
    BY <1>2, <2>1, <2>3 DEF HandlerOK
  <2> QED
    BY <1>1, <2>2, <2>4, GoOnKeeps
<1> QED
  BY <1>3, <1>4

\* The path is taken later than the index and the size, and fits them all the same.
LEMMA AuditProofKeeps ==
    ASSUME ServerSetting, ServerInv, NEW r \in Request, AuditProof(r)
    PROVE  ServerInv'
<1> DEFINE leaf == req[r].leaf
           n == req[r].index
           snapshot == req[r].size
           x == [code |-> 200, leaf |-> leaf, size |-> snapshot, index |-> n,
                 path |-> Path(n, snapshot)]
<1>1. req[r].at = "path" /\ HandlerOK(req[r], tree, db)
  BY DEF AuditProof, ServerInv, HandlersFit
<1>2. /\ req[r] \in [at : {"path"}, leaf : Leaf, size : Nat, index : Nat]
      /\ snapshot <= Len(tree) /\ FirstAt(leaf, n, tree)
  BY <1>1, HandlerAt
<1>3. snapshot \in Nat /\ n \in Nat /\ Len(tree) \in Nat
  BY <1>2 DEF ServerInv, ServerShape
<1>4. Reply(r, x)
  BY DEF AuditProof
<1>5. ASSUME NEW i \in 1..snapshot, tree[i] = leaf
      PROVE  Path(n, snapshot) = [leaf |-> leaf, size |-> snapshot] /\ n < snapshot
  <2>1. ~(i \in 1..n) /\ tree[n + 1] = leaf
    BY <1>2, <1>5 DEF FirstAt
  <2>2. n < snapshot /\ ~(n + 1 > snapshot) /\ ~(snapshot > Len(tree))
    BY <1>2, <1>3, <2>1
  <2> QED
    BY <2>1, <2>2 DEF Path
<1> HIDE DEF leaf, n, snapshot
<1>6. /\ x.size = snapshot /\ x.leaf = leaf /\ x.index = n /\ x.path = Path(n, snapshot)
      /\ ~Has(x, "entries")
  BY DEF Has
<1> HIDE DEF x
<1>7. ReplyOK(x, tree, db)
  BY <1>2, <1>3, <1>5, <1>6 DEF ReplyOK
<1> QED
  BY <1>1, <1>4, <1>7, ReplyKeeps

\* Every step keeps the invariant.
LEMMA ServerNextInv ==
    ASSUME ServerSetting, ServerInv, [ServerNext]_serverVars
    PROVE  ServerInv'
<1>1. CASE UNCHANGED serverVars
  <2>1. UNCHANGED <<db, tree, latest, copying, req, replies>>
    BY <1>1 DEF serverVars
  <2>2. ServerShape' /\ CopyIsReady' /\ TreeCoversHead'
    BY <2>1 DEF ServerInv, ServerShape, CopyIsReady, TreeCoversHead
  <2>3. /\ tree' \in Seq(Leaf) /\ Len(tree) <= Len(tree')
        /\ \A i \in 1..Len(tree) : tree'[i] = tree[i]
        /\ \A i \in 0..(MaxLeaves - 1) : db[i] # None => db'[i] = db[i]
    BY <2>1 DEF ServerInv, ServerShape
  <2>4. HandlersFit'
    BY <2>1, <2>3, HandlersStayFit
  <2> QED
    BY <2>2, <2>4 DEF ServerInv
<1>2. ASSUME NEW i \in 0..(MaxLeaves - 1), NEW leaf \in Leaf, Store(i, leaf)
      PROVE  ServerInv'
  BY <1>2, StoreKeeps
<1>3. ASSUME NEW sth \in AnySth, UpdateFromSTH(sth)
      PROVE  ServerInv'
  BY <1>3, UpdateFromSTHKeeps
<1>4. CASE CopyDone
  BY <1>4, CopyDoneKeeps
<1>5. ASSUME NEW r \in Request, NEW a \in {-1} \cup 0..MaxLeaves,
             NEW b \in {-1} \cup 0..(MaxLeaves + 1), GetEntries(r, a, b)
      PROVE  ServerInv'
  BY <1>5, GetEntriesKeeps DEF ServerSetting
<1>6. ASSUME NEW r \in Request, NEW a \in {-1} \cup 0..MaxLeaves,
             NEW b \in {-1} \cup 0..(MaxLeaves + 1), GetConsistency(r, a, b)
      PROVE  ServerInv'
  <2>1. req[r].at # "done"
    BY <1>6 DEF GetConsistency
  <2>2. CASE a < 0 \/ b < a
    BY <1>6, <2>1, <2>2, BadRequestKeeps DEF GetConsistency
  <2>3. CASE ~(a < 0 \/ b < a)
    <3> DEFINE q == [at |-> "wait", first |-> a, second |-> b]
    <3>1. GoOn(r, q)
      BY <1>6, <2>3 DEF GetConsistency
    <3>2. HandlerOK(q, tree, db) /\ q.at # "done"
      BY DEF HandlerOK, ServerSetting
    <3> HIDE DEF q
    <3> QED
      BY <2>1, <3>1, <3>2, GoOnKeeps
  <2> QED
    BY <2>2, <2>3
<1>7. ASSUME NEW r \in Request, NEW leaf \in Leaf, NEW n \in {-1} \cup 0..(MaxLeaves + 1),
             GetProof(r, leaf, n)
      PROVE  ServerInv'
  BY <1>7, GetProofKeeps DEF ServerSetting
<1>8. ASSUME NEW r \in Request, NEW body \in Body, AddChain(r, body)
      PROVE  ServerInv'
  <2>1. req[r].at # "done"
    BY <1>8 DEF AddChain
  <2>2. CASE ExtractChain(body)
    <3>1. GoOn(r, [at |-> "pool"])
      BY <1>8, <2>2 DEF AddChain
    <3>2. HandlerOK([at |-> "pool"], tree, db) /\ [at |-> "pool"].at # "done"
      BY DEF HandlerOK
    <3> QED
      BY <2>1, <3>1, <3>2, GoOnKeeps
  <2>3. CASE ~ExtractChain(body)
    BY <1>8, <2>1, <2>3, BadRequestKeeps DEF AddChain
  <2> QED
    BY <2>2, <2>3
<1>9. ASSUME NEW r \in Request, NEW status, BlockingAddChain(r, status)
      PROVE  ServerInv'
  <2> DEFINE c == AddEntryReply(status)
             q == [at |-> "sending", code |-> c]
  <2>1. req[r].at # "done" /\ GoOn(r, q)
    BY <1>9 DEF BlockingAddChain
  <2>2. c \in Int
    BY DEF AddEntryReply
  <2> HIDE DEF c
  <2>3. HandlerOK(q, tree, db) /\ q.at # "done"
    BY <2>2 DEF HandlerOK
  <2> HIDE DEF q
  <2> QED
    BY <2>1, <2>3, GoOnKeeps
<1>10. ASSUME NEW r \in Request, BlockingGetEntries(r) \/ GetIndex(r) \/ AuditProof(r)
       PROVE  ServerInv'
  BY <1>10, BlockingGetEntriesKeeps, GetIndexKeeps, AuditProofKeeps
<1>11. ASSUME NEW r \in Request, GetSTH(r)
       PROVE  ServerInv'
  <2> DEFINE q == [at |-> "time", size |-> latest.size]
  <2>1. req[r].at # "done" /\ GoOn(r, q)
    BY <1>11 DEF GetSTH
  <2>2. HandlerOK(q, tree, db) /\ q.at # "done"
    BY DEF HandlerOK, ServerInv, ServerShape, AnySth
  <2> HIDE DEF q
  <2> QED
    BY <2>1, <2>2, GoOnKeeps
<1>12. ASSUME NEW r \in Request, GetSTHTime(r)
       PROVE  ServerInv'
  <2>1. req[r].at # "done"
    BY <1>12 DEF GetSTHTime
  <2>2. PICK h : Reply(r, [code |-> 200, sth |-> h])
    BY <1>12, Zenon DEF GetSTHTime
  <2> QED
    BY <2>1, <2>2, ReplyKeeps, ShortReplies
<1>13. ASSUME NEW r \in Request, ConsistencyProof(r)
       PROVE  ServerInv'
  <2>1. req[r].at # "done"
    BY <1>13 DEF ConsistencyProof
  <2> DEFINE f == req[r].first
             t == req[r].second
             p == IF f = 0 \/ f >= t \/ t > Len(tree) THEN None
                  ELSE <<SubSeq(tree, 1, f), SubSeq(tree, 1, t)>>
  <2>2. Reply(r, [code |-> 200, first |-> f, second |-> t, proof |-> p])
    BY <1>13 DEF ConsistencyProof
  <2> HIDE DEF f, t, p
  <2> QED
    BY <2>1, <2>2, ReplyKeeps, ShortReplies
<1>14. ASSUME NEW r \in Request, SendJsonReply(r) \/ BadMethod(r) \/ GetRoots(r)
       PROVE  ServerInv'
  <2>1. req[r].at # "done"
    BY <1>14 DEF SendJsonReply, BadMethod, GetRoots
  <2>2. PICK c : Reply(r, [code |-> c])
    BY <1>14, Zenon DEF SendJsonReply, BadMethod, GetRoots
  <2> QED
    BY <2>1, <2>2, ReplyKeeps, ShortReplies
<1> QED
  BY <1>1, <1>2, <1>3, <1>4, <1>5, <1>6, <1>7, <1>8, <1>9, <1>10, <1>11, <1>12, <1>13, <1>14
     DEF ServerNext

\* Whatever has been answered is true of the tree and the database as they are.
LEMMA RepliesAreTrue ==
    ASSUME ServerInv, NEW x \in Replies
    PROVE  ReplyOK(x, tree, db)
<1>1. PICK r \in Request : \E i \in 1..Len(replies[r]) : x = replies[r][i]
  BY DEF Replies
<1>2. PICK i \in 1..Len(replies[r]) : x = replies[r][i]
  BY <1>1
<1>3. replies[r] # <<>>
  BY <1>2
<1>4. \E y : replies[r] = <<y>> /\ ReplyOK(y, tree, db)
  BY <1>3 DEF ServerInv, HandlersFit
<1>5. PICK y : replies[r] = <<y>> /\ ReplyOK(y, tree, db)
  BY <1>4
<1>6. x = y
  BY <1>2, <1>5
<1> QED
  BY <1>5, <1>6

\* The invariant always holds.
LEMMA ServerInvariant ==
    ASSUME ServerSetting
    PROVE  ServerSpec => []ServerInv
<1>1. ServerInit => ServerInv
  BY ServerInitInv
<1>2. ServerInv /\ [ServerNext]_serverVars => ServerInv'
  BY ServerNextInv
<1> QED
  BY <1>1, <1>2, PTL DEF ServerSpec

-----------------------------------------------------------------------------
(* LogServer: the theorems. *)

\* Every request is answered exactly once, on every path through its handler and with the
\* reply of add-chain left to the event thread (handler.cc, json_output.cc).
THEOREM ServerAnswersOnce ==
    ASSUME ServerSetting
    PROVE  ServerSpec => []AnsweredOnce
<1>1. ServerInv => AnsweredOnce
  <2> SUFFICES ASSUME ServerInv, NEW r \in Request
               PROVE  Len(replies[r]) = (IF req[r].at = "done" THEN 1 ELSE 0)
    BY DEF AnsweredOnce
  <2>1. /\ req[r].at = "done" => \E x : replies[r] = <<x>>
        /\ req[r].at # "done" => replies[r] = <<>>
    BY DEF ServerInv, HandlersFit
  <2> QED
    BY <2>1, Zenon
<1> QED
  BY <1>1, ServerInvariant, PTL

\* The tree in memory is a prefix of the database and covers the head that LogLookup gives
\* out, at every moment of UpdateFromSTH.
THEOREM ServerTreeCovers ==
    ASSUME ServerSetting
    PROVE  ServerSpec => []TreeCoversHead
<1>1. ServerInv => TreeCoversHead
  BY DEF ServerInv
<1> QED
  BY <1>1, ServerInvariant, PTL

\* What get-proof-by-hash answers fits the leaf and the size asked for, although the size
\* is checked, the index found and the path made at three moments between which the tree
\* may have grown, and the size of the head may be read while it is being copied.
THEOREM ServerProofsFit ==
    ASSUME ServerSetting
    PROVE  ServerSpec => []ProofFits
<1>1. ServerInv => ProofFits
  <2> SUFFICES ASSUME ServerInv, NEW x \in Replies, Has(x, "path"),
                      NEW i \in 1..x.size, i <= Len(tree), tree[i] = x.leaf
               PROVE  x.path = [leaf |-> x.leaf, size |-> x.size] /\ x.index < x.size
    BY DEF ProofFits
  <2>1. ReplyOK(x, tree, db)
    BY RepliesAreTrue
  <2> QED
    BY <2>1 DEF ReplyOK
<1> QED
  BY <1>1, ServerInvariant, PTL

\* get-entries answers with entries of the database that have consecutive numbers from
\* start on, whatever is stored while BlockingGetEntries scans.
THEOREM ServerEntriesInOrder ==
    ASSUME ServerSetting
    PROVE  ServerSpec => []EntriesInOrder
<1>1. ServerInv => EntriesInOrder
  <2> SUFFICES ASSUME ServerInv, NEW x \in Replies, Has(x, "entries")
               PROVE  Copied(x.start, x.entries, db)
    BY DEF EntriesInOrder, Copied
  <2>1. ReplyOK(x, tree, db)
    BY RepliesAreTrue
  <2> QED
    BY <2>1 DEF ReplyOK
<1> QED
  BY <1>1, ServerInvariant, PTL

\* Neither the tree that proofs are made from nor the head that is given out ever shrinks.
THEOREM ServerOnlyGrows ==
    ASSUME ServerSetting
    PROVE  ServerSpec => [][OnlyGrows]_serverVars
<1>1. ServerInv /\ [ServerNext]_serverVars => [OnlyGrows]_serverVars
  <2> SUFFICES ASSUME ServerInv, ServerNext PROVE OnlyGrows
    BY DEF ServerNext
  <2>1. /\ Len(tree) \in Nat /\ latest.size \in Nat /\ latest.size <= Len(tree)
    BY DEF ServerInv, ServerShape, TreeCoversHead, AnySth
  <2>2. CASE UNCHANGED <<tree, latest>>
    BY <2>1, <2>2 DEF OnlyGrows
  <2>3. ASSUME NEW sth \in AnySth, UpdateFromSTH(sth) PROVE OnlyGrows
    <3>1. Len(tree) <= Len(tree') /\ Len(tree') = sth.size /\ latest' = latest
      BY <2>3, TreeIsExtended DEF UpdateFromSTH
    <3> QED
      BY <2>1, <3>1 DEF OnlyGrows, AnySth
  <2>4. CASE CopyDone
    <3>1. copying.size = Len(tree) /\ tree' = tree /\ latest' = copying
      BY <2>4 DEF CopyDone, ServerInv, CopyIsReady
    <3> QED
      BY <2>1, <3>1 DEF OnlyGrows
  <2>5. ASSUME NEW i, NEW leaf, Store(i, leaf) PROVE UNCHANGED <<tree, latest>>
    BY <2>5 DEF Store
  <2>6. ASSUME Others PROVE UNCHANGED <<tree, latest>>
    BY <2>6 DEF Others
  <2>7. ASSUME NEW r, NEW x, Reply(r, x) \/ GoOn(r, x) PROVE Others
    BY <2>7 DEF Reply, GoOn
  <2>8. ASSUME NEW r, NEW a, NEW b, GetEntries(r, a, b) \/ GetConsistency(r, a, b)
        PROVE  Others
    BY <2>7, <2>8 DEF GetEntries, GetConsistency
  <2>9. ASSUME NEW r, NEW leaf, NEW n, GetProof(r, leaf, n) PROVE Others
    BY <2>7, <2>9 DEF GetProof
  <2>10. ASSUME NEW r, NEW x, AddChain(r, x) \/ BlockingAddChain(r, x) PROVE Others
    BY <2>7, <2>10 DEF AddChain, BlockingAddChain
  <2>11. ASSUME NEW r, BlockingGetEntries(r) PROVE Others
    BY <2>7, <2>11 DEF BlockingGetEntries
  <2>12. ASSUME NEW r, GetIndex(r) \/ AuditProof(r) PROVE Others
    BY <2>7, <2>12 DEF GetIndex, AuditProof
  <2>13. ASSUME NEW r, GetSTH(r) \/ GetSTHTime(r) \/ ConsistencyProof(r) PROVE Others
    BY <2>7, <2>13, Zenon DEF GetSTH, GetSTHTime, ConsistencyProof
  <2>14. ASSUME NEW r, SendJsonReply(r) \/ BadMethod(r) \/ GetRoots(r) PROVE Others
    BY <2>7, <2>14 DEF SendJsonReply, BadMethod, GetRoots
  <2> QED
    BY <2>2, <2>3, <2>4, <2>5, <2>6, <2>8, <2>9, <2>10, <2>11, <2>12, <2>13, <2>14 DEF ServerNext
<1> QED
  BY <1>1, ServerInvariant, PTL DEF ServerSpec

-----------------------------------------------------------------------------
(* ContinuousFetcher: the inductive invariant. *)

\* A fetch as far as the peers matter: how large their trees are does not.
IsFetch(f) ==
    /\ f = [st |-> f.st, group |-> f.group, cancelled |-> f.cancelled, target |-> f.target]
    /\ f.st \in {"running", "returned"}

Shape ==
    /\ peers \subseteq Node
    /\ fetch # NoFetch => IsFetch(fetch)
    /\ closures \in Nat /\ delays \in Nat /\ changes \in Nat
    /\ peers # {} => changes > 0

\* Every fetch that runs or is to come goes back to one change of the peers.
EachFromAChange ==
    /\ closures + delays <= changes
    /\ fetch # NoFetch => closures + delays < changes

ContinuousInv == Shape /\ NeverStops /\ PeersCurrent /\ EachFromAChange

-----------------------------------------------------------------------------
(* ContinuousFetcher: the steps. *)

\* Fewer closures and delays than before are fewer than the changes.
LEMMA LessThan ==
    ASSUME NEW a \in Nat, NEW b \in Nat, NEW c \in Nat, NEW d \in Nat, NEW n \in Nat,
           a + b < c + d, c + d <= n
    PROVE  a + b < n /\ a + b <= n
OBVIOUS

\* The record of a fetch is never the one that stands for no fetch.
LEMMA FetchIsSome ==
    ASSUME NEW f, IsFetch(f)
    PROVE  f # NoFetch
<1>1. f.st # "none" /\ NoFetch.st = "none"
  BY DEF IsFetch, NoFetch
<1> QED
  BY <1>1

\* A fetch that starts is one of the peers of the moment.
LEMMA Starts ==
    ASSUME NEW group, StartFetch(group)
    PROVE  IsFetch(fetch') /\ fetch'.group = group /\ restart' = FALSE
<1> DEFINE size == TreeSize(group)
<1>1. /\ restart' = FALSE
      /\ fetch' = [st |-> "running", group |-> group, cancelled |-> FALSE, target |-> size]
  BY DEF StartFetch
<1> HIDE DEF size
<1> QED
  BY <1>1 DEF IsFetch

\* One that is told to stop is followed at once by another one.
LEMMA Restarts ==
    ASSUME Shape, fetch # NoFetch, Restart
    PROVE  IsFetch(fetch') /\ fetch'.cancelled /\ restart' = TRUE
<1>1. IsFetch(fetch) /\ fetch' = [fetch EXCEPT !.cancelled = TRUE] /\ restart' = TRUE
  BY DEF Shape, Restart
<1>2. fetch' = [st |-> fetch.st, group |-> fetch.group, cancelled |-> TRUE,
                target |-> fetch.target]
  BY <1>1, Zenon DEF IsFetch
<1> QED
  BY <1>1, <1>2, Zenon DEF IsFetch

\* Without peers nothing is fetched.
LEMMA ContinuousInit == Init => ContinuousInv
BY DEF Init, ContinuousInv, Shape, NeverStops, PeersCurrent, EachFromAChange

\* Every step keeps the invariant.
LEMMA ContinuousNext == ContinuousInv /\ [Next]_vars => ContinuousInv'
<1> SUFFICES ASSUME ContinuousInv, [Next]_vars PROVE ContinuousInv'
  OBVIOUS
<1> USE DEF ContinuousInv
<1>1. CASE UNCHANGED vars
  BY <1>1 DEF vars, Shape, NeverStops, PeersCurrent, EachFromAChange
<1>2. ASSUME NEW n \in Node, AddPeer(n)
      PROVE  ContinuousInv'
  <2>1. /\ changes' = changes + 1 /\ peers' = peers \cup {n} /\ UNCHANGED <<closures, delays>>
        /\ IF fetch = NoFetch THEN StartFetch(peers \cup {n}) ELSE Restart
    BY <1>2 DEF AddPeer
  <2>2. /\ IsFetch(fetch') /\ fetch' # NoFetch
        /\ fetch'.group = peers' \/ (restart' /\ fetch'.cancelled)
    BY <2>1, Starts, Restarts, FetchIsSome, Zenon
  <2> QED
    BY <2>1, <2>2 DEF Shape, NeverStops, PeersCurrent, EachFromAChange
<1>3. ASSUME NEW n \in Node, RemovePeer(n)
      PROVE  ContinuousInv'
  <2>1. /\ changes' = changes + 1 /\ peers' = peers \ {n} /\ UNCHANGED <<closures, delays>>
        /\ IF n \in peers /\ fetch # NoFetch THEN Restart ELSE UNCHANGED <<fetch, restart>>
    BY <1>3 DEF RemovePeer
  <2>2. CASE n \in peers /\ fetch # NoFetch
    <3>1. IsFetch(fetch') /\ fetch' # NoFetch /\ restart' /\ fetch'.cancelled
      BY <2>1, <2>2, Restarts, FetchIsSome
    <3> QED
      BY <2>1, <2>2, <3>1 DEF Shape, NeverStops, PeersCurrent, EachFromAChange
  <2>3. CASE ~(n \in peers /\ fetch # NoFetch)
    <3>1. UNCHANGED <<fetch, restart>> /\ (fetch # NoFetch => peers' = peers)
      BY <2>1, <2>3
    <3> QED
      BY <2>1, <3>1 DEF Shape, NeverStops, PeersCurrent, EachFromAChange
  <2> QED
    BY <2>2, <2>3
<1>4. CASE FetchDone
  <2>1. fetch # NoFetch
    BY <1>4 DEF FetchDone, NoFetch
  <2> QED
    BY <1>4, <2>1 DEF FetchDone, Shape, NeverStops, PeersCurrent, EachFromAChange
<1>5. CASE FetchDelayDone
  <2>1. /\ UNCHANGED <<peers, changes>>
        /\ IF fetch = NoFetch THEN StartFetch(peers) ELSE UNCHANGED <<fetch, restart>>
    BY <1>5 DEF FetchDelayDone
  <2>fewer. closures' \in Nat /\ delays' \in Nat /\ closures' + delays' < closures + delays
    <3>1. closures \in Nat /\ delays \in Nat
      BY DEF Shape
    <3>2. \/ closures > 0 /\ closures' = closures - 1 /\ delays' = delays
          \/ delays > 0 /\ delays' = delays - 1 /\ closures' = closures
      BY <1>5 DEF FetchDelayDone
    <3> QED
      BY <3>1, <3>2
  <2>2. CASE fetch = NoFetch
    <3>1. IsFetch(fetch') /\ fetch' # NoFetch /\ fetch'.group = peers
      BY <2>1, <2>2, Starts, FetchIsSome, Zenon
    <3>2. Shape'
      BY <2>1, <2>fewer, <3>1 DEF Shape
    <3>3. NeverStops' /\ PeersCurrent'
      BY <2>1, <3>1 DEF NeverStops, PeersCurrent
    <3>4. closures \in Nat /\ delays \in Nat /\ changes \in Nat /\ closures + delays <= changes
      BY DEF EachFromAChange, Shape
    <3>5. closures' + delays' < changes /\ closures' + delays' <= changes
      BY <2>fewer, <3>4, LessThan, Zenon
    <3>6. EachFromAChange'
      BY <2>1, <3>5, Zenon DEF EachFromAChange
    <3> QED
      BY <3>2, <3>3, <3>6
  <2>3. CASE fetch # NoFetch
    <3>1. UNCHANGED <<peers, changes, fetch, restart>>
      BY <2>1, <2>3
    <3>2. Shape'
      BY <2>fewer, <3>1 DEF Shape
    <3>3. NeverStops' /\ PeersCurrent'
      BY Zenon, <2>3, <3>1 DEF NeverStops, PeersCurrent
    <3>4. closures \in Nat /\ delays \in Nat /\ changes \in Nat /\ closures + delays <= changes
      BY DEF EachFromAChange, Shape
    <3>5. closures' + delays' < changes /\ closures' + delays' <= changes
      BY <2>fewer, <3>4, LessThan
    <3>6. EachFromAChange'
      BY <3>1, <3>5, Zenon DEF EachFromAChange
    <3> QED
      BY <3>2, <3>3, <3>6
  <2> QED
    BY <2>2, <2>3
<1>6. CASE Returns
  <2>1. /\ fetch.st = "running" /\ fetch' = [fetch EXCEPT !.st = "returned"]
        /\ UNCHANGED <<peers, restart, closures, delays, changes>>
    BY <1>6 DEF Returns
  <2>2. fetch # NoFetch
    BY <2>1 DEF NoFetch
  <2>3. fetch' = [st |-> "returned", group |-> fetch.group, cancelled |-> fetch.cancelled,
                  target |-> fetch.target]
    BY <2>1, <2>2 DEF Shape, IsFetch
  <2>4. /\ IsFetch(fetch') /\ fetch' # NoFetch
        /\ fetch'.group = fetch.group /\ fetch'.cancelled = fetch.cancelled
    BY <2>3, FetchIsSome DEF IsFetch
  <2> QED
    BY <2>1, <2>2, <2>4 DEF Shape, NeverStops, PeersCurrent, EachFromAChange
<1>7. ASSUME UNCHANGED <<peers, fetch, restart, closures, delays, changes>>
      PROVE  ContinuousInv'
  BY <1>7 DEF Shape, NeverStops, PeersCurrent, EachFromAChange
<1> QED
  BY <1>1, <1>2, <1>3, <1>4, <1>5, <1>6, <1>7 DEF Next, Progress, PeerGrows

\* The invariant holds from the start on.
LEMMA ContinuousInvariant == Spec => []ContinuousInv
BY ContinuousInit, ContinuousNext, PTL DEF Spec

-----------------------------------------------------------------------------
(* ContinuousFetcher: the theorems. *)

(***************************************************************************)
(* Fetching never ends once there are peers: a fetch runs, or FetchDone or *)
(* a closure that starts the next one is still to come.                    *)
(***************************************************************************)
THEOREM FetchingGoesOn == Spec => []NeverStops
<1>1. ContinuousInv => NeverStops
  BY DEF ContinuousInv
<1> QED
  BY <1>1, ContinuousInvariant, PTL

(***************************************************************************)
(* A fetch uses the peers of the moment, or has been cancelled by AddPeer  *)
(* or RemovePeer and is followed at once by one that does.                 *)
(***************************************************************************)
THEOREM FetchesFromPeers == Spec => []PeersCurrent
<1>1. ContinuousInv => PeersCurrent
  BY DEF ContinuousInv
<1> QED
  BY <1>1, ContinuousInvariant, PTL

(***************************************************************************)
(* The closures and delays that wait are no more than the changes of the   *)
(* peers: a restart does not multiply fetches (FetchDone, FetchDelayDone). *)
(***************************************************************************)
THEOREM FetchesDoNotPileUp == Spec => []DelaysBounded
<1>1. ContinuousInv => DelaysBounded
  BY DEF ContinuousInv, Shape, EachFromAChange, DelaysBounded
<1> QED
  BY <1>1, ContinuousInvariant, PTL

=============================================================================
