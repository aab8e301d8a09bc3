-------------------------- MODULE EtcdStoreProofs --------------------------
(***************************************************************************)
(* Theorems about EtcdStore, for any cluster, entries, threshold and width *)
(* of a handle, and any number of changes and of answers that are lost.    *)
(***************************************************************************)
EXTENDS EtcdStore, FiniteSetTheorems, TLAPS

\* Leaves that name no prover are given to SMT and then to Zenon, with time
\* enough for a busy machine.
USE SMTT(15), ZenonT(25)

\* What the constants are: finitely many entries, whose keys are not those of
\* the other files, and an int of at least one bit.
Setting ==
    /\ IsFiniteSet(Entry) /\ Entry \cap {Mapping, Config, States} = {}
    /\ 2 ^ (HandleBits - 1) \in Nat \ {0}

-----------------------------------------------------------------------------
(* The inductive invariant. *)

AnyNode == [value : Node \cup {None, "config", "state"}, count : Nat, modified : Nat,
            ttl : BOOLEAN]

AnyCall == [op : {"Get", "Create", "Update", "ForceSet", "ForceSetWithTTL", "Delete",
                  "ForceDelete", "GetStoreStats"},
            key : Key \cup {None}, node : AnyNode, prev : Int,
            for : {"handle", "update", "delete", "set", "add", "existing", "stats"}]

AnyHandle == [key : Key \cup {None}, has : BOOLEAN, handle : Int, count : Nat, seen : Nat]

Stats == [createSuccess : Int, deleteSuccess : Int, compareAndDeleteSuccess : Int,
          expireCount : Int]

Shape ==
    /\ store \in [Key -> AnyNode]
    /\ index \in Nat
    /\ stats \in Stats
    /\ call \in [Node -> AnyCall \cup {NoCall}]
    /\ handle \in [Node -> AnyHandle]
    /\ acked \in Nat
    /\ DOMAIN out = Node /\ DOMAIN estimate = Node

\* The requests that the functions of EtcdConsistentStore make for node n, where
\* h is its handle.
Made(n, c, h) ==
    \/ c = NoCall
    \/ \E k \in Entry \cup {Mapping} : c = Request("Get", k, NoNode, 0, "handle")
    \/ /\ h.has /\ h.key = Mapping
       /\ c = Request("Update", Mapping, [NoNode EXCEPT !.count = h.count + 1],
                            h.handle, "update")
    \/ \E e \in Entry :
          \/ \E i \in Int : c = Request("Delete", e, NoNode, i, "delete")
          \/ c = Request("ForceDelete", e, NoNode, 0, "delete")
          \/ c = Request("Create", e, [NoNode EXCEPT !.value = n], 0, "add")
          \/ c = Request("Get", e, NoNode, 0, "existing")
    \/ c = Request("ForceSet", Config, [NoNode EXCEPT !.value = "config"], 0, "set")
    \/ c = Request("ForceSetWithTTL", States, [NoNode EXCEPT !.value = "state"], 0, "set")
    \/ c = Request("GetStoreStats", None, NoNode, 0, "stats")

Pending(n) == Made(n, call[n], handle[n])

\* The mapping exists and stays; nothing was modified later than now.
Stamped ==
    /\ store[Mapping].modified >= 1 /\ ~store[Mapping].ttl
    /\ \A k \in Key : store[k].modified <= index

\* A mapping that was read is the one in etcd, or an older one.
IsBehind(h, node) ==
    h.has /\ h.key = Mapping => /\ h.handle = HandleOf(h.seen)
                                /\ h.seen <= node.modified
                                /\ h.seen = node.modified => h.count = node.count

ReadBefore == \A n \in Node : IsBehind(handle[n], store[Mapping])

\* The statistics never count a key that is not there.
CountsKeys == CalculateNumEtcdEntries(stats) <= Cardinality(Keys(store))

EtcdInv ==
    /\ store \in [Key -> AnyNode] /\ index \in Nat /\ stats \in Stats
    /\ Stamped /\ CountsKeys

StoreInv ==
    /\ Shape /\ (\A n \in Node : Pending(n)) /\ Stamped /\ ReadBefore /\ CountsKeys
    /\ NoLostUpdate

-----------------------------------------------------------------------------
(* Handles. *)

\* What is left by a division.
LEMMA Remainder ==
    ASSUME NEW x \in Nat, NEW d \in Nat, d > 0
    PROVE  x % d \in 0 .. (d - 1) /\ x % d <= x /\ (x < d => x % d = x)
<1>1. x % d \in 0 .. (d - 1)
  OBVIOUS
<1>2. x % d <= x
  OBVIOUS
<1>3. x < d => x % d = x
  OBVIOUS
<1> QED BY <1>1, <1>2, <1>3

\* An index put into an int stays or gets smaller, and stays if it fits.
LEMMA HandleFits ==
    ASSUME Setting, NEW i \in Nat
    PROVE  /\ HandleOf(i) \in Int /\ HandleOf(i) <= i
           /\ i < 2 ^ (HandleBits - 1) => HandleOf(i) = i
<1> DEFINE half == 2 ^ (HandleBits - 1)
<1>1. /\ half \in Nat /\ half > 0 /\ i + half \in Nat
      /\ 2 * half \in Nat /\ 2 * half > 0
  BY DEF Setting
<1> HIDE DEF half
<1>2. HandleOf(i) = ((i + half) % (2 * half)) - half
  BY DEF HandleOf, half
<1>3. /\ (i + half) % (2 * half) \in 0 .. (2 * half - 1)
      /\ (i + half) % (2 * half) <= i + half
      /\ i + half < 2 * half => (i + half) % (2 * half) = i + half
  BY <1>1, Remainder
<1>4. HandleOf(i) \in Int /\ HandleOf(i) <= i /\ (i < half => HandleOf(i) = i)
  BY <1>1, <1>2, <1>3
<1> QED BY <1>4 DEF half

-----------------------------------------------------------------------------
(* etcd. *)

\* etcd refuses a write and changes nothing, or carries it out.
LEMMA PutAnswers ==
    ASSUME NEW k, NEW node, NEW prevExist, NEW prevIndex, NEW a, NEW new,
           a = Put(k, node, prevExist, prevIndex),
           new = [node EXCEPT !.modified = index + 1]
    PROVE  \/ a = Refuse("FAILED_PRECONDITION") \/ a = Refuse("NOT_FOUND")
           \/ /\ prevIndex \in {{}, {store[k].modified}} \/ store[k] = NoNode
              /\ prevExist = "false" => store[k] = NoNode
              /\ a = Answer("OK", new, [store EXCEPT ![k] = new], index + 1,
                            IF prevExist = "false" THEN Counted("createSuccess")
                            ELSE stats)
BY DEF Put

\* An update is carried out only if the index given is that of the file.
LEMMA UpdateAnswers ==
    ASSUME NEW k, NEW node, NEW prev, NEW a, NEW new, a = Update(k, node, prev),
           new = [node EXCEPT !.modified = index + 1]
    PROVE  \/ a = Refuse("FAILED_PRECONDITION") /\ prev # store[k].modified
           \/ a = Refuse("NOT_FOUND") /\ store[k] = NoNode
           \/ /\ prev = store[k].modified
              /\ a = Answer("OK", new, [store EXCEPT ![k] = new], index + 1, stats)
BY DEF Update, Put

\* A file's removal is refused, or carried out and counted.
LEMMA RemoveAnswers ==
    ASSUME NEW k, NEW prevIndex, NEW counter, NEW a, a = Remove(k, prevIndex, counter)
    PROVE  \/ a = Refuse("FAILED_PRECONDITION") \/ a = Refuse("NOT_FOUND")
           \/ /\ store[k] # NoNode
              /\ a = Answer("OK", NoNode, [store EXCEPT ![k] = NoNode], index + 1,
                            Counted(counter))
BY DEF Remove

\* The nodes that are written.
LEMMA CountNode ==
    ASSUME NEW c \in Nat
    PROVE  /\ [NoNode EXCEPT !.count = c] \in AnyNode
           /\ ~[NoNode EXCEPT !.count = c].ttl /\ [NoNode EXCEPT !.count = c].count = c
BY Zenon DEF NoNode, AnyNode

\* A node that is written gets a new index and keeps its value and count.
LEMMA NewNode ==
    ASSUME NEW node \in AnyNode, NEW i \in Nat
    PROVE  LET new == [node EXCEPT !.modified = i + 1]
           IN  /\ new \in AnyNode /\ new.modified = i + 1 /\ new # NoNode
               /\ new.ttl = node.ttl /\ new.count = node.count /\ new.value = node.value
BY DEF NoNode, AnyNode

\* There are finitely many keys.
LEMMA KeysFinite ==
    ASSUME Setting
    PROVE  /\ IsFiniteSet(Keys(store)) /\ Cardinality(Keys(store)) \in Nat
           /\ Keys(store) \subseteq Key
<1>1. IsFiniteSet({Mapping, Config, States} \cup Entry)
  <2>1. IsFiniteSet({Mapping}) /\ IsFiniteSet({Config}) /\ IsFiniteSet({States})
    BY FS_Singleton, Zenon
  <2>2. IsFiniteSet({Mapping} \cup {Config} \cup {States} \cup Entry)
    BY <2>1, FS_Union, Zenon DEF Setting
  <2>3. {Mapping} \cup {Config} \cup {States} \cup Entry = Key
    BY DEF Key
  <2> QED BY <2>2, <2>3 DEF Key
<1>2. Keys(store) \subseteq Key
  BY DEF Keys
<1>3. IsFiniteSet(Keys(store))
  BY <1>1, <1>2, FS_Subset DEF Key
<1> QED BY <1>2, <1>3, FS_CardinalityType

\* A write of a node without a time to live, or of a key other than the mapping.
LEMMA WriteKeepsEtcd ==
    ASSUME Setting, EtcdInv, NEW k \in Key, NEW node \in AnyNode,
           k = Mapping => ~node.ttl,
           store' = [store EXCEPT ![k] = [node EXCEPT !.modified = index + 1]],
           index' = index + 1,
           stats' = stats \/ (store[k] = NoNode /\ stats' = Counted("createSuccess"))
    PROVE  EtcdInv'
<1> DEFINE new == [node EXCEPT !.modified = index + 1]
<1>1. /\ new \in AnyNode /\ new.modified = index + 1 /\ new # NoNode
      /\ new.ttl = node.ttl
  BY DEF EtcdInv, AnyNode, NoNode
<1>2. store' \in [Key -> AnyNode] /\ index' \in Nat /\ stats' \in Stats
  <2>1. Counted("createSuccess") \in Stats
    BY DEF Counted, Stats, EtcdInv
  <2> QED BY <1>1, <2>1 DEF EtcdInv
<1> HIDE DEF new
<1>3. store' = [store EXCEPT ![k] = new] /\ Mapping \in Key
  BY DEF new, Key
<1>4. Stamped'
  BY <1>1, <1>3 DEF EtcdInv, Stamped, AnyNode
<1>5. Keys(store') = Keys(store) \cup {k}
  BY <1>1, <1>3 DEF Keys, EtcdInv
<1>6. /\ Cardinality(Keys(store')) \in Int /\ Cardinality(Keys(store)) \in Int
      /\ Cardinality(Keys(store')) >= Cardinality(Keys(store))
      /\ k \notin Keys(store) => Cardinality(Keys(store')) = Cardinality(Keys(store)) + 1
  <2>1. /\ IsFiniteSet(Keys(store)) /\ Cardinality(Keys(store)) \in Nat
    BY KeysFinite
  <2>2. Cardinality(Keys(store')) = IF k \in Keys(store) THEN Cardinality(Keys(store))
                                    ELSE Cardinality(Keys(store)) + 1
    BY <1>5, <2>1, FS_AddElement, Zenon
  <2> QED BY <2>1, <2>2
<1>7. CountsKeys'
  <2>1. CASE stats' = stats
    BY <1>6, <2>1 DEF EtcdInv, CountsKeys, CalculateNumEtcdEntries, Stats
  <2>2. CASE store[k] = NoNode /\ stats' = Counted("createSuccess")
    <3>1. k \notin Keys(store)
      BY <2>2 DEF Keys
    <3>2. CalculateNumEtcdEntries(stats') = CalculateNumEtcdEntries(stats) + 1
      BY <2>2 DEF Counted, CalculateNumEtcdEntries, EtcdInv, Stats
    <3>3. CalculateNumEtcdEntries(stats) \in Int
      BY DEF CalculateNumEtcdEntries, EtcdInv, Stats
    <3> QED BY <1>6, <3>1, <3>2, <3>3 DEF EtcdInv, CountsKeys
  <2> QED BY <2>1, <2>2
<1> QED BY <1>2, <1>4, <1>7 DEF EtcdInv

\* A key other than the mapping is removed and counted once.
LEMMA RemovalKeepsEtcd ==
    ASSUME Setting, EtcdInv, NEW k \in Key, k # Mapping, store[k] # NoNode,
           NEW c \in {"deleteSuccess", "compareAndDeleteSuccess", "expireCount"},
           store' = [store EXCEPT ![k] = NoNode], index' = index + 1, stats' = Counted(c)
    PROVE  EtcdInv'
<1>1. NoNode \in AnyNode /\ NoNode.modified = 0 /\ Mapping \in Key
  BY DEF AnyNode, NoNode, Key
<1>2. store' \in [Key -> AnyNode] /\ index' \in Nat /\ stats' \in Stats
  BY <1>1 DEF EtcdInv, Counted, Stats
<1>3. Stamped'
  BY <1>1 DEF EtcdInv, Stamped, AnyNode
<1>4. Keys(store') = Keys(store) \ {k} /\ k \in Keys(store)
  BY DEF Keys, EtcdInv
<1>5. /\ Cardinality(Keys(store)) \in Int
      /\ Cardinality(Keys(store')) = Cardinality(Keys(store)) - 1
  <2>1. IsFiniteSet(Keys(store)) /\ Cardinality(Keys(store)) \in Nat
    BY KeysFinite
  <2>2. Cardinality(Keys(store) \ {k}) = Cardinality(Keys(store)) - 1
    BY <1>4, <2>1, FS_RemoveElement, Zenon
  <2>3. Cardinality(Keys(store')) = Cardinality(Keys(store)) - 1
    BY Zenon, <1>4, <2>2
  <2> QED BY <2>1, <2>3
<1>6. /\ CalculateNumEtcdEntries(stats') = CalculateNumEtcdEntries(stats) - 1
      /\ CalculateNumEtcdEntries(stats) \in Int
  BY DEF Counted, CalculateNumEtcdEntries, EtcdInv, Stats
<1>7. CountsKeys'
  BY <1>5, <1>6 DEF EtcdInv, CountsKeys
<1> QED BY <1>2, <1>3, <1>7 DEF EtcdInv

\* The fields of a request.
LEMMA RequestFields ==
    ASSUME NEW op, NEW k, NEW node, NEW prev, NEW for
    PROVE  LET r == Request(op, k, node, prev, for)
           IN  /\ r.op = op /\ r.key = k /\ r.node = node /\ r.prev = prev /\ r.for = for
               /\ op # None => r # NoCall
BY DEF Request, NoCall

\* The fields of an answer.
LEMMA AnswerFields ==
    ASSUME NEW status, NEW node, NEW s, NEW i, NEW counts
    PROVE  LET a == Answer(status, node, s, i, counts)
           IN  /\ a.status = status /\ a.node = node /\ a.store = s /\ a.index = i
               /\ a.stats = counts
BY DEF Answer

\* A refusal changes nothing.
LEMMA RefusalFields ==
    ASSUME NEW status
    PROVE  Refuse(status).status = status /\ Refuse(status).store = store
BY AnswerFields DEF Refuse

\* Reading finds what is there, or nothing.
LEMMA GetAnswers ==
    ASSUME NEW k, NEW a, a = Get(k)
    PROVE  a.status = "NOT_FOUND" \/ (a.status = "OK" /\ a.node = store[k])
<1>1. CASE a = Refuse("NOT_FOUND")
  BY <1>1, RefusalFields
<1>2. CASE a = Answer("OK", store[k], store, index, stats)
  BY <1>2, AnswerFields
<1> QED BY Zenon, <1>1, <1>2 DEF Get

\* The mapping is a file, and so is every key that expires; the mapping never
\* does.
LEMMA FilesThere ==
    ASSUME EtcdInv
    PROVE  /\ store[Mapping] # NoNode
           /\ \A k \in Key : store[k].ttl => k # Mapping /\ store[k] # NoNode
<1>1. NoNode.modified = 0 /\ NoNode.ttl = FALSE
  BY DEF NoNode
<1>2. store[Mapping].modified >= 1 /\ ~store[Mapping].ttl
  BY Zenon DEF EtcdInv, Stamped
<1> QED BY <1>1, <1>2

\* What carrying out the request of n does to the mapping.
Extends(n) ==
    \/ store'[Mapping] = store[Mapping]
    \/ /\ call[n].for = "update" /\ Served(call[n]).status = "OK"
       /\ call[n].prev = store[Mapping].modified
       /\ Served(call[n]).node = store'[Mapping]
       /\ store'[Mapping].count = call[n].node.count
       /\ store'[Mapping].modified = index + 1

\* A request that etcd refuses, or that only reads.
LEMMA NothingServed ==
    ASSUME EtcdInv, NEW n \in Node, UNCHANGED <<store, index, stats>>
    PROVE  EtcdInv' /\ Extends(n) /\ index' >= index
BY DEF EtcdInv, Stamped, CountsKeys, Keys, CalculateNumEtcdEntries, Extends

\* Only an update through a current handle changes the mapping.
LEMMA Serving ==
    ASSUME Setting, EtcdInv, NEW n \in Node, Pending(n), call[n] # NoCall,
           handle[n].count \in Nat, Serve(Served(call[n]))
    PROVE  EtcdInv' /\ Extends(n) /\ index' >= index
<1> DEFINE a == Served(call[n])
<1>a. store' = a.store /\ index' = a.index /\ stats' = a.stats
  BY DEF Serve
<1>b. /\ Mapping \in Key /\ Config \in Key /\ States \in Key /\ Entry \subseteq Key
      /\ Config # Mapping /\ States # Mapping /\ Mapping \notin Entry
      /\ NoNode \in AnyNode
  BY DEF Key, Mapping, Config, States, Setting, NoNode, AnyNode
<1>c. index \in Nat /\ index + 1 >= index /\ DOMAIN store = Key
  BY DEF EtcdInv
<1>d. ASSUME NEW st, a = Refuse(st)
      PROVE  EtcdInv' /\ Extends(n) /\ index' >= index
  BY <1>a, <1>d, AnswerFields, NothingServed DEF Refuse
<1> HIDE DEF a
<1>1. CASE call[n].op \in {"Get", "GetStoreStats"}
  <2>1. a.store = store /\ a.index = index /\ a.stats = stats
    <3>1. a = Get(call[n].key) \/ a = GetStoreStats
      BY <1>1 DEF a, Served
    <3> QED BY <3>1 DEF Get, GetStoreStats, Refuse, Answer
  <2> QED BY <1>a, <2>1, NothingServed
<1>2. CASE call[n] = Request("Update", Mapping, [NoNode EXCEPT !.count = handle[n].count + 1],
                             handle[n].handle, "update")
  <2> DEFINE node == [NoNode EXCEPT !.count = handle[n].count + 1]
             new == [node EXCEPT !.modified = index + 1]
  <2>0. node \in AnyNode /\ ~node.ttl /\ new.modified = index + 1 /\ new.count = node.count
    <3>1. handle[n].count + 1 \in Nat
      OBVIOUS
    <3>2. node \in AnyNode /\ ~node.ttl
      BY Zenon, <3>1, CountNode
    <3> HIDE DEF node
    <3> QED BY <1>c, <3>2, NewNode
  <2> HIDE DEF node
  <2>1. /\ call[n].op = "Update" /\ call[n].key = Mapping /\ call[n].node = node
        /\ call[n].prev = handle[n].handle /\ call[n].for = "update"
    BY <1>2, RequestFields DEF node
  <2>2. a = Update(Mapping, node, handle[n].handle)
    BY <2>1 DEF a, Served
  <2>a. new = [node EXCEPT !.modified = index + 1]
    OBVIOUS
  <2> HIDE DEF new
  <2>3. \/ a = Refuse("FAILED_PRECONDITION") \/ a = Refuse("NOT_FOUND")
        \/ /\ handle[n].handle = store[Mapping].modified
           /\ a = Answer("OK", new, [store EXCEPT ![Mapping] = new], index + 1, stats)
    BY <2>2, <2>a, UpdateAnswers
  <2>4. CASE /\ handle[n].handle = store[Mapping].modified
             /\ a = Answer("OK", new, [store EXCEPT ![Mapping] = new], index + 1, stats)
    <3>1. /\ store' = [store EXCEPT ![Mapping] = new] /\ index' = index + 1
          /\ stats' = stats /\ a.status = "OK" /\ a.node = new
      BY <1>a, <2>4, AnswerFields
    <3>4. EtcdInv'
      BY <1>b, <2>0, <2>a, <3>1, WriteKeepsEtcd, Zenon
    <3>5. store'[Mapping] = new
      BY <1>b, <1>c, <3>1
    <3>6. Extends(n)
      BY <2>0, <2>1, <2>4, <3>1, <3>5 DEF Extends, a
    <3> QED BY <1>c, <3>1, <3>4, <3>6
  <2> QED BY <1>d, <2>3, <2>4
<1>3. ASSUME NEW k \in Key, k # Mapping, NEW node \in AnyNode, NEW pe, NEW pi,
             a = Put(k, node, pe, pi)
      PROVE  EtcdInv' /\ Extends(n) /\ index' >= index
  <2> DEFINE new == [node EXCEPT !.modified = index + 1]
  <2>a. new = [node EXCEPT !.modified = index + 1]
    OBVIOUS
  <2> HIDE DEF new
  <2>1. \/ a = Refuse("FAILED_PRECONDITION") \/ a = Refuse("NOT_FOUND")
        \/ /\ pe = "false" => store[k] = NoNode
           /\ a = Answer("OK", new, [store EXCEPT ![k] = new], index + 1,
                         IF pe = "false" THEN Counted("createSuccess") ELSE stats)
    BY <1>3, <2>a, PutAnswers
  <2>2. CASE /\ pe = "false" => store[k] = NoNode
             /\ a = Answer("OK", new, [store EXCEPT ![k] = new], index + 1,
                           IF pe = "false" THEN Counted("createSuccess") ELSE stats)
    <3>1. /\ store' = [store EXCEPT ![k] = new] /\ index' = index + 1
          /\ stats' = IF pe = "false" THEN Counted("createSuccess") ELSE stats
      BY <1>a, <2>2, AnswerFields
    <3>2. EtcdInv'
      BY <1>3, <2>a, <2>2, <3>1, WriteKeepsEtcd, Zenon
    <3>3. store'[Mapping] = store[Mapping]
      BY <1>b, <1>c, <1>3, <3>1
    <3> QED BY <1>c, <3>1, <3>2, <3>3 DEF Extends
  <2> QED BY <1>d, <2>1, <2>2
<1>4. ASSUME NEW k \in Key, k # Mapping, NEW pi,
             NEW c \in {"deleteSuccess", "compareAndDeleteSuccess", "expireCount"},
             a = Remove(k, pi, c)
      PROVE  EtcdInv' /\ Extends(n) /\ index' >= index
  <2>1. \/ a = Refuse("FAILED_PRECONDITION") \/ a = Refuse("NOT_FOUND")
        \/ /\ store[k] # NoNode
           /\ a = Answer("OK", NoNode, [store EXCEPT ![k] = NoNode], index + 1, Counted(c))
    BY <1>4, RemoveAnswers
  <2>2. CASE /\ store[k] # NoNode
             /\ a = Answer("OK", NoNode, [store EXCEPT ![k] = NoNode], index + 1, Counted(c))
    <3>1. /\ store' = [store EXCEPT ![k] = NoNode] /\ index' = index + 1
          /\ stats' = Counted(c)
      BY <1>a, <2>2, AnswerFields
    <3>2. EtcdInv'
      BY <1>4, <2>2, <3>1, RemovalKeepsEtcd, Zenon
    <3>3. store'[Mapping] = store[Mapping]
      BY <1>b, <1>c, <1>4, <3>1
    <3> QED BY <1>c, <3>1, <3>2, <3>3 DEF Extends
  <2> QED BY <1>d, <2>1, <2>2
<1>5. ASSUME NEW e \in Entry
      PROVE  /\ \A i \in Int : call[n] = Request("Delete", e, NoNode, i, "delete") =>
                    a = Remove(e, {i}, "compareAndDeleteSuccess")
             /\ call[n] = Request("ForceDelete", e, NoNode, 0, "delete") =>
                    a = Remove(e, {}, "deleteSuccess")
             /\ call[n] = Request("Create", e, [NoNode EXCEPT !.value = n], 0, "add") =>
                    a = Put(e, [NoNode EXCEPT !.value = n], "false", {})
  <2>1. ASSUME NEW i \in Int, call[n] = Request("Delete", e, NoNode, i, "delete")
        PROVE  a = Remove(e, {i}, "compareAndDeleteSuccess")
    <3>1. call[n].op = "Delete" /\ call[n].key = e /\ call[n].prev = i
      BY <2>1, RequestFields
    <3> QED BY <3>1 DEF a, Served, Delete
  <2>2. ASSUME call[n] = Request("ForceDelete", e, NoNode, 0, "delete")
        PROVE  a = Remove(e, {}, "deleteSuccess")
    <3>1. call[n].op = "ForceDelete" /\ call[n].key = e
      BY <2>2, RequestFields
    <3> QED BY <3>1 DEF a, Served, ForceDelete
  <2>3. ASSUME call[n] = Request("Create", e, [NoNode EXCEPT !.value = n], 0, "add")
        PROVE  a = Put(e, [NoNode EXCEPT !.value = n], "false", {})
    <3>1. /\ call[n].op = "Create" /\ call[n].key = e
          /\ call[n].node = [NoNode EXCEPT !.value = n]
      BY <2>3, RequestFields
    <3> QED BY <3>1 DEF a, Served, Create
  <2> QED BY Zenon, <2>1, <2>2, <2>3
<1>6. ASSUME call[n] = Request("ForceSet", Config, [NoNode EXCEPT !.value = "config"], 0, "set")
      PROVE  a = Put(Config, [NoNode EXCEPT !.value = "config"], "any", {})
  <2>1. /\ call[n].op = "ForceSet" /\ call[n].key = Config
        /\ call[n].node = [NoNode EXCEPT !.value = "config"]
    BY <1>6, RequestFields
  <2> QED BY <2>1 DEF a, Served, ForceSet
<1>7. ASSUME call[n] = Request("ForceSetWithTTL", States, [NoNode EXCEPT !.value = "state"], 0,
                               "set")
      PROVE  a = Put(States, [[NoNode EXCEPT !.value = "state"] EXCEPT !.ttl = TRUE], "any", {})
  <2>1. /\ call[n].op = "ForceSetWithTTL" /\ call[n].key = States
        /\ call[n].node = [NoNode EXCEPT !.value = "state"]
    BY <1>7, RequestFields
  <2> QED BY <2>1 DEF a, Served, ForceSetWithTTL
<1>8. /\ [NoNode EXCEPT !.value = n] \in AnyNode
      /\ [NoNode EXCEPT !.value = "config"] \in AnyNode
      /\ [[NoNode EXCEPT !.value = "state"] EXCEPT !.ttl = TRUE] \in AnyNode
  BY Zenon DEF NoNode, AnyNode
<1>9. CASE \E e \in Entry :
              \/ \E i \in Int : call[n] = Request("Delete", e, NoNode, i, "delete")
              \/ call[n] = Request("ForceDelete", e, NoNode, 0, "delete")
              \/ call[n] = Request("Create", e, [NoNode EXCEPT !.value = n], 0, "add")
              \/ call[n] = Request("Get", e, NoNode, 0, "existing")
  <2>1. PICK e \in Entry :
              \/ \E i \in Int : call[n] = Request("Delete", e, NoNode, i, "delete")
              \/ call[n] = Request("ForceDelete", e, NoNode, 0, "delete")
              \/ call[n] = Request("Create", e, [NoNode EXCEPT !.value = n], 0, "add")
              \/ call[n] = Request("Get", e, NoNode, 0, "existing")
    BY <1>9
  <2>2. e \in Key /\ e # Mapping
    BY <1>b
  <2>3. CASE \E i \in Int : call[n] = Request("Delete", e, NoNode, i, "delete")
    BY <1>4, <1>5, <2>2, <2>3, Zenon
  <2>4. CASE call[n] = Request("ForceDelete", e, NoNode, 0, "delete")
    BY <1>4, <1>5, <2>2, <2>4
  <2>5. CASE call[n] = Request("Create", e, [NoNode EXCEPT !.value = n], 0, "add")
    BY Zenon, <1>3, <1>5, <1>8, <2>2, <2>5
  <2>6. CASE call[n] = Request("Get", e, NoNode, 0, "existing")
    <3>1. call[n].op = "Get"
      BY <2>6, RequestFields
    <3> QED BY <1>1, <3>1
  <2> QED BY Zenon, <2>1, <2>3, <2>4, <2>5, <2>6
<1>10. CASE \E k \in Entry \cup {Mapping} : call[n] = Request("Get", k, NoNode, 0, "handle")
  <2>1. call[n].op = "Get"
    BY <1>10, RequestFields
  <2> QED BY <1>1, <2>1
<1>11. CASE call[n] = Request("GetStoreStats", None, NoNode, 0, "stats")
  <2>1. call[n].op = "GetStoreStats"
    BY <1>11, RequestFields
  <2> QED BY <1>1, <2>1
<1>12. CASE call[n] = Request("ForceSet", Config, [NoNode EXCEPT !.value = "config"], 0, "set")
  BY Zenon, <1>b, <1>3, <1>6, <1>8, <1>12
<1>13. CASE call[n] = Request("ForceSetWithTTL", States, [NoNode EXCEPT !.value = "state"], 0,
                              "set")
  BY Zenon, <1>b, <1>3, <1>7, <1>8, <1>13
<1> QED BY Zenon, <1>2, <1>9, <1>10, <1>11, <1>12, <1>13 DEF Pending, Made

-----------------------------------------------------------------------------
(* The calls and their answers. *)

\* The parts of the invariant.
LEMMA Parts ==
    ASSUME StoreInv
    PROVE  /\ EtcdInv /\ (\A n \in Node : Pending(n)) /\ ReadBefore /\ NoLostUpdate
           /\ DOMAIN call = Node /\ DOMAIN handle = Node /\ acked \in Nat
           /\ DOMAIN out = Node /\ DOMAIN estimate = Node
           /\ \A n \in Node : /\ handle[n].handle \in Int
                              /\ handle[n].count \in Nat /\ handle[n].seen \in Nat
           /\ store[Mapping].modified \in Nat /\ store[Mapping].count \in Nat
<1>1. Mapping \in Key
  BY DEF Key
<1>2. EtcdInv /\ (\A n \in Node : Pending(n)) /\ ReadBefore /\ NoLostUpdate
  BY Zenon DEF StoreInv, Shape, EtcdInv
<1>3. store[Mapping].modified \in Nat /\ store[Mapping].count \in Nat
  BY <1>1 DEF StoreInv, Shape, AnyNode
<1>4. /\ DOMAIN call = Node /\ DOMAIN handle = Node /\ acked \in Nat
      /\ DOMAIN out = Node /\ DOMAIN estimate = Node
      /\ \A n \in Node : /\ handle[n].handle \in Int
                         /\ handle[n].count \in Nat /\ handle[n].seen \in Nat
  BY DEF StoreInv, Shape, AnyHandle
<1> QED BY <1>2, <1>3, <1>4

\* Which request a node waits for, by what it is made for.
LEMMA WaitsFor ==
    ASSUME NEW n \in Node, Pending(n), call[n] # NoCall
    PROVE  /\ call[n].for = "handle" =>
                 \E k \in Entry \cup {Mapping} : call[n] = Request("Get", k, NoNode, 0, "handle")
           /\ call[n].for = "update" =>
                 /\ handle[n].has /\ handle[n].key = Mapping
                 /\ call[n] = Request("Update", Mapping,
                                      [NoNode EXCEPT !.count = handle[n].count + 1],
                                      handle[n].handle, "update")
           /\ call[n].for = "add" =>
                 \E e \in Entry :
                    call[n] = Request("Create", e, [NoNode EXCEPT !.value = n], 0, "add")
           /\ call[n].for = "existing" =>
                 \E e \in Entry : call[n] = Request("Get", e, NoNode, 0, "existing")
BY RequestFields DEF Pending, Made

\* The update that is carried out counts one more than the mapping in etcd:
\* the index of the handle did not get larger when it was put into an int.
LEMMA UpdateCounts ==
    ASSUME Setting, StoreInv, NEW n \in Node, call[n] # NoCall, call[n].for = "update",
           call[n].prev = store[Mapping].modified
    PROVE  call[n].node.count = store[Mapping].count + 1
<1>1. /\ handle[n].has /\ handle[n].key = Mapping
      /\ call[n] = Request("Update", Mapping, [NoNode EXCEPT !.count = handle[n].count + 1],
                           handle[n].handle, "update")
  BY Parts, WaitsFor, Zenon
<1>2. /\ call[n].prev = handle[n].handle
      /\ call[n].node = [NoNode EXCEPT !.count = handle[n].count + 1]
  BY <1>1, RequestFields
<1>3. /\ handle[n].handle = HandleOf(handle[n].seen)
      /\ handle[n].seen <= store[Mapping].modified
      /\ handle[n].seen = store[Mapping].modified => handle[n].count = store[Mapping].count
  BY Zenon, <1>1, Parts DEF ReadBefore, IsBehind
<1>4. /\ handle[n].seen \in Nat /\ handle[n].count \in Nat
      /\ store[Mapping].modified \in Nat
  BY Zenon, Parts
<1>5. HandleOf(handle[n].seen) <= handle[n].seen
  BY Zenon, <1>4, HandleFits
<1>6. handle[n].seen = store[Mapping].modified
  BY <1>2, <1>3, <1>4, <1>5
<1>7. handle[n].count + 1 \in Nat
  BY <1>4
<1>8. call[n].node.count = handle[n].count + 1
  BY Zenon, <1>2, <1>7, CountNode
<1> QED BY <1>3, <1>6, <1>8

\* What etcd does for n leaves the updates in the mapping, and its readers
\* behind it.
LEMMA MappingGrows ==
    ASSUME Setting, StoreInv, EtcdInv', NEW n \in Node, call[n] # NoCall, Extends(n)
    PROVE  /\ store'[Mapping].count >= store[Mapping].count
           /\ \A m \in Node : IsBehind(handle[m], store'[Mapping])
<1>1. CASE store'[Mapping] = store[Mapping]
  <2>1. store'[Mapping].count >= store[Mapping].count
    BY <1>1, Parts
  <2> QED BY Zenon, <1>1, <2>1, Parts DEF ReadBefore
<1>2. CASE /\ call[n].for = "update" /\ call[n].prev = store[Mapping].modified
           /\ store'[Mapping].count = call[n].node.count
           /\ store'[Mapping].modified = index + 1
  <2>1. store'[Mapping].count = store[Mapping].count + 1
    BY Zenon, <1>2, UpdateCounts
  <2>2. store[Mapping].modified <= index /\ index \in Nat
    BY Parts DEF EtcdInv, Stamped, Key
  <2>3. \A m \in Node : handle[m].has /\ handle[m].key = Mapping =>
           /\ handle[m].seen <= store[Mapping].modified
           /\ handle[m].handle = HandleOf(handle[m].seen)
    BY Zenon, Parts DEF ReadBefore, IsBehind
  <2>4. /\ store[Mapping].modified \in Nat /\ store[Mapping].count \in Nat
        /\ \A m \in Node : handle[m].seen \in Nat
    BY Zenon, Parts
  <2>5. \A m \in Node : handle[m].has /\ handle[m].key = Mapping =>
           handle[m].seen < store'[Mapping].modified
    BY <1>2, <2>2, <2>3, <2>4
  <2> QED BY <1>2, <2>1, <2>2, <2>3, <2>4, <2>5 DEF IsBehind
<1> QED BY Zenon, <1>1, <1>2 DEF Extends

\* A request of the code is one.
LEMMA MadeType ==
    ASSUME NEW n \in Node, NEW c, NEW h, Made(n, c, h), h.count \in Nat, h.handle \in Int
    PROVE  c \in AnyCall \cup {NoCall}
<1>1. /\ Mapping \in Key /\ Config \in Key /\ States \in Key /\ Entry \subseteq Key
  BY DEF Key
<1>2. NoNode \in AnyNode
  BY DEF NoNode, AnyNode
<1>3. /\ [NoNode EXCEPT !.value = n] \in AnyNode
      /\ [NoNode EXCEPT !.value = "config"] \in AnyNode
      /\ [NoNode EXCEPT !.value = "state"] \in AnyNode
  BY Zenon DEF NoNode, AnyNode
<1>4. [NoNode EXCEPT !.count = h.count + 1] \in AnyNode
  <2>1. h.count + 1 \in Nat
    OBVIOUS
  <2> QED BY Zenon, <2>1, CountNode
<1>5. 0 \in Int
  OBVIOUS
<1>6. \A k \in Entry \cup {Mapping} : Request("Get", k, NoNode, 0, "handle") \in AnyCall
  BY <1>1, <1>2, <1>5 DEF Request, AnyCall
<1>7. Request("Update", Mapping, [NoNode EXCEPT !.count = h.count + 1], h.handle, "update")
         \in AnyCall
  BY <1>1, <1>4 DEF Request, AnyCall
<1>8. \A e \in Entry :
         /\ \A i \in Int : Request("Delete", e, NoNode, i, "delete") \in AnyCall
         /\ Request("ForceDelete", e, NoNode, 0, "delete") \in AnyCall
         /\ Request("Create", e, [NoNode EXCEPT !.value = n], 0, "add") \in AnyCall
         /\ Request("Get", e, NoNode, 0, "existing") \in AnyCall
  BY <1>1, <1>2, <1>3, <1>5 DEF Request, AnyCall
<1>9. /\ Request("ForceSet", Config, [NoNode EXCEPT !.value = "config"], 0, "set") \in AnyCall
      /\ Request("ForceSetWithTTL", States, [NoNode EXCEPT !.value = "state"], 0, "set")
            \in AnyCall
      /\ Request("GetStoreStats", None, NoNode, 0, "stats") \in AnyCall
  BY <1>1, <1>2, <1>3, <1>5 DEF Request, AnyCall
<1> QED BY Zenon, <1>6, <1>7, <1>8, <1>9 DEF Made

\* A step that leaves etcd and the handles alone.
LEMMA CallInv ==
    ASSUME StoreInv, NEW n \in Node, UNCHANGED <<store, index, stats, handle, acked>>,
           NEW request, call' = [call EXCEPT ![n] = request], Pending(n)',
           DOMAIN out' = Node, DOMAIN estimate' = Node
    PROVE  StoreInv'
<1>1. \A m \in Node : Pending(m)'
  <2> SUFFICES ASSUME NEW m \in Node, m # n PROVE Pending(m)'
    OBVIOUS
  <2>1. call'[m] = call[m] /\ handle'[m] = handle[m]
    BY Parts
  <2> QED BY Zenon, <2>1, Parts DEF Pending
<1>2. Shape'
  <2>1. (\A m \in Node : call[m] \in AnyCall \cup {NoCall})'
    <3> SUFFICES ASSUME NEW m \in Node PROVE call'[m] \in AnyCall \cup {NoCall}
      OBVIOUS
    <3>1. handle'[m].count \in Nat /\ handle'[m].handle \in Int
      BY Parts
    <3>2. Made(m, call'[m], handle'[m])
      BY Zenon, <1>1 DEF Pending
    <3> QED BY Zenon, <3>1, <3>2, MadeType
  <2>2. call' \in [Node -> AnyCall \cup {NoCall}]
    BY <2>1, Parts, Zenon
  <2> QED BY <2>2 DEF StoreInv, Shape
<1>3. (Stamped /\ ReadBefore /\ CountsKeys /\ NoLostUpdate)'
  BY DEF StoreInv, Stamped, ReadBefore, CountsKeys, Keys, NoLostUpdate,
         CalculateNumEtcdEntries
<1> QED BY <1>1, <1>2, <1>3 DEF StoreInv

\* An answer that n gets.
LEMMA AnswerInv ==
    ASSUME Setting, StoreInv, EtcdInv', NEW n \in Node, call[n] # NoCall, Extends(n),
           NEW c, call' = [call EXCEPT ![n] = c], Made(n, c, handle'[n]),
           NEW h \in AnyHandle, handle' = [handle EXCEPT ![n] = h],
           h = handle[n] \/ IsBehind(h, store'[Mapping]),
           acked' \in Nat, NoLostUpdate', DOMAIN out' = Node, DOMAIN estimate' = Node
    PROVE  StoreInv'
<1>1. ASSUME NEW m \in Node, m # n
      PROVE  call'[m] = call[m] /\ handle'[m] = handle[m]
  BY <1>1, Parts
<1>2. call'[n] = c /\ handle'[n] = h
  BY Parts
<1>3. \A m \in Node : Pending(m)'
  BY Zenon, <1>1, <1>2, Parts DEF Pending
<1>4. handle' \in [Node -> AnyHandle]
  BY DEF StoreInv, Shape
<1>5. call' \in [Node -> AnyCall \cup {NoCall}]
  <2>1. c \in AnyCall \cup {NoCall}
    <3>1. h.count \in Nat /\ h.handle \in Int
      BY DEF AnyHandle
    <3> QED BY <1>2, <3>1, MadeType
  <2>2. call \in [Node -> AnyCall \cup {NoCall}]
    BY Zenon DEF StoreInv, Shape
  <2> QED BY <2>1, <2>2
<1>6. Shape'
  BY Zenon, <1>4, <1>5 DEF EtcdInv, Shape
<1>7. ReadBefore'
  <2>1. \A m \in Node : IsBehind(handle'[m], store'[Mapping])
    BY Zenon, <1>1, <1>2, MappingGrows
  <2> QED BY <2>1 DEF ReadBefore, IsBehind
<1> QED BY Zenon, <1>3, <1>6, <1>7 DEF StoreInv, EtcdInv

\* Without an acknowledgement nothing can be missing from the mapping.
LEMMA Unacknowledged ==
    ASSUME Setting, StoreInv, EtcdInv', NEW n \in Node, call[n] # NoCall, Extends(n),
           acked' = acked
    PROVE  NoLostUpdate' /\ acked' \in Nat
<1>1. store'[Mapping].count >= store[Mapping].count
  BY Zenon, MappingGrows
<1>2. acked <= store[Mapping].count /\ acked \in Nat /\ store[Mapping].count \in Nat
  BY Zenon, Parts DEF NoLostUpdate
<1>3. store'[Mapping].count \in Int
  BY DEF EtcdInv, AnyNode, Key
<1> QED BY <1>1, <1>2, <1>3 DEF NoLostUpdate

\* What etcd does with the request that n waits for.
LEMMA Carried ==
    ASSUME Setting, StoreInv, NEW n \in Node, call[n] # NoCall, Serve(Served(call[n]))
    PROVE  EtcdInv' /\ Extends(n)
BY Zenon, Parts, Serving

\* A step that leaves the handle of n as it is.
LEMMA SameHandle ==
    ASSUME StoreInv, NEW n \in Node
    PROVE  handle[n] \in AnyHandle /\ handle = [handle EXCEPT ![n] = handle[n]]
BY DEF StoreInv, Shape

\* The functions of the store that send a request.
LEMMA CallsInv ==
    ASSUME StoreInv, NEW n \in Node, NEW request, Calls(n, request),
           Made(n, request, handle[n])
    PROVE  StoreInv'
<1>1. /\ call' = [call EXCEPT ![n] = request] /\ out' = [out EXCEPT ![n] = NoOut]
      /\ UNCHANGED <<store, index, stats, handle, acked>> /\ estimate' = estimate
  BY DEF Calls
<1>2. DOMAIN out' = Node /\ DOMAIN estimate' = Node
  BY <1>1, Parts
<1>3. call'[n] = request
  BY <1>1, Parts
<1>4. Pending(n)'
  BY <1>1, <1>3 DEF Pending
<1> QED BY <1>1, <1>2, <1>4, CallInv, Zenon

\* The handle that a read returns has the index of what etcd holds.
LEMMA GetRequestDoneInv ==
    ASSUME Setting, StoreInv, NEW n \in Node, GetRequestDone(n)
    PROVE  StoreInv'
<1> DEFINE a == Served(call[n])
           k == call[n].key
           h == IF a.status = "OK"
                THEN [key |-> k, has |-> TRUE, handle |-> HandleOf(a.node.modified),
                      count |-> a.node.count, seen |-> a.node.modified]
                ELSE handle[n]
<1>1. /\ call[n] # NoCall /\ call[n].for = "handle"
      /\ call' = [call EXCEPT ![n] = NoCall]
      /\ UNCHANGED <<store, index, stats, acked, out, estimate>>
  BY DEF GetRequestDone, Waiting, Returned
<1>2. handle' = [handle EXCEPT ![n] = h]
  BY SameHandle, Zenon DEF GetRequestDone
<1>3. k \in Entry \cup {Mapping} /\ call[n].op = "Get"
  <2>1. PICK x \in Entry \cup {Mapping} : call[n] = Request("Get", x, NoNode, 0, "handle")
    BY Zenon, <1>1, Parts, WaitsFor
  <2> QED BY <2>1, RequestFields
<1>4. a = Get(k)
  BY <1>3 DEF Served
<1>5. a.status = "OK" => a.node = store[k]
  BY <1>4, GetAnswers
<1>6. store[k].modified \in Nat /\ store[k].count \in Nat /\ k \in Key
  BY <1>3, Parts DEF EtcdInv, AnyNode, Key
<1> HIDE DEF a, k
<1>7. h \in AnyHandle
  <2>1. HandleOf(store[k].modified) \in Int
    BY Zenon, <1>6, HandleFits
  <2>2. handle[n] \in AnyHandle
    BY Zenon, SameHandle
  <2>3. [key |-> k, has |-> TRUE, handle |-> HandleOf(store[k].modified),
         count |-> store[k].count, seen |-> store[k].modified] \in AnyHandle
    BY <1>6, <2>1 DEF AnyHandle
  <2> QED BY <1>5, <2>2, <2>3, Zenon
<1>8. h = handle[n] \/ IsBehind(h, store'[Mapping])
  <2>1. CASE a.status = "OK"
    <3>1. /\ h.key = k /\ h.handle = HandleOf(h.seen) /\ h.seen = store[k].modified
          /\ h.count = store[k].count
      BY <1>5, <2>1
    <3>2. store' = store /\ store[k].modified <= store[k].modified
      BY <1>1, <1>6
    <3> HIDE DEF h
    <3> QED BY <3>1, <3>2 DEF IsBehind
  <2> QED BY <2>1
<1>9. EtcdInv' /\ Extends(n)
  BY Zenon, <1>1, Parts, NothingServed
<1>10. acked' \in Nat /\ NoLostUpdate' /\ DOMAIN out' = Node /\ DOMAIN estimate' = Node
  BY <1>1, Parts DEF NoLostUpdate
<1>11. Made(n, NoCall, handle'[n])
  BY Zenon DEF Made
<1> HIDE DEF h
<1> QED BY <1>1, <1>2, <1>7, <1>8, <1>9, <1>10, <1>11, AnswerInv, Zenon

\* An update is acknowledged exactly when it was made through a current handle.
LEMMA UpdateServed ==
    ASSUME Setting, StoreInv, NEW n \in Node, Waiting(n, "update"), Serve(Served(call[n]))
    PROVE  \/ /\ Served(call[n]).status = "OK" /\ Served(call[n]).node = store'[Mapping]
              /\ store'[Mapping].count = store[Mapping].count + 1
           \/ /\ Served(call[n]).status # "OK"
              /\ handle[n].handle # store[Mapping].modified
<1> DEFINE a == Served(call[n])
           node == [NoNode EXCEPT !.count = handle[n].count + 1]
           new == [node EXCEPT !.modified = index + 1]
<1>1. call[n] # NoCall /\ call[n].for = "update" /\ Pending(n)
  BY Zenon, Parts DEF Waiting
<1>2. call[n] = Request("Update", Mapping, node, handle[n].handle, "update")
  BY Zenon, <1>1, WaitsFor
<1>3. /\ call[n].op = "Update" /\ call[n].key = Mapping /\ call[n].prev = handle[n].handle
      /\ call[n].node = node
  BY <1>2, RequestFields
<1>4. a = Update(Mapping, node, handle[n].handle)
  BY <1>3 DEF Served
<1>5. new = [node EXCEPT !.modified = index + 1]
  OBVIOUS
<1>a. node \in AnyNode
  <2>1. handle[n].count + 1 \in Nat
    BY Parts
  <2> QED BY Zenon, <2>1, CountNode
<1> HIDE DEF a, node
<1>b. new.count = node.count
  <2>1. index \in Nat
    BY Parts DEF EtcdInv
  <2> QED BY <1>a, <2>1, NewNode
<1> HIDE DEF new
<1>6. \/ a = Refuse("FAILED_PRECONDITION") /\ handle[n].handle # store[Mapping].modified
      \/ a = Refuse("NOT_FOUND") /\ store[Mapping] = NoNode
      \/ /\ handle[n].handle = store[Mapping].modified
         /\ a = Answer("OK", new, [store EXCEPT ![Mapping] = new], index + 1, stats)
  BY <1>4, <1>5, UpdateAnswers
<1>7. store[Mapping] # NoNode
  BY Zenon, Parts, FilesThere
<1>8. CASE a = Refuse("FAILED_PRECONDITION") /\ handle[n].handle # store[Mapping].modified
  <2>1. a.status # "OK"
    BY <1>8, RefusalFields
  <2> QED BY Zenon, <1>8, <2>1 DEF a
<1>9. CASE /\ handle[n].handle = store[Mapping].modified
           /\ a = Answer("OK", new, [store EXCEPT ![Mapping] = new], index + 1, stats)
  <2>1. a.status = "OK" /\ a.node = new /\ a.store = [store EXCEPT ![Mapping] = new]
    BY <1>9, AnswerFields
  <2>2. store' = a.store
    BY DEF Serve, a
  <2>3. store'[Mapping] = new
    BY <2>1, <2>2, Parts DEF EtcdInv, Key
  <2>4. call[n].node.count = store[Mapping].count + 1
    BY <1>1, <1>3, <1>9, UpdateCounts
  <2>5. store'[Mapping].count = store[Mapping].count + 1
    BY <1>b, <1>3, <2>3, <2>4
  <2> QED BY <2>1, <2>3, <2>5 DEF a
<1> QED BY <1>6, <1>7, <1>8, <1>9

\* An acknowledged update is counted when the mapping has it, and the handle
\* moves on to its index.
LEMMA UpdateRequestDoneInv ==
    ASSUME Setting, StoreInv, NEW n \in Node, UpdateRequestDone(n)
    PROVE  StoreInv'
<1> DEFINE a == Served(call[n])
           h == [handle[n] EXCEPT !.handle = HandleOf(a.node.modified),
                                  !.count = a.node.count, !.seen = a.node.modified]
<1>1. /\ Waiting(n, "update") /\ call[n] # NoCall /\ Serve(a)
      /\ call' = [call EXCEPT ![n] = NoCall] /\ UNCHANGED <<out, estimate>>
  BY DEF UpdateRequestDone, Waiting, Returned
<1>2. EtcdInv' /\ Extends(n)
  BY Zenon, <1>1, Carried
<1>3. DOMAIN out' = Node /\ DOMAIN estimate' = Node
  BY <1>1, Parts
<1>4. Made(n, NoCall, handle'[n])
  BY Zenon DEF Made
<1>5. CASE a.status = "OK"
  <2>1. /\ handle' = [handle EXCEPT ![n].handle = HandleOf(a.node.modified),
                                    ![n].count = a.node.count, ![n].seen = a.node.modified]
        /\ acked' = acked + 1
    BY <1>5 DEF UpdateRequestDone
  <2>2. handle' = [handle EXCEPT ![n] = h]
    BY <2>1, Zenon
  <2>3. a.node = store'[Mapping] /\ store'[Mapping].count = store[Mapping].count + 1
    BY <1>1, <1>5, UpdateServed
  <2>4. store'[Mapping].modified \in Nat /\ store'[Mapping].count \in Nat
    BY <1>2 DEF EtcdInv, AnyNode, Key
  <2>5. HandleOf(store'[Mapping].modified) \in Int
    BY Zenon, <2>4, HandleFits
  <2> HIDE DEF a
  <2>6. /\ h \in AnyHandle /\ h.handle = HandleOf(a.node.modified)
        /\ h.count = a.node.count /\ h.seen = a.node.modified
    BY <2>3, <2>4, <2>5, SameHandle, Zenon DEF AnyHandle
  <2> HIDE DEF h
  <2>7. IsBehind(h, store'[Mapping])
    BY <2>3, <2>4, <2>6 DEF IsBehind
  <2>8. NoLostUpdate' /\ acked' \in Nat
    BY <2>1, <2>3, Parts DEF NoLostUpdate
  <2> QED BY <1>1, <1>2, <1>3, <1>4, <2>2, <2>6, <2>7, <2>8, AnswerInv, Zenon
<1>6. CASE a.status # "OK"
  <2>1. handle' = [handle EXCEPT ![n] = NoHandle] /\ acked' = acked
    BY <1>6 DEF UpdateRequestDone
  <2>2. NoHandle \in AnyHandle /\ IsBehind(NoHandle, store'[Mapping])
    BY DEF NoHandle, AnyHandle, IsBehind
  <2>3. NoLostUpdate' /\ acked' \in Nat
    BY Zenon, <1>1, <1>2, <2>1, Unacknowledged
  <2> HIDE DEF h, a
  <2> QED BY <1>1, <1>2, <1>3, <1>4, <2>1, <2>2, <2>3, AnswerInv, Zenon
<1> QED BY <1>5, <1>6

\* Answers that leave the handle of n or give it up, and count nothing.
LEMMA OtherAnswerInv ==
    ASSUME Setting, StoreInv, EtcdInv', NEW n \in Node, call[n] # NoCall, Extends(n),
           NEW c, call' = [call EXCEPT ![n] = c], Made(n, c, handle'[n]), acked' = acked,
           handle' = handle \/ handle' = [handle EXCEPT ![n] = NoHandle],
           DOMAIN out' = Node, DOMAIN estimate' = Node
    PROVE  StoreInv'
<1>1. NoLostUpdate' /\ acked' \in Nat
  BY Zenon, Unacknowledged
<1>2. CASE handle' = handle
  <2>1. handle[n] \in AnyHandle /\ handle' = [handle EXCEPT ![n] = handle[n]]
    BY <1>2, SameHandle
  <2> QED BY <1>1, <2>1, AnswerInv, Zenon
<1>3. CASE handle' = [handle EXCEPT ![n] = NoHandle]
  <2>1. NoHandle \in AnyHandle /\ IsBehind(NoHandle, store'[Mapping])
    BY DEF NoHandle, AnyHandle, IsBehind
  <2> QED BY <1>1, <1>3, <2>1, AnswerInv, Zenon
<1> QED BY <1>2, <1>3

\* Settings and deletions leave the mapping alone.
LEMMA SetOrDeleteDoneInv ==
    ASSUME Setting, StoreInv, NEW n \in Node, ForceSetRequestDone(n) \/ DeleteDone(n)
    PROVE  StoreInv'
<1>1. /\ call[n] # NoCall /\ Serve(Served(call[n]))
      /\ call' = [call EXCEPT ![n] = NoCall] /\ UNCHANGED <<out, estimate, acked>>
      /\ handle' = handle \/ handle' = [handle EXCEPT ![n] = NoHandle]
  BY DEF ForceSetRequestDone, DeleteDone, Waiting, Returned
<1>2. EtcdInv' /\ Extends(n)
  BY Zenon, <1>1, Carried
<1>3. DOMAIN out' = Node /\ DOMAIN estimate' = Node
  BY <1>1, Parts
<1>4. Made(n, NoCall, handle'[n])
  BY Zenon DEF Made
<1> QED BY <1>1, <1>2, <1>3, <1>4, OtherAnswerInv, Zenon

\* So does a create, which is read again if it was refused.
LEMMA CreateRequestDoneInv ==
    ASSUME Setting, StoreInv, NEW n \in Node, CreateRequestDone(n)
    PROVE  StoreInv'
<1>1. /\ call[n] # NoCall /\ call[n].for = "add" /\ Serve(Served(call[n]))
      /\ UNCHANGED <<handle, estimate, acked>>
      /\ \/ /\ call' = [call EXCEPT ![n] = Request("Get", call[n].key, NoNode, 0, "existing")]
            /\ out' = out
         \/ /\ call' = [call EXCEPT ![n] = NoCall]
            /\ \E o : out' = [out EXCEPT ![n] = o]
  BY DEF CreateRequestDone, Waiting, Returned
<1>2. EtcdInv' /\ Extends(n)
  BY Zenon, <1>1, Carried
<1>3. DOMAIN out' = Node /\ DOMAIN estimate' = Node
  BY <1>1, Parts
<1>4. call[n].key \in Entry
  <2>1. PICK e \in Entry :
           call[n] = Request("Create", e, [NoNode EXCEPT !.value = n], 0, "add")
    BY Zenon, <1>1, Parts, WaitsFor
  <2> QED BY <2>1, RequestFields
<1>5. /\ Made(n, NoCall, handle'[n])
      /\ Made(n, Request("Get", call[n].key, NoNode, 0, "existing"), handle'[n])
  BY Zenon, <1>4 DEF Made
<1>6. PICK c : call' = [call EXCEPT ![n] = c] /\ Made(n, c, handle'[n])
  BY <1>1, <1>5
<1> QED BY <1>1, <1>2, <1>3, <1>6, OtherAnswerInv, Zenon

\* Reading the entry that exists already, and the statistics, changes no file.
LEMMA ReadDoneInv ==
    ASSUME Setting, StoreInv, NEW n \in Node, ExistingDone(n) \/ EtcdStatsFetchDone(n)
    PROVE  StoreInv'
<1>1. /\ call[n] # NoCall /\ call' = [call EXCEPT ![n] = NoCall]
      /\ UNCHANGED <<store, index, stats, handle, acked>>
      /\ out' = out \/ \E o : out' = [out EXCEPT ![n] = o]
      /\ estimate' = estimate \/ \E v : estimate' = [estimate EXCEPT ![n] = v]
  BY DEF ExistingDone, EtcdStatsFetchDone, Waiting, Returned
<1>2. EtcdInv' /\ Extends(n)
  BY Zenon, <1>1, Parts, NothingServed
<1>3. DOMAIN out' = Node /\ DOMAIN estimate' = Node
  BY <1>1, Parts
<1>4. Made(n, NoCall, handle'[n])
  BY Zenon DEF Made
<1> QED BY <1>1, <1>2, <1>3, <1>4, OtherAnswerInv, Zenon

\* A server that fails may have carried the request out; n still waits.
LEMMA UnavailableInv ==
    ASSUME Setting, StoreInv, NEW n \in Node, NEW applied \in BOOLEAN,
           FetchDoneUnavailable(n, applied)
    PROVE  StoreInv'
<1>1. /\ call[n] # NoCall /\ UNCHANGED <<call, handle, estimate, out, acked>>
      /\ Serve(Served(call[n])) \/ UNCHANGED <<store, index, stats>>
  BY DEF FetchDoneUnavailable
<1>2. EtcdInv' /\ Extends(n)
  BY Zenon, <1>1, Parts, Carried, NothingServed
<1>3. call' = [call EXCEPT ![n] = call[n]] /\ DOMAIN out' = Node /\ DOMAIN estimate' = Node
  BY <1>1, Parts DEF StoreInv, Shape
<1>4. Made(n, call[n], handle'[n])
  BY Zenon, <1>1, Parts DEF Pending
<1> QED BY <1>1, <1>2, <1>3, <1>4, OtherAnswerInv, Zenon

\* etcd drops a key whose time is over: never the mapping.
LEMMA ExpireInv ==
    ASSUME Setting, StoreInv, NEW k \in Key, Expire(k)
    PROVE  StoreInv'
<1>1. /\ store[k].ttl /\ store' = [store EXCEPT ![k] = NoNode] /\ index' = index + 1
      /\ stats' = Counted("expireCount")
      /\ UNCHANGED <<call, handle, estimate, out, acked>>
  BY DEF Expire
<1>2. k # Mapping /\ store[k] # NoNode
  BY Zenon, <1>1, Parts, FilesThere
<1>3. EtcdInv'
  BY <1>1, <1>2, Parts, RemovalKeepsEtcd, Zenon
<1>4. store'[Mapping] = store[Mapping]
  BY <1>1, <1>2
<1>5. (\A n \in Node : Pending(n))' /\ ReadBefore' /\ NoLostUpdate'
  BY Zenon, <1>1, <1>4, Parts DEF Pending, ReadBefore, NoLostUpdate
<1>6. Shape'
  BY Zenon, <1>1, <1>3 DEF EtcdInv, StoreInv, Shape
<1> QED BY Zenon, <1>3, <1>5, <1>6 DEF EtcdInv, StoreInv

\* A step that leaves all of it alone.
LEMMA UnchangedInv ==
    ASSUME StoreInv, UNCHANGED <<store, index, stats, call, handle, acked>>,
           DOMAIN out' = Node, DOMAIN estimate' = Node
    PROVE  StoreInv'
<1>1. EtcdInv'
  BY Parts DEF EtcdInv, Stamped, CountsKeys, Keys, CalculateNumEtcdEntries
<1>2. (\A n \in Node : Pending(n))' /\ ReadBefore' /\ NoLostUpdate'
  BY Zenon, Parts DEF Pending, ReadBefore, NoLostUpdate
<1>3. Shape'
  BY Zenon DEF StoreInv, Shape
<1> QED BY Zenon, <1>1, <1>2, <1>3 DEF EtcdInv, StoreInv

\* The functions of EtcdConsistentStore up to their request.
LEMMA RequestInv ==
    ASSUME Setting, StoreInv, NEW n \in Node,
           \/ \E k \in Entry \cup {Mapping} : GetEntry(n, k)
           \/ \E e \in Entry : AddPendingEntry(n, e) \/ ForceDeleteKey(n, e)
           \/ UpdateEntry(n) \/ DeleteEntry(n) \/ ForceSetEntry(n)
           \/ ForceSetEntryWithTTL(n) \/ StartEtcdStatsFetch(n)
    PROVE  StoreInv'
<1>1. ASSUME NEW k \in Entry \cup {Mapping}, GetEntry(n, k) PROVE StoreInv'
  <2>1. Made(n, Request("Get", k, NoNode, 0, "handle"), handle[n])
    BY Zenon DEF Made
  <2> QED BY Zenon, <1>1, <2>1, CallsInv DEF GetEntry
<1>2. ASSUME NEW e \in Entry, ForceDeleteKey(n, e) PROVE StoreInv'
  <2>1. Made(n, Request("ForceDelete", e, NoNode, 0, "delete"), handle[n])
    BY Zenon DEF Made
  <2> QED BY Zenon, <1>2, <2>1, CallsInv DEF ForceDeleteKey
<1>3. ASSUME NEW e \in Entry, AddPendingEntry(n, e) PROVE StoreInv'
  <2>1. Made(n, Request("Create", e, [NoNode EXCEPT !.value = n], 0, "add"), handle[n])
    BY Zenon DEF Made
  <2>2. CASE MaybeReject(n)
    <3>1. /\ UNCHANGED <<store, index, stats, call, handle, acked, estimate>>
          /\ \E o : out' = [out EXCEPT ![n] = o]
      BY <1>3, <2>2 DEF AddPendingEntry
    <3>2. DOMAIN out' = Node /\ DOMAIN estimate' = Node
      BY <3>1, Parts
    <3> QED BY <3>1, <3>2, UnchangedInv
  <2>3. CASE ~MaybeReject(n)
    BY Zenon, <1>3, <2>1, <2>3, CallsInv DEF AddPendingEntry
  <2> QED BY <2>2, <2>3
<1>4. CASE UpdateEntry(n)
  <2>1. handle[n].has /\ handle[n].key = Mapping
    BY Zenon, <1>4 DEF UpdateEntry
  <2>2. Made(n, Request("Update", Mapping, [NoNode EXCEPT !.count = handle[n].count + 1],
                        handle[n].handle, "update"), handle[n])
    BY Zenon, <2>1 DEF Made
  <2> QED BY Zenon, <1>4, <2>2, CallsInv DEF UpdateEntry
<1>5. CASE DeleteEntry(n)
  <2>1. handle[n].key \in Entry /\ handle[n].handle \in Int
    BY Zenon, <1>5, Parts DEF DeleteEntry
  <2>2. Made(n, Request("Delete", handle[n].key, NoNode, handle[n].handle, "delete"),
             handle[n])
    BY Zenon, <2>1 DEF Made
  <2> QED BY Zenon, <1>5, <2>2, CallsInv DEF DeleteEntry
<1>6. CASE ForceSetEntry(n)
  <2>1. Made(n, Request("ForceSet", Config, [NoNode EXCEPT !.value = "config"], 0, "set"),
             handle[n])
    BY Zenon DEF Made
  <2> QED BY Zenon, <1>6, <2>1, CallsInv DEF ForceSetEntry
<1>7. CASE ForceSetEntryWithTTL(n)
  <2>1. Made(n, Request("ForceSetWithTTL", States, [NoNode EXCEPT !.value = "state"], 0,
                        "set"), handle[n])
    BY Zenon DEF Made
  <2> QED BY Zenon, <1>7, <2>1, CallsInv DEF ForceSetEntryWithTTL
<1>8. CASE StartEtcdStatsFetch(n)
  <2>1. Made(n, Request("GetStoreStats", None, NoNode, 0, "stats"), handle[n])
    BY Zenon DEF Made
  <2> QED BY Zenon, <1>8, <2>1, CallsInv DEF StartEtcdStatsFetch
<1> QED BY Zenon, <1>1, <1>2, <1>3, <1>4, <1>5, <1>6, <1>7, <1>8

\* At the start etcd has the empty mapping, and no node has read it.
LEMMA StoreInit ==
    ASSUME Setting, Init
    PROVE  StoreInv
<1>1. /\ NoNode \in AnyNode /\ [NoNode EXCEPT !.modified = 1] \in AnyNode
      /\ [NoNode EXCEPT !.modified = 1] # NoNode
      /\ [NoNode EXCEPT !.modified = 1].modified = 1
      /\ [NoNode EXCEPT !.modified = 1].count = 0
      /\ ~[NoNode EXCEPT !.modified = 1].ttl /\ NoNode.modified = 0
  <2>1. /\ NoNode \in AnyNode /\ NoNode.modified = 0 /\ NoNode.count = 0 /\ ~NoNode.ttl
        /\ 0 + 1 = 1 /\ 0 \in Nat
    BY DEF NoNode, AnyNode
  <2>2. /\ [NoNode EXCEPT !.modified = 0 + 1] \in AnyNode
        /\ [NoNode EXCEPT !.modified = 0 + 1] # NoNode
        /\ [NoNode EXCEPT !.modified = 0 + 1].modified = 0 + 1
        /\ [NoNode EXCEPT !.modified = 0 + 1].count = NoNode.count
        /\ [NoNode EXCEPT !.modified = 0 + 1].ttl = NoNode.ttl
    BY Zenon, <2>1, NewNode
  <2> QED BY <2>1, <2>2
<1>2. Mapping \in Key /\ NoHandle \in AnyHandle /\ ~NoHandle.has
  BY DEF Key, NoHandle, AnyHandle
<1>3. store \in [Key -> AnyNode] /\ index = 1 /\ acked = 0
  BY <1>1 DEF Init
<1>4. stats \in Stats /\ CalculateNumEtcdEntries(stats) = 1
  BY DEF Init, Stats, CalculateNumEtcdEntries
<1>5. /\ call \in [Node -> AnyCall \cup {NoCall}] /\ handle \in [Node -> AnyHandle]
      /\ DOMAIN out = Node /\ DOMAIN estimate = Node
      /\ \A n \in Node : call[n] = NoCall /\ handle[n] = NoHandle
  BY <1>2 DEF Init
<1>6. store[Mapping] = [NoNode EXCEPT !.modified = 1]
  BY <1>2 DEF Init
<1>7. Stamped
  <2>1. \A k \in Key : store[k].modified <= 1
    BY <1>1 DEF Init
  <2> QED BY <1>1, <1>3, <1>6, <2>1 DEF Stamped
<1>8. Keys(store) = {Mapping}
  BY <1>1, <1>2 DEF Keys, Init
<1>9. CountsKeys
  <2>1. Cardinality(Keys(store)) = 1
    BY <1>8, FS_Singleton, Zenon
  <2> QED BY <1>4, <2>1 DEF CountsKeys
<1>10. NoLostUpdate
  BY <1>1, <1>3, <1>6 DEF NoLostUpdate
<1>11. ReadBefore
  BY <1>2, <1>5 DEF ReadBefore, IsBehind
<1>12. \A n \in Node : Pending(n)
  BY Zenon, <1>5 DEF Pending, Made
<1>13. Shape
  BY <1>3, <1>4, <1>5 DEF Shape
<1> QED BY Zenon, <1>7, <1>9, <1>10, <1>11, <1>12, <1>13 DEF StoreInv

\* Every step keeps the invariant.
LEMMA StoreStep ==
    ASSUME Setting, StoreInv, [Next]_vars
    PROVE  StoreInv'
<1>1. ASSUME NEW n \in Node, OnClusterConfigUpdated(n) PROVE StoreInv'
  <2>1. UNCHANGED <<store, index, stats, call, handle, acked, out, estimate>>
    BY <1>1 DEF OnClusterConfigUpdated
  <2> QED BY <2>1, Parts, UnchangedInv
<1>2. CASE UNCHANGED vars
  <2>1. UNCHANGED <<store, index, stats, call, handle, acked, out, estimate>>
    BY <1>2 DEF vars
  <2> QED BY <2>1, Parts, UnchangedInv
<1>3. CASE Next
  <2>1. ASSUME NEW n \in Node, NEW k \in Entry \cup {Mapping}, GetEntry(n, k)
        PROVE  StoreInv'
    BY Zenon, <2>1, RequestInv
  <2>2. ASSUME NEW n \in Node, NEW e \in Entry, AddPendingEntry(n, e) \/ ForceDeleteKey(n, e)
        PROVE  StoreInv'
    BY Zenon, <2>2, RequestInv
  <2>3. ASSUME NEW n \in Node, \/ UpdateEntry(n) \/ DeleteEntry(n) \/ ForceSetEntry(n)
                               \/ ForceSetEntryWithTTL(n) \/ StartEtcdStatsFetch(n)
        PROVE  StoreInv'
    BY Zenon, <2>3, RequestInv
  <2>4. ASSUME NEW n \in Node, NEW applied \in BOOLEAN, FetchDoneUnavailable(n, applied)
        PROVE  StoreInv'
    BY Zenon, <2>4, UnavailableInv
  <2>5. ASSUME NEW n \in Node,
               \/ GetRequestDone(n) \/ UpdateRequestDone(n) \/ ForceSetRequestDone(n)
               \/ DeleteDone(n) \/ CreateRequestDone(n) \/ ExistingDone(n)
               \/ EtcdStatsFetchDone(n) \/ OnClusterConfigUpdated(n)
        PROVE  StoreInv'
    BY Zenon, <1>1, <2>5, GetRequestDoneInv, UpdateRequestDoneInv, SetOrDeleteDoneInv,
       CreateRequestDoneInv, ReadDoneInv
  <2>6. ASSUME NEW k \in Key, Expire(k) PROVE StoreInv'
    BY Zenon, <2>6, ExpireInv
  <2> QED BY Zenon, <1>3, <2>1, <2>2, <2>3, <2>4, <2>5, <2>6 DEF Next
<1> QED BY Zenon, <1>2, <1>3

(***************************************************************************)
(* The theorems.                                                           *)
(***************************************************************************)

\* The invariant holds from the start on.
LEMMA StoreAlways ==
    ASSUME Setting
    PROVE  Spec => []StoreInv
<1>1. Init => StoreInv
  BY StoreInit
<1>2. StoreInv /\ [Next]_vars => StoreInv'
  BY StoreStep
<1> QED BY <1>1, <1>2, PTL DEF Spec

\* UpdateEntry and the retries of EtcdClient: every update of the sequence
\* mapping that was reported as made is in the mapping, for any number of nodes,
\* lost answers and indexes, even where an index does not fit into the int of a
\* handle.
THEOREM NoUpdateLost ==
    ASSUME Setting
    PROVE  Spec => []NoLostUpdate
<1>1. StoreInv => NoLostUpdate
  BY Zenon DEF StoreInv
<1> QED BY <1>1, StoreAlways, PTL

\* A step that ends a call of n is an answer to n.
LEMMA RefusedStep ==
    ASSUME Setting, StoreInv, index < 2 ^ (HandleBits - 1), [Next]_vars
    PROVE  RefusedIsStale
<1> SUFFICES ASSUME NEW n \in Node, Waiting(n, "update"), call'[n] = NoCall, acked' = acked
             PROVE  store[Mapping].modified > handle[n].seen
  BY DEF RefusedIsStale
<1>1. call[n] # NoCall /\ call[n].for = "update"
  BY DEF Waiting
<1>2. UpdateRequestDone(n)
  <2>1. ASSUME NEW m \in Node, NEW request, Calls(m, request) PROVE FALSE
    BY <1>1, <2>1, Parts DEF Calls
  <2>2. call' # call
    BY <1>1
  <2>3. ASSUME NEW m \in Node, \/ GetRequestDone(m) \/ ForceSetRequestDone(m)
                               \/ DeleteDone(m) \/ ExistingDone(m) \/ EtcdStatsFetchDone(m)
                               \/ CreateRequestDone(m)
        PROVE  FALSE
    <3>1. /\ call[m].for # "update"
          /\ \E c : call' = [call EXCEPT ![m] = c]
      BY <2>3, Zenon DEF GetRequestDone, ForceSetRequestDone, DeleteDone, ExistingDone,
                  EtcdStatsFetchDone, CreateRequestDone, Waiting, Returned
    <3> QED BY <1>1, <3>1, Parts
  <2>4. ASSUME NEW m \in Node, UpdateRequestDone(m) PROVE m = n
    <3>1. call' = [call EXCEPT ![m] = NoCall]
      BY <2>4 DEF UpdateRequestDone, Returned
    <3> QED BY <1>1, <3>1, Parts
  <2>5. ASSUME NEW m \in Node, NEW e \in Entry, AddPendingEntry(m, e) PROVE FALSE
    BY Zenon, <2>1, <2>2, <2>5 DEF AddPendingEntry
  <2>6. Next
    BY <2>2 DEF vars
  <2>7. ASSUME NEW m \in Node,
               \/ OnClusterConfigUpdated(m)
               \/ \E applied \in BOOLEAN : FetchDoneUnavailable(m, applied)
        PROVE  FALSE
    BY <2>2, <2>7 DEF OnClusterConfigUpdated, FetchDoneUnavailable
  <2>8. ASSUME NEW k \in Key, Expire(k) PROVE FALSE
    BY <2>2, <2>8 DEF Expire
  <2>9. ASSUME NEW m \in Node,
               \/ \E k \in Entry \cup {Mapping} : GetEntry(m, k)
               \/ \E e \in Entry : ForceDeleteKey(m, e)
               \/ UpdateEntry(m) \/ DeleteEntry(m) \/ ForceSetEntry(m)
               \/ ForceSetEntryWithTTL(m) \/ StartEtcdStatsFetch(m)
        PROVE  FALSE
    BY Zenon, <2>1, <2>9 DEF GetEntry, ForceDeleteKey, UpdateEntry, DeleteEntry,
                       ForceSetEntry, ForceSetEntryWithTTL, StartEtcdStatsFetch
  <2> QED BY Zenon, <2>3, <2>4, <2>5, <2>6, <2>7, <2>8, <2>9 DEF Next
<1>3. Serve(Served(call[n]))
  BY Zenon, <1>2 DEF UpdateRequestDone
<1>4. Served(call[n]).status # "OK"
  <2>1. acked + 1 # acked
    BY Parts
  <2> QED BY <1>2, <2>1 DEF UpdateRequestDone
<1>5. handle[n].handle # store[Mapping].modified
  BY <1>3, <1>4, UpdateServed
<1>6. handle[n].has /\ handle[n].key = Mapping
  BY Zenon, <1>1, Parts, WaitsFor
<1>7. handle[n].handle = HandleOf(handle[n].seen) /\ handle[n].seen <= store[Mapping].modified
  BY Zenon, <1>6, Parts DEF ReadBefore, IsBehind
<1>8. store[Mapping].modified <= index /\ index \in Nat
  BY Parts DEF EtcdInv, Stamped, Key
<1>9. handle[n].seen \in Nat /\ store[Mapping].modified \in Nat
  BY Zenon, Parts
<1>10. 2 ^ (HandleBits - 1) \in Nat
  BY DEF Setting
<1>11. handle[n].seen < 2 ^ (HandleBits - 1)
  BY <1>7, <1>8, <1>9, <1>10
<1>12. HandleOf(handle[n].seen) = handle[n].seen
  BY <1>9, <1>11, HandleFits
<1> QED BY <1>5, <1>7, <1>9, <1>12

\* UpdateEntry: while etcd's index fits into the int of a handle, an update is
\* refused only if the mapping has changed since the handle was taken.
THEOREM RefusedStale ==
    ASSUME Setting
    PROVE  Spec /\ [](index < 2 ^ (HandleBits - 1)) => [][RefusedIsStale]_vars
<1>1. StoreInv /\ index < 2 ^ (HandleBits - 1) /\ [Next]_vars => RefusedIsStale
  BY RefusedStep
<1> QED BY <1>1, StoreAlways, PTL DEF Spec

\* A step that changes what AddPendingEntry returned answers n, or starts a call.
LEMMA SctStep ==
    ASSUME Setting, StoreInv, [Next]_vars
    PROVE  SctIsStored
<1> SUFFICES ASSUME NEW n \in Node, out'[n] # out[n],
                    out'[n].status \in {"OK", "ALREADY_EXISTS"}
             PROVE  out'[n].sct = store'[call[n].key].value
  BY DEF SctIsStored
<1>1. CASE CreateRequestDone(n)
  <2> DEFINE a == Served(call[n])
             node == [NoNode EXCEPT !.value = n]
             new == [node EXCEPT !.modified = index + 1]
  <2>1. /\ call[n] # NoCall /\ call[n].for = "add" /\ store' = a.store
        /\ \/ out' = out
           \/ out' = [out EXCEPT ![n] = [status |-> a.status, sct |-> n]]
    BY <1>1 DEF CreateRequestDone, Waiting, Serve
  <2>2. out'[n] = [status |-> a.status, sct |-> n]
    BY <2>1, Parts, Zenon
  <2>3. PICK e \in Entry : call[n] = Request("Create", e, node, 0, "add")
    BY Zenon, <2>1, Parts, WaitsFor
  <2>4. call[n].op = "Create" /\ call[n].key = e /\ call[n].node = node
    BY <2>3, RequestFields
  <2>5. a = Put(e, node, "false", {})
    BY <2>4 DEF Served, Create
  <2>6. new.value = n
    <3>1. node \in AnyNode /\ node.value = n
      BY Zenon DEF NoNode, AnyNode
    <3>2. index \in Nat
      BY Parts DEF EtcdInv
    <3> HIDE DEF node
    <3> QED BY <3>1, <3>2, NewNode
  <2>7. new = [node EXCEPT !.modified = index + 1]
    OBVIOUS
  <2> HIDE DEF a, node, new
  <2>8. \/ a = Refuse("FAILED_PRECONDITION") \/ a = Refuse("NOT_FOUND")
        \/ \E counts : a = Answer("OK", new, [store EXCEPT ![e] = new], index + 1, counts)
    BY <2>5, <2>7, PutAnswers
  <2>9. a.status \in {"OK", "ALREADY_EXISTS"}
    BY <2>2
  <2>10. a.store = [store EXCEPT ![e] = new]
    <3>1. \A st : Refuse(st).status = st
      BY Zenon, RefusalFields
    <3>2. a # Refuse("FAILED_PRECONDITION") /\ a # Refuse("NOT_FOUND")
      BY <2>9, <3>1
    <3>3. PICK counts : a = Answer("OK", new, [store EXCEPT ![e] = new], index + 1, counts)
      BY <2>8, <3>2, Zenon
    <3> QED BY <3>3, AnswerFields
  <2>11. store'[e] = new
    BY <2>1, <2>10, Parts DEF EtcdInv, Key
  <2> QED BY <2>2, <2>4, <2>6, <2>11
<1>2. CASE ExistingDone(n)
  <2> DEFINE a == Served(call[n])
  <2>1. /\ call[n] # NoCall /\ call[n].for = "existing" /\ store' = store
        /\ out' = [out EXCEPT ![n] =
                      IF a.status = "OK" THEN [status |-> "ALREADY_EXISTS", sct |-> a.node.value]
                      ELSE [status |-> a.status, sct |-> None]]
    BY <1>2 DEF ExistingDone, Waiting, SctOf
  <2>2. PICK e \in Entry : call[n] = Request("Get", e, NoNode, 0, "existing")
    BY Zenon, <2>1, Parts, WaitsFor
  <2>3. call[n].op = "Get" /\ call[n].key = e
    BY <2>2, RequestFields
  <2>4. a = Get(e)
    BY <2>3 DEF Served
  <2>5. a.status = "NOT_FOUND" \/ (a.status = "OK" /\ a.node = store[e])
    BY <2>4, GetAnswers
  <2> HIDE DEF a
  <2>6. out'[n] = IF a.status = "OK" THEN [status |-> "ALREADY_EXISTS", sct |-> a.node.value]
                  ELSE [status |-> a.status, sct |-> None]
    BY <2>1, Parts
  <2>7. a.status = "OK"
    <3>1. a.status = "NOT_FOUND" => out'[n].status = "NOT_FOUND"
      BY <2>6
    <3> QED BY <2>5, <3>1
  <2>8. out'[n].sct = a.node.value
    BY <2>6, <2>7
  <2> QED BY <2>1, <2>3, <2>5, <2>7, <2>8
<1>3. ASSUME NEW m \in Node, NEW request, Calls(m, request) PROVE FALSE
  <2>1. out' = [out EXCEPT ![m] = NoOut]
    BY <1>3 DEF Calls
  <2>2. out'[n] = NoOut
    BY <2>1, Parts
  <2> QED BY <2>2 DEF NoOut, None
<1>4. ASSUME NEW m \in Node, NEW e \in Entry, AddPendingEntry(m, e) PROVE FALSE
  <2>1. out' = [out EXCEPT ![m] = [NoOut EXCEPT !.status = "RESOURCE_EXHAUSTED"]]
    BY Zenon, <1>3, <1>4 DEF AddPendingEntry
  <2> QED BY <2>1, Parts DEF NoOut
<1>5. ASSUME NEW m \in Node, CreateRequestDone(m) \/ ExistingDone(m) PROVE m = n
  <2>1. out' = out \/ \E o : out' = [out EXCEPT ![m] = o]
    BY <1>5, Zenon DEF CreateRequestDone, ExistingDone
  <2> QED BY <2>1, Parts
<1>6. ASSUME NEW m \in Node,
             \/ GetRequestDone(m) \/ UpdateRequestDone(m) \/ ForceSetRequestDone(m)
             \/ DeleteDone(m) \/ EtcdStatsFetchDone(m) \/ OnClusterConfigUpdated(m)
             \/ \E applied \in BOOLEAN : FetchDoneUnavailable(m, applied)
      PROVE  FALSE
  BY <1>6 DEF GetRequestDone, UpdateRequestDone, ForceSetRequestDone, DeleteDone,
              EtcdStatsFetchDone, OnClusterConfigUpdated, FetchDoneUnavailable
<1>7. ASSUME NEW k \in Key, Expire(k) PROVE FALSE
  BY <1>7 DEF Expire
<1>8. Next
  BY DEF vars
<1>9. ASSUME NEW m \in Node,
             \/ \E k \in Entry \cup {Mapping} : GetEntry(m, k)
             \/ \E e \in Entry : ForceDeleteKey(m, e)
             \/ UpdateEntry(m) \/ DeleteEntry(m) \/ ForceSetEntry(m)
             \/ ForceSetEntryWithTTL(m) \/ StartEtcdStatsFetch(m)
      PROVE  FALSE
  BY Zenon, <1>3, <1>9 DEF GetEntry, ForceDeleteKey, UpdateEntry, DeleteEntry,
                     ForceSetEntry, ForceSetEntryWithTTL, StartEtcdStatsFetch
<1> QED BY Zenon, <1>1, <1>2, <1>4, <1>5, <1>6, <1>7, <1>8, <1>9 DEF Next

\* AddPendingEntry: the SCT that is returned to the submitter is the one in
\* etcd, also if the entry is from another node or from an attempt of the same
\* node whose answer was lost.
THEOREM SctStored ==
    ASSUME Setting
    PROVE  Spec => [][SctIsStored]_vars
<1>1. StoreInv /\ [Next]_vars => SctIsStored
  BY SctStep
<1> QED BY <1>1, StoreAlways, PTL DEF Spec

\* Only the answer with the statistics changes an estimate.
LEMMA EstimateStep ==
    ASSUME Setting, StoreInv, [Next]_vars
    PROVE  NeverOvercounts
<1> SUFFICES ASSUME NEW n \in Node, estimate'[n] # estimate[n]
             PROVE  estimate'[n] <= Cardinality(Keys(store))
  BY DEF NeverOvercounts
<1>1. PICK m \in Node : EtcdStatsFetchDone(m)
  <2>1. estimate' # estimate
    OBVIOUS
  <2>2. ASSUME NEW m \in Node, NEW request, Calls(m, request) PROVE FALSE
    BY <2>1, <2>2 DEF Calls
  <2>3. ASSUME NEW m \in Node,
               \/ GetRequestDone(m) \/ UpdateRequestDone(m) \/ ForceSetRequestDone(m)
               \/ DeleteDone(m) \/ CreateRequestDone(m) \/ ExistingDone(m)
               \/ OnClusterConfigUpdated(m)
               \/ \E applied \in BOOLEAN : FetchDoneUnavailable(m, applied)
        PROVE  FALSE
    BY <2>1, <2>3 DEF GetRequestDone, UpdateRequestDone, ForceSetRequestDone, DeleteDone,
                CreateRequestDone, ExistingDone, OnClusterConfigUpdated, FetchDoneUnavailable
  <2>4. ASSUME NEW k \in Key, Expire(k) PROVE FALSE
    BY <2>1, <2>4 DEF Expire
  <2>5. ASSUME NEW m \in Node,
               \/ \E k \in Entry \cup {Mapping} : GetEntry(m, k)
               \/ \E e \in Entry : AddPendingEntry(m, e) \/ ForceDeleteKey(m, e)
               \/ UpdateEntry(m) \/ DeleteEntry(m) \/ ForceSetEntry(m)
               \/ ForceSetEntryWithTTL(m) \/ StartEtcdStatsFetch(m)
        PROVE  FALSE
    BY Zenon, <2>1, <2>2, <2>5 DEF GetEntry, AddPendingEntry, ForceDeleteKey, UpdateEntry,
         DeleteEntry, ForceSetEntry, ForceSetEntryWithTTL, StartEtcdStatsFetch
  <2>6. Next
    BY <2>1 DEF vars
  <2> QED BY Zenon, <2>3, <2>4, <2>5, <2>6 DEF Next
<1>2. estimate' = [estimate EXCEPT ![m] = CalculateNumEtcdEntries(stats)]
  BY <1>1 DEF EtcdStatsFetchDone
<1>3. estimate'[n] = CalculateNumEtcdEntries(stats)
  BY <1>2, Parts
<1> QED BY <1>3 DEF StoreInv, CountsKeys

\* CalculateNumEtcdEntries: what a node takes from etcd's statistics is at most
\* the number of keys that etcd holds, for any number of nodes and entries, with
\* requests that were carried out and sent again.
THEOREM CountsSafe ==
    ASSUME Setting
    PROVE  Spec => [][NeverOvercounts]_vars
<1>1. StoreInv /\ [Next]_vars => NeverOvercounts
  BY EstimateStep
<1> QED BY <1>1, StoreAlways, PTL DEF Spec
=============================================================================
