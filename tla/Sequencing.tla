---------------------------- MODULE Sequencing ----------------------------
(***************************************************************************)
(* From an accepted submission to a leaf of the public tree.               *)
(*                                                                         *)
(* Frontends create entries in etcd (FrontendSigner::QueueEntry), the      *)
(* master numbers them (TreeSigner::SequenceNewEntries), every node signs  *)
(* the contiguous part of its database (TreeSigner::UpdateTree), nodes     *)
(* copy signed entries from each other (Fetcher), the master chooses the   *)
(* tree that the cluster serves (EtcdConsistentStore::SetServingSTH) and   *)
(* deletes from etcd what that tree covers (CleanupOldEntries).            *)
(*                                                                         *)
(* One action is one access to etcd or to the local database together with *)
(* the local computation that follows it.                                  *)
(***************************************************************************)
EXTENDS Integers, FiniteSets

CONSTANTS
    Node,               \* servers of the cluster
    Hash,               \* certificate hashes, the keys of /entries
    MaxSct,             \* bound: number of SCTs ever signed
    MaxLog,             \* bound: sequence numbers are 0 .. MaxLog - 1
    MaxFaults,          \* bound: crashes, lost masterships, failed clean-ups
    MinServingNodes,    \* ClusterConfig.minimum_serving_nodes
    \* Environment assumptions. FALSE excludes the named behaviour.
    UnorderedCleanup,   \* deletions of one clean-up finish in any order
    OverlappingMasters, \* a master's threads outlive its mastership
    LaggingWatch,       \* the cached serving STH trails /serving_sth
    StaleFrontend,      \* an entry is created although its hash is served
    ClockSkew           \* a numbered entry may be inside the guard window

ASSUME NodeAssumption == IsFiniteSet(Node) /\ Node # {}
ASSUME HashAssumption == IsFiniteSet(Hash) /\ Hash # {}
ASSUME BoundAssumption ==
    /\ MaxSct \in Nat
    /\ MaxLog \in Nat
    /\ MaxFaults \in Nat
    /\ MinServingNodes \in Nat \ {0}
ASSUME EnvironmentAssumption ==
    {UnorderedCleanup, OverlappingMasters, LaggingWatch, StaleFrontend,
     ClockSkew} \subseteq BOOLEAN

Sct == 1 .. MaxSct       \* an SCT is identified by its (unique) timestamp
NoSct == 0
Number == 0 .. MaxLog - 1
NoSeq == -1
Leaf == [hash : Hash, sct : Sct]
NoLeaf == [hash |-> NoSeq, sct |-> NoSct]
NoEntries == [h \in Hash |-> NoSct]
EmptyMapping == [h \in Hash |-> NoSeq]

VARIABLES
    entries,     \* etcd /entries: hash -> SCT of the pending entry
    mapping,     \* etcd /sequence_mapping: hash -> number
    serving,     \* etcd /serving_sth: its tree size
    signed,      \* etcd /nodes: tree size of each node's newest STH
    cached,      \* each node's copy of serving (serving_sth_)
    master,      \* what MasterElection::IsMaster returns on each node
    db,          \* local databases: number -> leaf
    fe,          \* the request a frontend thread has in hand
    seqPc, seqNext, seqMap, seqHandle, seqPend, seqAt,
                 \* locals of SequenceNewEntries
    cleanPc, cleanUpTo, cleanKeys,
                 \* locals of CleanupOldEntries
    clock,       \* last timestamp given to an SCT
    faults,      \* faults so far
    assigned,    \* history: number -> leaves ever committed under it
    issued,      \* history: leaves whose SCT was returned to a client
    checkFailed  \* history: a CHECK has killed some process

seqVars == <<seqPc, seqNext, seqMap, seqHandle, seqPend, seqAt>>
cleanVars == <<cleanPc, cleanUpTo, cleanKeys>>
history == <<assigned, issued, checkFailed>>
vars == <<entries, mapping, serving, signed, cached, master, db, fe, seqVars,
          cleanVars, clock, faults, history>>

Idle == [pc |-> "idle", hash |-> NoSeq, sct |-> NoSct]

TypeOK ==
    /\ entries \in [Hash -> Sct \cup {NoSct}]
    /\ mapping \in [Hash -> Number \cup {NoSeq}]
    /\ serving \in 0 .. MaxLog
    /\ signed \in [Node -> 0 .. MaxLog]
    /\ cached \in [Node -> 0 .. MaxLog]
    /\ master \in [Node -> BOOLEAN]
    /\ db \in [Node -> [Number -> Leaf \cup {NoLeaf}]]
    /\ fe \in [Node -> [pc : {"create", "get"}, hash : Hash, sct : Sct] \cup {Idle}]
    /\ seqPc \in [Node -> {"idle", "next", "mapped", "update", "write"}]
    /\ seqNext \in [Node -> 0 .. MaxLog]
    /\ seqMap \in [Node -> [Hash -> Number \cup {NoSeq}]]
    /\ seqHandle \in [Node -> BOOLEAN]
    /\ seqPend \in [Node -> [Hash -> Sct \cup {NoSct}]]
    /\ seqAt \in [Node -> 0 .. MaxLog]
    /\ cleanPc \in [Node -> {"idle", "read", "delete"}]
    /\ cleanUpTo \in [Node -> 0 .. MaxLog]
    /\ cleanKeys \in [Node -> SUBSET Hash]
    /\ clock \in 0 .. MaxSct
    /\ faults \in 0 .. MaxFaults
    /\ assigned \in [Number -> SUBSET Leaf]
    /\ issued \in SUBSET Leaf
    /\ checkFailed \in BOOLEAN

(***************************************************************************)
(* A new log: InitLog has stored the STH of the empty tree, nothing is     *)
(* pending, and no node has won the election yet.                          *)
(***************************************************************************)
Init ==
    /\ entries = NoEntries
    /\ mapping = EmptyMapping
    /\ serving = 0
    /\ signed = [n \in Node |-> 0]
    /\ cached = [n \in Node |-> 0]
    /\ master = [n \in Node |-> FALSE]
    /\ db = [n \in Node |-> [i \in Number |-> NoLeaf]]
    /\ fe = [n \in Node |-> Idle]
    /\ seqPc = [n \in Node |-> "idle"]
    /\ seqNext = [n \in Node |-> 0]
    /\ seqMap = [n \in Node |-> EmptyMapping]
    /\ seqHandle = [n \in Node |-> FALSE]
    /\ seqPend = [n \in Node |-> NoEntries]
    /\ seqAt = [n \in Node |-> 0]
    /\ cleanPc = [n \in Node |-> "idle"]
    /\ cleanUpTo = [n \in Node |-> 0]
    /\ cleanKeys = [n \in Node |-> {}]
    /\ clock = 0
    /\ faults = 0
    /\ assigned = [i \in Number |-> {}]
    /\ issued = {}
    /\ checkFailed = FALSE

-----------------------------------------------------------------------------
(* Reading the mapping and the local database. *)

Mapped(m) == {h \in Hash : m[h] # NoSeq}

(***************************************************************************)
(* CheckMappingIsOrdered: the mapping is written sorted by number, so the  *)
(* strict order it CHECKs is the absence of equal numbers.                 *)
(***************************************************************************)
MappingIsOrdered(m) ==
    \A h1, h2 \in Mapped(m) : m[h1] = m[h2] => h1 = h2

(* CheckMappingIsContiguousWithServingTree, for a tree of the given size. *)
MappingIsContiguous(m, size) ==
    /\ Mapped(m) # {} => \E h \in Mapped(m) : m[h] <= size
    /\ \A h1, h2 \in Mapped(m) :
          (size <= m[h1] /\ m[h1] < m[h2])
             => \E h \in Mapped(m) : m[h] = m[h1] + 1

MappingChecks(n, m) == MappingIsOrdered(m) /\ MappingIsContiguous(m, cached[n])

(* The number after the highest in the mapping, which is kept sorted. *)
NextAfter(m, next) ==
    \E h \in Mapped(m) : /\ \A g \in Mapped(m) : m[g] <= m[h]
                         /\ next = m[h] + 1

(* Database::TreeSize: the entries below size are present, size is not. *)
IsTreeSize(d, size) ==
    /\ size \in 0 .. MaxLog
    /\ \A i \in 0 .. size - 1 : d[i] # NoLeaf
    /\ size # MaxLog => d[size] = NoLeaf

(* A leaf with this hash is part of the tree that the cluster serves. *)
IsServed(h) ==
    \E n \in Node, i \in Number : /\ i < serving
                               /\ db[n][i] # NoLeaf
                               /\ db[n][i].hash = h

-----------------------------------------------------------------------------
(* Process life cycle and mastership. *)

(* A new process: empty memory, the database as it was on disk, the node *)
(* state in etcd rewritten without a newest STH, /serving_sth read anew. *)
Restart(n) ==
    /\ fe' = [fe EXCEPT ![n] = Idle]
    /\ master' = [master EXCEPT ![n] = FALSE]
    /\ signed' = [signed EXCEPT ![n] = 0]
    /\ cached' = [cached EXCEPT ![n] = serving]
    /\ seqPc' = [seqPc EXCEPT ![n] = "idle"]
    /\ seqNext' = [seqNext EXCEPT ![n] = 0]
    /\ seqMap' = [seqMap EXCEPT ![n] = EmptyMapping]
    /\ seqHandle' = [seqHandle EXCEPT ![n] = FALSE]
    /\ seqPend' = [seqPend EXCEPT ![n] = NoEntries]
    /\ seqAt' = [seqAt EXCEPT ![n] = 0]
    /\ cleanPc' = [cleanPc EXCEPT ![n] = "idle"]
    /\ cleanUpTo' = [cleanUpTo EXCEPT ![n] = 0]
    /\ cleanKeys' = [cleanKeys EXCEPT ![n] = {}]
    /\ UNCHANGED <<entries, mapping, serving, db, clock, assigned, issued>>

Crash(n) ==
    /\ faults < MaxFaults
    /\ faults' = faults + 1
    /\ Restart(n)
    /\ UNCHANGED checkFailed

(* A CHECK failed in process n. *)
Die(n) ==
    /\ checkFailed' = TRUE
    /\ Restart(n)
    /\ UNCHANGED faults

(***************************************************************************)
(* The election, seen from here: IsMaster is a belief of the node.         *)
(* OverlappingMasters = FALSE is the promise of one master at a time,      *)
(* kept until the threads of the previous master have returned.            *)
(***************************************************************************)
BecomeMaster(n) ==
    /\ ~master[n]
    /\ OverlappingMasters
         \/ \A m \in Node \ {n} : ~master[m] /\ seqPc[m] = "idle"
                                             /\ cleanPc[m] = "idle"
    /\ master' = [master EXCEPT ![n] = TRUE]
    /\ UNCHANGED <<entries, mapping, serving, signed, cached, db, fe, seqVars,
                   cleanVars, clock, faults, history>>

LoseMaster(n) ==
    /\ master[n]
    /\ faults < MaxFaults
    /\ faults' = faults + 1
    /\ master' = [master EXCEPT ![n] = FALSE]
    /\ UNCHANGED <<entries, mapping, serving, signed, cached, db, fe, seqVars,
                   cleanVars, clock, history>>

-----------------------------------------------------------------------------
(* FrontendSigner::QueueEntry and EtcdConsistentStore::AddPendingEntry. *)

feFrame == <<mapping, serving, signed, cached, master, db, seqVars, cleanVars,
             faults, assigned, checkFailed>>

(* The hash is in the local database: return the SCT of its first leaf. *)
FeDuplicate(n, h) ==
    /\ fe[n] = Idle
    /\ \E i \in Number :
          /\ db[n][i] # NoLeaf /\ db[n][i].hash = h
          /\ \A j \in 0 .. i - 1 : ~(db[n][j] # NoLeaf /\ db[n][j].hash = h)
          /\ issued' = issued \cup {db[n][i]}
    /\ UNCHANGED <<entries, fe, clock, feFrame>>

(* Mutant: the entry is signed before it is given its timestamp. *)
FeSignEarly(n, h) ==
    /\ fe[n] = Idle
    /\ clock < MaxSct
    /\ clock' = clock + 1
    /\ fe' = [fe EXCEPT ![n] = [pc |-> "create", hash |-> h, sct |-> clock]]
    /\ UNCHANGED <<entries, issued, feFrame>>

(* The hash is not in the local database: sign an SCT. *)
FeSign(n, h) ==
    /\ fe[n] = Idle
    /\ clock < MaxSct
    /\ \A i \in Number : ~(db[n][i] # NoLeaf /\ db[n][i].hash = h)
    /\ clock' = clock + 1
    /\ fe' = [fe EXCEPT ![n] = [pc |-> "create", hash |-> h, sct |-> clock']]
    /\ UNCHANGED <<entries, issued, feFrame>>

(***************************************************************************)
(* The entry does not exist: create it. Either the answer arrives and the  *)
(* SCT is returned, or it is lost, the etcd client retries on another      *)
(* server, finds the entry it has made and goes on to read it.             *)
(***************************************************************************)
FeCreate(n) ==
    /\ fe[n].pc = "create"
    /\ entries[fe[n].hash] = NoSct
    /\ StaleFrontend \/ ~IsServed(fe[n].hash)
    /\ entries' = [entries EXCEPT ![fe[n].hash] = fe[n].sct]
    /\ \/ /\ issued' = issued \cup {[hash |-> fe[n].hash, sct |-> fe[n].sct]}
          /\ fe' = [fe EXCEPT ![n] = Idle]
       \/ /\ issued' = issued
          /\ fe' = [fe EXCEPT ![n].pc = "get"]
    /\ UNCHANGED <<clock, feFrame>>

(* Create fails with FAILED_PRECONDITION: another entry has this hash. *)
FeExists(n) ==
    /\ fe[n].pc = "create"
    /\ entries[fe[n].hash] # NoSct
    /\ fe' = [fe EXCEPT ![n].pc = "get"]
    /\ UNCHANGED <<entries, issued, clock, feFrame>>

(* Return the SCT of the existing entry, or NOT_FOUND if it has gone. *)
FeGet(n) ==
    /\ fe[n].pc = "get"
    /\ fe' = [fe EXCEPT ![n] = Idle]
    /\ issued' = issued \cup
          {l \in Leaf : l.hash = fe[n].hash /\ l.sct = entries[fe[n].hash]}
    /\ UNCHANGED <<entries, clock, feFrame>>

(* MaybeReject: etcd holds too many entries, the client gets an error. *)
FeReject(n) ==
    /\ fe[n].pc = "create"
    /\ fe' = [fe EXCEPT ![n] = Idle]
    /\ UNCHANGED <<entries, issued, clock, feFrame>>

-----------------------------------------------------------------------------
(* TreeSigner::SequenceNewEntries, started by SequenceEntries. *)

seqFrame == <<serving, signed, cached, master, fe, cleanVars, clock, issued,
              checkFailed>>

(* SequenceNewEntries returns. *)
SeqReturn(n) ==
    /\ seqPc' = [seqPc EXCEPT ![n] = "idle"]
    /\ seqNext' = [seqNext EXCEPT ![n] = 0]
    /\ seqMap' = [seqMap EXCEPT ![n] = EmptyMapping]
    /\ seqPend' = [seqPend EXCEPT ![n] = NoEntries]
    /\ seqAt' = [seqAt EXCEPT ![n] = 0]

(* Mutant: an empty mapping means an empty log. *)
NextFromMappingOnly(n, next) ==
    IF Mapped(mapping) = {} THEN next = 0 ELSE NextAfter(mapping, next)

(***************************************************************************)
(* NextAvailableSequenceNumber: first read of the mapping; the cached      *)
(* serving STH decides only if the mapping is empty.                       *)
(***************************************************************************)
NextAvailableSequenceNumber(n, next) ==
    IF Mapped(mapping) = {} THEN next = cached[n] ELSE NextAfter(mapping, next)

SeqStart(n) ==
    /\ seqPc[n] = "idle"
    /\ master[n]
    /\ \/ /\ ~MappingChecks(n, mapping)
          /\ Die(n)
       \/ /\ MappingChecks(n, mapping)
          /\ \E next \in 0 .. MaxLog :
                /\ NextAvailableSequenceNumber(n, next)
                /\ seqNext' = [seqNext EXCEPT ![n] = next]
          /\ seqPc' = [seqPc EXCEPT ![n] = "next"]
          /\ UNCHANGED <<entries, mapping, db, seqMap, seqHandle, seqPend,
                         seqAt, faults, assigned, seqFrame>>

(***************************************************************************)
(* GetSequenceMapping: second read. The etcd index kept in the handle is   *)
(* abstracted to "the mapping has not been written since" (seqHandle).     *)
(***************************************************************************)
SeqReadMapping(n) ==
    /\ seqPc[n] = "next"
    /\ \/ /\ ~MappingChecks(n, mapping)
          /\ Die(n)
       \/ /\ MappingChecks(n, mapping)
          /\ seqPc' = [seqPc EXCEPT ![n] = "mapped"]
          /\ seqMap' = [seqMap EXCEPT ![n] = mapping]
          /\ seqHandle' = [seqHandle EXCEPT ![n] = TRUE]
          /\ UNCHANGED <<entries, mapping, db, seqNext, seqPend, seqAt,
                         faults, assigned, seqFrame>>

(* Mutant: an entry exactly as old as the window is skipped, too. *)
OlderThan(cutoff) == {h \in Hash : entries[h] # NoSct /\ entries[h] < cutoff}

(***************************************************************************)
(* The loop over the pending entries. Those younger than the guard window  *)
(* are skipped before their hash is looked up, an entry that has a number  *)
(* keeps it, the others get the next ones in timestamp order, and what is  *)
(* not pending leaves the mapping.                                         *)
(***************************************************************************)
OldEnough(cutoff) == {h \in Hash : entries[h] # NoSct /\ entries[h] <= cutoff}

NewMapping(old, next, pending, new) ==
    LET fresh == pending \ Mapped(old)
    IN  /\ Mapped(new) = pending
        /\ \A h \in pending \ fresh : new[h] = old[h]
        /\ \E end \in next .. MaxLog : {new[h] : h \in fresh} = next .. end - 1
        /\ \A g, h \in fresh : entries[g] < entries[h] => new[g] < new[h]

(* The sanity CHECKs between the loop and UpdateSequenceMapping. *)
SanityChecks(n, new) ==
    /\ MappingIsOrdered(new)
    /\ \A h \in Mapped(seqMap[n]) \ Mapped(new) : seqMap[n][h] < cached[n]
    /\ Mapped(new) # {} => \E h \in Mapped(new) : new[h] <= cached[n]

(* Clocks agree: what a sequencer numbered before is old enough now. *)
SkewFree(n, cutoff) ==
    \A h \in Mapped(seqMap[n]) : entries[h] <= cutoff

(***************************************************************************)
(* GetPendingEntries, the loop, the CHECKs, and the IsMaster test of       *)
(* StrictConsistentStore in front of UpdateSequenceMapping.                *)
(***************************************************************************)
SeqNumber(n, cutoff) ==
    /\ seqPc[n] = "mapped"
    /\ ClockSkew \/ SkewFree(n, cutoff)
    /\ \E new \in [Hash -> Number \cup {NoSeq}] :
          /\ NewMapping(seqMap[n], seqNext[n], OldEnough(cutoff), new)
          /\ \/ /\ ~SanityChecks(n, new)
                   \/ (master[n] /\ ~MappingChecks(n, new))
                /\ Die(n)
             \/ /\ SanityChecks(n, new)
                /\ ~master[n]
                /\ SeqReturn(n)
                /\ seqHandle' = [seqHandle EXCEPT ![n] = FALSE]
                /\ UNCHANGED <<entries, mapping, db, faults, assigned,
                               seqFrame>>
             \/ /\ SanityChecks(n, new)
                /\ master[n]
                /\ MappingChecks(n, new)
                /\ seqPc' = [seqPc EXCEPT ![n] = "update"]
                /\ seqMap' = [seqMap EXCEPT ![n] = new]
                /\ seqPend' = [seqPend EXCEPT ![n] = entries]
                /\ seqNext' = [seqNext EXCEPT ![n] = 0]
                /\ UNCHANGED <<entries, mapping, db, seqHandle, seqAt, faults,
                               assigned, seqFrame>>

LeafOf(n, h) == [hash |-> h, sct |-> seqPend[n][h]]

(* Mutant: the mapping is set without comparing its index. *)
ForceSetMapping(n) ==
    /\ mapping' = seqMap[n]
    /\ seqHandle' = [m \in Node |-> FALSE]
    /\ assigned' = [i \in Number |-> assigned[i] \cup
          {LeafOf(n, h) : h \in {g \in Hash : seqMap[n][g] = i}}]

(* The compare-and-set of the mapping takes effect. *)
StoreMapping(n) ==
    /\ seqHandle[n]
    /\ mapping' = seqMap[n]
    /\ seqHandle' = [m \in Node |-> FALSE]
    /\ assigned' = [i \in Number |-> assigned[i] \cup
          {LeafOf(n, h) : h \in {g \in Hash : seqMap[n][g] = i}}]

(* Mutant: nothing is written unless the whole mapping is new. *)
SeqUpdateNoResume(n) ==
    /\ seqPc[n] = "update"
    /\ StoreMapping(n)
    /\ IF \E h \in Mapped(seqMap[n]) : mapping[h] = NoSeq
       THEN /\ seqPc' = [seqPc EXCEPT ![n] = "write"]
            /\ \E h \in Mapped(seqMap[n]) :
                  /\ mapping[h] = NoSeq
                  /\ seqAt' = [seqAt EXCEPT ![n] = seqMap[n][h]]
            /\ UNCHANGED <<seqNext, seqMap, seqPend>>
       ELSE SeqReturn(n)
    /\ UNCHANGED <<entries, db, faults, seqFrame>>

(* ... and its answer arrives: write from the local tree size on. *)
SeqUpdate(n) ==
    /\ seqPc[n] = "update"
    /\ StoreMapping(n)
    /\ \E size \in 0 .. MaxLog :
          /\ IsTreeSize(db[n], size)
          /\ \/ /\ \E h \in Mapped(seqMap[n]) : seqMap[n][h] = size
                /\ seqPc' = [seqPc EXCEPT ![n] = "write"]
                /\ seqAt' = [seqAt EXCEPT ![n] = size]
                /\ UNCHANGED <<seqNext, seqMap, seqPend>>
             \/ /\ \A h \in Mapped(seqMap[n]) : seqMap[n][h] # size
                /\ SeqReturn(n)
    /\ UNCHANGED <<entries, db, faults, seqFrame>>

(* ... and its answer is lost: the client's retry is refused as stale. *)
SeqUpdateLost(n) ==
    /\ seqPc[n] = "update"
    /\ faults < MaxFaults
    /\ faults' = faults + 1
    /\ StoreMapping(n)
    /\ SeqReturn(n)
    /\ UNCHANGED <<entries, db, seqFrame>>

(* The compare-and-set fails: another sequencer wrote the mapping. *)
SeqStale(n) ==
    /\ seqPc[n] = "update"
    /\ ~seqHandle[n]
    /\ SeqReturn(n)
    /\ UNCHANGED <<entries, mapping, db, seqHandle, faults, assigned, seqFrame>>

(***************************************************************************)
(* CreateSequencedEntry for the number seqAt: an equal entry is accepted,  *)
(* a different one fails the CHECK. Then on to the next higher number.     *)
(***************************************************************************)
SeqWrite(n) ==
    /\ seqPc[n] = "write"
    /\ \E h \in Mapped(seqMap[n]) :
          /\ seqMap[n][h] = seqAt[n]
          /\ \/ /\ db[n][seqAt[n]] \notin {NoLeaf, LeafOf(n, h)}
                /\ Die(n)
             \/ /\ db[n][seqAt[n]] \in {NoLeaf, LeafOf(n, h)}
                /\ db' = [db EXCEPT ![n][seqAt[n]] = LeafOf(n, h)]
                /\ LET rest == {g \in Mapped(seqMap[n]) :
                                   seqMap[n][g] > seqAt[n]}
                   IN  IF rest = {} THEN SeqReturn(n)
                       ELSE /\ \E g \in rest :
                                  /\ \A f \in rest : seqMap[n][g] <= seqMap[n][f]
                                  /\ seqAt' = [seqAt EXCEPT ![n] = seqMap[n][g]]
                            /\ UNCHANGED <<seqPc, seqNext, seqMap, seqPend>>
                /\ UNCHANGED <<entries, mapping, seqHandle, faults, assigned,
                               seqFrame>>

-----------------------------------------------------------------------------
(* Signing, replication and the serving STH. *)

treeFrame == <<entries, mapping, master, fe, seqVars, cleanVars, clock, faults,
               history>>

(* UpdateTree and NewTreeHead: sign and publish the contiguous entries. *)
UpdateTree(n) ==
    /\ \E size \in 0 .. MaxLog :
          /\ IsTreeSize(db[n], size)
          /\ signed' = [signed EXCEPT ![n] = size]
    /\ UNCHANGED <<serving, cached, db, treeFrame>>

(* The fetcher copies an entry that peer m has published. *)
Fetch(n, m, i) ==
    /\ i < signed[m]
    /\ db[m][i] # NoLeaf
    /\ db[n][i] = NoLeaf
    /\ db' = [db EXCEPT ![n][i] = db[m][i]]
    /\ UNCHANGED <<serving, signed, cached, treeFrame>>

(* Mutant: the nodes that serve are not counted. *)
AnyNodeCanServe(size) == \E m \in Node : signed[m] >= size

(* Enough nodes have published a tree of this size or larger. *)
CanServe(size) ==
    Cardinality({m \in Node : signed[m] >= size}) >= MinServingNodes

(***************************************************************************)
(* The master publishes the STH of a larger tree. The compare-and-set is   *)
(* against the cached STH, and SetServingSTH returns once the node's own   *)
(* watch has delivered the new one.                                        *)
(***************************************************************************)
SetServingSTH(n) ==
    /\ master[n]
    /\ cached[n] = serving
    /\ \E m \in Node :
          /\ signed[m] > serving
          /\ CanServe(signed[m])
          /\ serving' = signed[m]
    /\ cached' = [m \in Node |->
                    IF m = n \/ ~LaggingWatch THEN serving' ELSE cached[m]]
    /\ UNCHANGED <<signed, db, treeFrame>>

(* OnEtcdServingSTHUpdated on a node that did not make the update. *)
ServingSTHUpdated(n) ==
    /\ cached[n] # serving
    /\ cached' = [cached EXCEPT ![n] = serving]
    /\ UNCHANGED <<serving, signed, db, treeFrame>>

-----------------------------------------------------------------------------
(* EtcdConsistentStore::CleanupOldEntries, started by CleanUpEntries. *)

cleanFrame == <<mapping, serving, signed, cached, master, db, fe, seqVars,
                clock, history>>

CleanReturn(n) ==
    /\ cleanPc' = [cleanPc EXCEPT ![n] = "idle"]
    /\ cleanUpTo' = [cleanUpTo EXCEPT ![n] = 0]
    /\ cleanKeys' = [cleanKeys EXCEPT ![n] = {}]

(* The limit comes from the cached STH. *)
CleanStart(n) ==
    /\ cleanPc[n] = "idle"
    /\ master[n]
    /\ cleanPc' = [cleanPc EXCEPT ![n] = "read"]
    /\ cleanUpTo' = [cleanUpTo EXCEPT ![n] = cached[n]]
    /\ UNCHANGED <<entries, cleanKeys, faults, cleanFrame>>

(* Mutant: the limit itself is deleted, too. *)
KeysUpToLimit(n) == {h \in Mapped(mapping) : mapping[h] <= cleanUpTo[n]}

(* The keys to delete are the hashes whose number is below the limit. *)
KeysToDelete(n) == {h \in Mapped(mapping) : mapping[h] < cleanUpTo[n]}

CleanRead(n) ==
    /\ cleanPc[n] = "read"
    /\ \/ /\ ~MappingChecks(n, mapping)
          /\ Die(n)
       \/ /\ MappingChecks(n, mapping)
          /\ \/ /\ KeysToDelete(n) = {}
                /\ CleanReturn(n)
             \/ /\ KeysToDelete(n) # {}
                /\ cleanPc' = [cleanPc EXCEPT ![n] = "delete"]
                /\ cleanKeys' = [cleanKeys EXCEPT ![n] = KeysToDelete(n)]
                /\ cleanUpTo' = [cleanUpTo EXCEPT ![n] = 0]
          /\ UNCHANGED <<entries, faults, cleanFrame>>

(***************************************************************************)
(* One ForceDelete of EtcdForceDeleteKeys takes effect. Several are in     *)
(* flight; without UnorderedCleanup they are taken to finish in the order  *)
(* of the numbers. The mapping itself is not touched.                      *)
(***************************************************************************)
DeleteOrder(n, h) ==
    \/ UnorderedCleanup
    \/ \A g \in cleanKeys[n] : mapping[g] = NoSeq \/ mapping[h] <= mapping[g]

(* Mutant: the deletion of the last key is forgotten. *)
CleanDeleteAllButLast(n, h) ==
    /\ cleanPc[n] = "delete"
    /\ h \in cleanKeys[n]
    /\ IF cleanKeys[n] = {h}
       THEN CleanReturn(n) /\ UNCHANGED entries
       ELSE /\ entries' = [entries EXCEPT ![h] = NoSct]
            /\ cleanKeys' = [cleanKeys EXCEPT ![n] = @ \ {h}]
            /\ UNCHANGED <<cleanPc, cleanUpTo>>
    /\ UNCHANGED <<faults, cleanFrame>>

CleanDelete(n, h) ==
    /\ cleanPc[n] = "delete"
    /\ h \in cleanKeys[n]
    /\ DeleteOrder(n, h)
    /\ entries' = [entries EXCEPT ![h] = NoSct]
    /\ IF cleanKeys[n] = {h}
       THEN CleanReturn(n)
       ELSE /\ cleanKeys' = [cleanKeys EXCEPT ![n] = @ \ {h}]
            /\ UNCHANGED <<cleanPc, cleanUpTo>>
    /\ UNCHANGED <<faults, cleanFrame>>

(* A deletion fails and the rest of the keys is given up. *)
CleanFail(n) ==
    /\ cleanPc[n] = "delete"
    /\ faults < MaxFaults
    /\ faults' = faults + 1
    /\ CleanReturn(n)
    /\ UNCHANGED <<entries, cleanFrame>>

-----------------------------------------------------------------------------

FrontendNext(n) ==
    \/ \E h \in Hash : FeDuplicate(n, h) \/ FeSign(n, h)
    \/ FeCreate(n) \/ FeExists(n) \/ FeGet(n) \/ FeReject(n)

SequencerNext(n) ==
    \/ SeqStart(n) \/ SeqReadMapping(n)
    \/ \E cutoff \in 0 .. MaxSct : SeqNumber(n, cutoff)
    \/ SeqUpdate(n) \/ SeqUpdateLost(n) \/ SeqStale(n) \/ SeqWrite(n)

TreeNext(n) ==
    \/ UpdateTree(n)
    \/ \E m \in Node, i \in Number : Fetch(n, m, i)
    \/ SetServingSTH(n) \/ ServingSTHUpdated(n)

CleanupNext(n) ==
    \/ CleanStart(n) \/ CleanRead(n)
    \/ \E h \in Hash : CleanDelete(n, h)
    \/ CleanFail(n)

Next ==
    \E n \in Node :
        \/ Crash(n) \/ BecomeMaster(n) \/ LoseMaster(n)
        \/ FrontendNext(n) \/ SequencerNext(n) \/ TreeNext(n) \/ CleanupNext(n)

Spec == Init /\ [][Next]_vars

-----------------------------------------------------------------------------
(* Correctness in every environment. *)

(* The committed mapping satisfies the CHECKs of the store against the     *)
(* real serving STH, although every node checks it against its own cached  *)
(* copy (CheckMappingIsOrdered, CheckMappingIsContiguousWithServingTree).  *)
MappingIsSound ==
    MappingIsOrdered(mapping) /\ MappingIsContiguous(mapping, serving)

(* What the cluster serves is complete on enough nodes, whoever crashes:   *)
(* SetServingSTH follows the trees that nodes announced, and an announced  *)
(* tree is in its node's database.                                         *)
ServedIsReplicated ==
    \E Q \in SUBSET Node :
        /\ Cardinality(Q) >= MinServingNodes \/ serving = 0
        /\ \A n \in Q, i \in Number : i < serving => db[n][i] # NoLeaf

(* A number above the serving tree never leaves the mapping and never      *)
(* changes: the compare-and-set and the CHECK on vanished entries protect  *)
(* it from every other sequencer.                                          *)
UnservedNumbersStay ==
    [][\A h \in Hash : mapping[h] >= serving => mapping'[h] = mapping[h]]_vars

-----------------------------------------------------------------------------
(* Correctness if the environment assumptions are all FALSE. *)

(* DesignDoc "Signing": the numbers are "determined and stable", so no     *)
(* number is ever committed to /sequence_mapping for two leaves.           *)
NumbersAreStable ==
    \A i \in Number : \A l1, l2 \in assigned[i] : l1 = l2

(* Any two databases agree wherever both have an entry: SequenceNewEntries *)
(* and the fetcher of different nodes write the same log.                  *)
DatabasesAgree ==
    \A n, m \in Node, i \in Number :
        db[n][i] # NoLeaf /\ db[m][i] # NoLeaf => db[n][i] = db[m][i]

(* No accepted certificate is lost: its entry is pending in etcd, or it is *)
(* a leaf of the served tree in the databases of enough nodes.             *)
PromiseKept ==
    \A l \in issued :
        \/ entries[l.hash] = l.sct
        \/ \E i \in Number :
              /\ i < serving
              /\ Cardinality({n \in Node : db[n][i] = l}) >= MinServingNodes

(* No CHECK on the mapping, the serving STH or the database ever fails. *)
NoCheckFails == ~checkFailed

(* Rule 1 of SequenceNewEntries: a mapping whose pending entry still       *)
(* exists stays, with its number.                                          *)
SequencedStays ==
    [][\A h \in Hash : mapping[h] # NoSeq /\ entries[h] # NoSct
                         => mapping'[h] = mapping[h]]_vars

-----------------------------------------------------------------------------
(* The public log that the cluster implements if the assumptions are FALSE *)

(* The submissions that are pending or stored. *)
Accepted ==
    {[hash |-> h, sct |-> entries[h]] : h \in {g \in Hash : entries[g] # NoSct}}
    \cup ({db[n][i] : n \in Node, i \in Number} \ {NoLeaf})

(* The leaves below the serving tree size. *)
Served ==
    [k \in 1 .. serving |->
        CHOOSE l \in {db[n][k - 1] : n \in Node} : l # NoLeaf]

Public == INSTANCE PublicLog WITH accepted <- Accepted, log <- Served

(* SequenceNewEntries, the fetchers, SetServingSTH and CleanupOldEntries   *)
(* together implement one append-only log that loses no submission.        *)
ImplementsPublicLog == Public!Spec

(***************************************************************************)
(* The threads loop for ever and etcd answers them; one node is elected;   *)
(* time passes, so that a run of the sequencer sees every entry outside    *)
(* the guard window again and again.                                       *)
(***************************************************************************)
Fairness ==
    /\ WF_vars(\E n \in Node : BecomeMaster(n))
    /\ \A n \in Node :
          /\ WF_vars(SeqStart(n)) /\ WF_vars(SeqReadMapping(n))
          /\ WF_vars(\E cutoff \in 0 .. MaxSct : SeqNumber(n, cutoff))
          /\ SF_vars(SeqNumber(n, MaxSct))
          /\ WF_vars(SeqUpdate(n) \/ SeqStale(n)) /\ WF_vars(SeqWrite(n))
          /\ WF_vars(UpdateTree(n))
          /\ WF_vars(\E m \in Node, i \in Number : Fetch(n, m, i))
          /\ WF_vars(SetServingSTH(n))
          /\ WF_vars(ServingSTHUpdated(n))
          /\ WF_vars(CleanStart(n)) /\ WF_vars(CleanRead(n))
          /\ WF_vars(\E h \in Hash : CleanDelete(n, h))

FairSpec == Spec /\ Fairness

(* Every accepted submission becomes a leaf of the served tree: no hand-   *)
(* over, crash or lost answer leaves an entry unnumbered, unwritten,       *)
(* unsigned or unserved for ever.                                          *)
AcceptedIsServed == Public!Merged

(* What is served leaves etcd: neither /entries nor /sequence_mapping      *)
(* keeps a served submission for ever (CleanupOldEntries deletes the       *)
(* entries, the next run of the sequencer drops the mappings).             *)
EtcdDrains ==
    \A h \in Hash : IsServed(h) ~> (entries[h] = NoSct /\ mapping[h] = NoSeq)
=============================================================================
