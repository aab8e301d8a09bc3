----------------------------- MODULE ServingSth -----------------------------
(***************************************************************************)
(* How the cluster chooses the tree head it serves.                        *)
(*                                                                         *)
(* Every node signs its own tree and announces the head in its             *)
(* ClusterNodeState.  Every node watches the announcements and calculates  *)
(* which head enough nodes can serve (ClusterStateController), and the     *)
(* master stores it as /serving_sth.  How the serving STH gets into the    *)
(* database of a node is in TreeHeads.                                     *)
(*                                                                         *)
(* Watches lag.  The copy of /serving_sth in the consistent store, on      *)
(* which the compare-and-set depends, is a position in the sequence of its *)
(* values.  The controller's copies are only read by its callbacks, and    *)
(* need not be kept: when one runs, all_peers_ holds for each node any     *)
(* state that node has ever had in etcd, or none, and actual_serving_sth_  *)
(* is any serving STH since the process started, or none.  This covers     *)
(* late notifications, writes of a node state that failed and states that  *)
(* expired.                                                                *)
(***************************************************************************)
EXTENDS ServingHead, Integers, FiniteSets

CONSTANTS
    Node,              \* servers of the cluster
    MaxFaults,         \* bound: restarts, failed updates, changes of master
    MinServingNodes,   \* ClusterConfig.minimum_serving_nodes
    FractionNum, FractionDen,
                       \* ClusterConfig.minimum_serving_fraction
    \* Environment assumptions. FALSE excludes the named behaviour.
    Handover,          \* the master changes or restarts
    LateConfig         \* node states are delivered before the configuration

ASSUME NodeAssumption == IsFiniteSet(Node) /\ Node # {}
ASSUME BoundAssumption ==
    /\ {MaxFaults, MinServingNodes, FractionNum} \subseteq Nat
    /\ FractionDen \in Nat \ {0}
    /\ {Handover, LateConfig} \subseteq BOOLEAN

(* A ClusterNodeState is its newest_sth, NoSth if it has none; a node without *)
(* a state in etcd is Gone.                                                   *)
Gone == [size |-> -1, time |-> 0]

VARIABLES
    announced,   \* etcd: the tree heads each /nodes/<id> has had
    size,        \* Database::TreeSize of each node
    newest,      \* local_node_state_.newest_sth
    joined,      \* position in served when the process started
    configured,  \* the ClusterConfig has been delivered
    stored,      \* serving_sth_ of the consistent store: position in served
    calculated,  \* calculated_serving_sth_
    required,    \* update_required_
    updating,    \* local_sth of the updater thread, NoSth when it waits
    awaited,     \* the version SetServingSTH waits to be told of
    master,      \* what MasterElection::IsMaster returns on each node
    faults,      \* faults so far
    checkFailed  \* history: a CHECK has killed some process

memory == <<newest, joined, configured, stored, calculated, required, updating,
            awaited>>
vars == <<served, announced, size, memory, master, faults, checkFailed>>

TypeOK ==
    /\ served \in Seq(Sth)
    /\ announced \in [Node -> SUBSET Sth]
    /\ size \in [Node -> 0 .. MaxSize]
    /\ newest \in [Node -> Sth \cup {NoSth}]
    /\ joined \in [Node -> 0 .. Len(served)]
    /\ configured \in [Node -> BOOLEAN]
    /\ stored \in [Node -> 0 .. Len(served)]
    /\ calculated \in [Node -> Sth \cup {NoSth}]
    /\ required \in [Node -> BOOLEAN]
    /\ updating \in [Node -> Sth \cup {NoSth}]
    /\ awaited \in [Node -> 0 .. Len(served)]
    /\ master \in [Node -> BOOLEAN]
    /\ faults \in 0 .. MaxFaults
    /\ checkFailed \in BOOLEAN

-----------------------------------------------------------------------------
(* actual_serving_sth_: the serving STHs that the controller's own watch may *)
(* have delivered to the process of n by now.                                 *)
ActualSths(n) == {NoSth} \cup {served[p] : p \in (joined[n] .. Len(served)) \ {0}}

(* The states of the nodes that a watch may have delivered so far. *)
NodeStates ==
    LET given == [m \in Node |-> announced[m] \cup {NoSth, Gone}]
    IN  {f \in [Node -> UNION {given[m] : m \in Node}] :
            \A m \in Node : f[m] \in given[m]}
(* Those of them that are in all_peers_, and those that has_newest_sth(). *)
AllPeers(state) == {m \in Node : state[m] # Gone}
Announcing(state) == {m \in Node : state[m].time > 0}

Newest(S) == CHOOSE s \in S : \A t \in S : t.time <= s.time

(***************************************************************************)
(* A process starts (or starts again) with its database: the store's       *)
(* constructor has read /serving_sth, Server::Initialise publishes the     *)
(* state of the node without a tree head, and main will wait for the       *)
(* entries of the serving STH before it starts the signer.                 *)
(***************************************************************************)
Init ==
    /\ served = <<>>
    /\ announced = [n \in Node |-> {}]
    /\ size = [n \in Node |-> 0]
    /\ newest = [n \in Node |-> NoSth]
    /\ joined = [n \in Node |-> 0]
    /\ configured = [n \in Node |-> ~LateConfig]
    /\ stored = [n \in Node |-> 0]
    /\ calculated = [n \in Node |-> NoSth]
    /\ required = [n \in Node |-> FALSE]
    /\ updating = [n \in Node |-> NoSth]
    /\ awaited = [n \in Node |-> 0]
    /\ \E first \in Node : master = [n \in Node |-> n = first]
    /\ faults = 0
    /\ checkFailed = FALSE

Put(f, n, v) == [f EXCEPT ![n] = v]
Fault == faults < MaxFaults /\ faults' = faults + 1

(***************************************************************************)
(* The process of n ends and starts again. Initialise announces the latest *)
(* head of its database, if there is one: a head that was served, of a     *)
(* tree that the database covers (TreeHeads).                              *)
(***************************************************************************)
Reboot(n) ==
    /\ \E head \in {ServedAt(p) : p \in 0 .. Len(served)} :
         /\ head.size <= size[n]
         /\ newest' = Put(newest, n, head)
         /\ announced' = [announced EXCEPT ![n] = @ \cup ({head} \ {NoSth})]
    /\ joined' = Put(joined, n, Len(served))
    /\ configured' = Put(configured, n, ~LateConfig)
    /\ stored' = Put(stored, n, Len(served))
    /\ calculated' = Put(calculated, n, NoSth)
    /\ required' = Put(required, n, FALSE)
    /\ updating' = Put(updating, n, NoSth)
    /\ awaited' = Put(awaited, n, 0)
    /\ master' = Put(master, n, FALSE)
    /\ UNCHANGED <<served, size>>

Restart(n) ==
    /\ Handover \/ ~master[n]
    /\ Fault
    /\ Reboot(n)
    /\ UNCHANGED checkFailed

(* A CHECK does not hold. *)
Die(n) == Reboot(n) /\ checkFailed' = TRUE /\ UNCHANGED faults

(* MasterElection: several nodes may believe that they are master. *)
Elect(n) ==
    /\ Handover
    /\ Fault
    /\ master' = [master EXCEPT ![n] = ~@]
    /\ UNCHANGED <<served, announced, size, memory, checkFailed>>

(* The next entry arrives in the database, by sequencing or fetching. *)
CreateSequencedEntry(n) ==
    /\ size[n] < MaxSize
    /\ size' = [size EXCEPT ![n] = @ + 1]
    /\ UNCHANGED <<served, announced, memory, master, faults, checkFailed>>

(***************************************************************************)
(* SignMerkleTree: UpdateTree signs what is in the database with a         *)
(* timestamp after its last one, and NewTreeHead pushes it as the node's   *)
(* state; a push that fails, which is only logged, is a state that no      *)
(* watch delivers. Entries that arrive in between are part of the next     *)
(* tree. The signer is started after WaitForReplication. The clock stops   *)
(* at the bound MaxTime.                                                   *)
(***************************************************************************)
SignMerkleTree(n) ==
    /\ size[n] >= ServedAt(joined[n]).size
    /\ \E time \in Timestamps(newest[n]) :
         LET sth == [size |-> size[n], time |-> time]
         IN  /\ newest' = Put(newest, n, sth)
             /\ announced' = [announced EXCEPT ![n] = @ \cup {sth}]
    /\ UNCHANGED <<served, size, joined, configured, stored, calculated,
                   required, updating, awaited, master, faults, checkFailed>>

-----------------------------------------------------------------------------
(* The choice of the serving STH. *)

(* Mutant: every node that announces a head is counted, whatever its size. *)
NumNodesWithSth(state, s) == Cardinality(Announcing(state))

(* Nodes of which the state announces a tree of at least s entries. *)
NumNodesSeen(state, s) ==
    Cardinality({m \in Announcing(state) : state[m].size >= s})

(* The thresholds of the cluster_config_; by default they are zero. *)
EnoughNodes(state, conf, s) ==
    conf => LET seen == NumNodesSeen(state, s)
            IN  /\ seen >= MinServingNodes
                /\ seen * FractionDen >= FractionNum * Cardinality(AllPeers(state))

SthBySize(state, s) ==
    Newest({state[m] : m \in {k \in Announcing(state) : state[k].size = s}})

(***************************************************************************)
(* The loop of CalculateServingSTH: the newest head of the largest size    *)
(* that is no smaller than the last calculated one, that enough nodes have *)
(* and of which there is a head newer than the serving STH.                *)
(***************************************************************************)
Candidates(n, state, conf) ==
    LET sizes == {state[m].size : m \in Announcing(state)}
    IN  {SthBySize(state, s) :
            s \in {t \in sizes : /\ t >= calculated[n].size
                                 /\ EnoughNodes(state, conf, t)}}

SelectSTH(candidates, actual) ==
    LET viable == {sth \in candidates : sth.time > actual.time}
    IN  IF viable = {} THEN NoSth
        ELSE CHOOSE sth \in viable : \A other \in viable : other.size <= sth.size

(* What it may find, depending on what the watches have delivered. *)
Selectable(n, conf) ==
    {SelectSTH(candidates, actual) :
        candidates \in {Candidates(n, state, conf) : state \in NodeStates},
        actual \in ActualSths(n)}

(* Mutant: an update is only required when the head is another one. *)
CalculateIfChanged(n, sth) ==
    IF sth \in {NoSth, calculated[n]} THEN UNCHANGED <<calculated, required>>
    ELSE /\ calculated' = Put(calculated, n, sth)
         /\ required' = [required EXCEPT ![n] = @ \/ master[n]]

(* CalculateServingSTH, with the result sth of its loop; mutex_ is held. *)
CalculateServingSTH(n, sth) ==
    IF sth = NoSth THEN UNCHANGED <<calculated, required>>
    ELSE /\ calculated' = Put(calculated, n, sth)
         /\ required' = [required EXCEPT ![n] = @ \/ master[n]]

(***************************************************************************)
(* OnClusterStateUpdated, when conf is what is known, and                  *)
(* OnClusterConfigUpdated, when conf is TRUE: the configuration arrives.   *)
(***************************************************************************)
OnClusterUpdated(n, conf, sth) ==
    /\ configured' = Put(configured, n, conf)
    /\ CalculateServingSTH(n, sth)
    /\ UNCHANGED <<served, announced, size, newest, joined, stored, updating,
                   awaited, master, faults, checkFailed>>

-----------------------------------------------------------------------------
(* The master stores the serving STH. *)

(* ClusterServingSTHUpdater, up to the release of mutex_. *)
UpdaterTake(n) ==
    /\ required[n]
    /\ updating[n] = NoSth
    /\ awaited[n] <= stored[n]
    /\ updating' = Put(updating, n, calculated[n])
    /\ required' = Put(required, n, FALSE)
    /\ UNCHANGED <<served, announced, size, newest, joined, configured, stored,
                   calculated, awaited, master, faults, checkFailed>>

(* Mutant: the value is set without comparing the version. *)
UpdateRefusedUnversioned(n) ==
    \/ ~master[n]
    \/ ServedAt(stored[n]).time >= updating[n].time

(* Nothing is stored: no longer master, not newer, or another node was first. *)
UpdateRefused(n) ==
    \/ ~master[n]
    \/ ServedAt(stored[n]).time >= updating[n].time
    \/ stored[n] # Len(served)

(* SetServingSTH: "nothing weird is going on with the tree size". *)
SizeIsWeird(n) == ServedAt(stored[n]).size > updating[n].size

(***************************************************************************)
(* The rest of the updater: StrictConsistentStore and EtcdConsistentStore  *)
(* SetServingSTH. The store's mutex is held from the checks to the         *)
(* compare-and-set; after it the thread waits until the store's watch has  *)
(* delivered the new value.                                                *)
(***************************************************************************)
SetServingSTH(n) ==
    /\ updating[n] # NoSth
    /\ IF master[n] /\ ServedAt(stored[n]).time < updating[n].time /\ SizeIsWeird(n)
       THEN Die(n)
       ELSE /\ IF UpdateRefused(n) THEN UNCHANGED <<served, awaited>>
               ELSE /\ served' = Append(served, updating[n])
                    /\ awaited' = Put(awaited, n, Len(served'))
            /\ updating' = Put(updating, n, NoSth)
            /\ UNCHANGED <<announced, size, newest, joined, configured,
                           stored, calculated, required, master,
                           faults, checkFailed>>

(* etcd reports an error; the updater only logs it. *)
UpdateFails(n) ==
    /\ updating[n] # NoSth
    /\ Fault
    /\ updating' = Put(updating, n, NoSth)
    /\ UNCHANGED <<served, announced, size, newest, joined, configured, stored,
                   calculated, required, awaited, master, checkFailed>>

(* EtcdConsistentStore::OnEtcdServingSTHUpdated, UpdateLocalServingSTH. *)
OnEtcdServingSTHUpdated(n) ==
    \E p \in stored[n] + 1 .. Len(served) :
      IF ServedAt(stored[n]).time >= served[p].time THEN Die(n)
      ELSE /\ stored' = Put(stored, n, p)
           /\ UNCHANGED <<served, announced, size, newest, joined,
                          configured, calculated, required, updating,
                          awaited, master, faults, checkFailed>>

Step(n) ==
    \/ Restart(n) \/ Elect(n)
    \/ CreateSequencedEntry(n)
    \/ SignMerkleTree(n)
    \/ \E conf \in {configured[n], TRUE} :
          \E sth \in Selectable(n, conf) : OnClusterUpdated(n, conf, sth)
    \/ UpdaterTake(n) \/ SetServingSTH(n) \/ UpdateFails(n)
    \/ OnEtcdServingSTHUpdated(n)

Next == \E n \in Node : Step(n)

Spec == Init /\ [][Next]_vars

(***************************************************************************)
(* The watches deliver what is in etcd: all node states are known as they  *)
(* are.                                                                    *)
(***************************************************************************)
SeesAll(n) ==
    \E conf \in {configured[n], TRUE} :
      OnClusterUpdated(n, conf, SelectSTH(Candidates(n, newest, conf), Serving))

-----------------------------------------------------------------------------
(* Properties. *)

(***************************************************************************)
(* A tree is only served when the databases of MinServingNodes nodes have  *)
(* all its entries (CalculateServingSTH's count of announced tree sizes).  *)
(***************************************************************************)
ServedIsReplicated ==
    Serving # NoSth =>
        Cardinality({n \in Node : size[n] >= Serving.size}) >= MinServingNodes

(***************************************************************************)
(* No CHECK of UpdateLocalServingSTH or SetServingSTH fails: the store is  *)
(* never asked to serve a smaller tree.                                    *)
(***************************************************************************)
NoCheckFails == ~checkFailed

\* The serving tree is the whole log, or the clock bound is reached.
Grown == Serving.size = MaxSize \/ Serving.time = MaxTime
=============================================================================
