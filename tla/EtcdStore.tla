------------------------------ MODULE EtcdStore ------------------------------
(***************************************************************************)
(* The entries EtcdConsistentStore keeps in etcd, and the handles its      *)
(* callers update them through: log/etcd_consistent_store.cc, the requests *)
(* and answers of util/etcd.cc, and EntryHandle of log/consistent_store.h. *)
(*                                                                         *)
(* A call blocks until EtcdClient has an answer.  A server that becomes    *)
(* unavailable may have carried the request out: FetchDone sends it again, *)
(* to the next server, whatever the request is.                            *)
(***************************************************************************)
EXTENDS Integers, FiniteSets

CONSTANTS Node,        \* the nodes of the cluster
          Entry,       \* hashes of submitted entries
          MaxIndex,    \* bounds the etcd index
          HandleBits,  \* EntryHandleBase::handle_ is an int
          Threshold,   \* etcd_reject_add_pending_threshold
          MaxLost      \* bounds the answers that are lost

VARIABLES store,     \* key -> node of etcd
          index,     \* the etcd index
          stats,     \* etcd's operation counts
          call,      \* node -> the request it waits for
          handle,    \* node -> EntryHandle
          config,    \* node -> cluster_config_, as far as there is one
          estimate,  \* node -> num_etcd_entries_
          out,       \* node -> what AddPendingEntry returned
          acked,     \* how many updates of the mapping were reported as made
          lost

vars == <<store, index, stats, call, handle, config, estimate, out, acked, lost>>

None == "none"
Mapping == "/sequence_mapping"
Config == "/cluster_config"
States == "/nodes/"
Key == {Mapping, Config, States} \cup Entry

NoNode == [value |-> None, count |-> 0, modified |-> 0, ttl |-> FALSE]
NoCall == [op |-> None]
NoHandle == [key |-> None, has |-> FALSE, handle |-> 0, count |-> 0, seen |-> 0]
NoOut == [status |-> None, sct |-> None]

Keys(s) == {k \in Key : s[k] # NoNode}

Init ==
    /\ store = [k \in Key |-> IF k = Mapping THEN [NoNode EXCEPT !.modified = 1] ELSE NoNode]
    /\ index = 1
    /\ stats = [createSuccess |-> 1, deleteSuccess |-> 0, compareAndDeleteSuccess |-> 0,
                expireCount |-> 0]
    /\ call = [n \in Node |-> NoCall]
    /\ handle = [n \in Node |-> NoHandle]
    /\ config = [n \in Node |-> FALSE]
    /\ estimate = [n \in Node |-> 0]
    /\ out = [n \in Node |-> NoOut]
    /\ acked = 0
    /\ lost = 0

----------------------------------------------------------------------------
(* etcd.  An answer has the status, the node, and the state after it.      *)

Answer(status, node, s, i, counts) ==
    [status |-> status, node |-> node, store |-> s, index |-> i, stats |-> counts]

Refuse(status) == Answer(status, NoNode, store, index, stats)

Counted(name) == [stats EXCEPT ![name] = @ + 1]

\* prevIndex is a set of at most one index.  A set is counted as a create
\* only where prevExist=false asks for one.
Put(k, node, prevExist, prevIndex) ==
    LET new == [node EXCEPT !.modified = index + 1]
    IN  CASE prevExist = "false" /\ store[k] # NoNode -> Refuse("FAILED_PRECONDITION")
          [] prevIndex # {} /\ store[k] = NoNode -> Refuse("NOT_FOUND")
          [] store[k] # NoNode /\ prevIndex \notin {{}, {store[k].modified}} ->
                Refuse("FAILED_PRECONDITION")
          [] OTHER -> Answer("OK", new, [store EXCEPT ![k] = new], index + 1,
                             IF prevExist = "false" THEN Counted("createSuccess") ELSE stats)

Remove(k, prevIndex, counter) ==
    CASE store[k] = NoNode -> Refuse("NOT_FOUND")
      [] store[k] # NoNode /\ prevIndex \notin {{}, {store[k].modified}} ->
            Refuse("FAILED_PRECONDITION")
      [] OTHER -> Answer("OK", NoNode, [store EXCEPT ![k] = NoNode], index + 1, Counted(counter))

(* EtcdClient. *)
Get(k) == IF store[k] = NoNode THEN Refuse("NOT_FOUND")
          ELSE Answer("OK", store[k], store, index, stats)
Create(k, node) == Put(k, node, "false", {})

\* Mutant: without prevIndex.
UpdateBlindly(k, node, prev) == Put(k, node, "any", {})

Update(k, node, prev) == Put(k, node, "any", {prev})
ForceSet(k, node) == Put(k, node, "any", {})
ForceSetWithTTL(k, node) == Put(k, [node EXCEPT !.ttl = TRUE], "any", {})
Delete(k, prev) == Remove(k, {prev}, "compareAndDeleteSuccess")
ForceDelete(k) == Remove(k, {}, "deleteSuccess")
GetStoreStats == Answer("OK", NoNode, store, index, stats)

Served(c) ==
    CASE c.op = "Get" -> Get(c.key)
      [] c.op = "Create" -> Create(c.key, c.node)
      [] c.op = "Update" -> Update(c.key, c.node, c.prev)
      [] c.op = "ForceSet" -> ForceSet(c.key, c.node)
      [] c.op = "ForceSetWithTTL" -> ForceSetWithTTL(c.key, c.node)
      [] c.op = "Delete" -> Delete(c.key, c.prev)
      [] c.op = "ForceDelete" -> ForceDelete(c.key)
      [] c.op = "GetStoreStats" -> GetStoreStats

----------------------------------------------------------------------------
(* The calls. *)

Request(op, k, node, prev, for) ==
    [op |-> op, key |-> k, node |-> node, prev |-> prev, for |-> for]

\* The request of a call of n that is not in one.
Calls(n, request) ==
    /\ call[n] = NoCall /\ index < MaxIndex
    /\ call' = [call EXCEPT ![n] = request]
    /\ out' = [out EXCEPT ![n] = NoOut]
    /\ UNCHANGED <<store, index, stats, handle, config, estimate, acked, lost>>

\* int handle_, set to an int64_t index.
HandleOf(i) ==
    LET half == 2 ^ (HandleBits - 1) IN ((i + half) % (2 * half)) - half

\* GetSequenceMapping, GetPendingEntryForHash and GetClusterNodeState.
GetEntry(n, k) == Calls(n, Request("Get", k, NoNode, 0, "handle"))

\* UpdateSequenceMapping; the mapping is what it was when it was read, and more.
UpdateEntry(n) ==
    /\ handle[n].has /\ handle[n].key = Mapping
    /\ Calls(n, Request("Update", Mapping, [NoNode EXCEPT !.count = handle[n].count + 1],
                        handle[n].handle, "update"))

DeleteEntry(n) ==
    /\ handle[n].has /\ handle[n].key \in Entry
    /\ Calls(n, Request("Delete", handle[n].key, NoNode, handle[n].handle, "delete"))

\* SetClusterConfig.
ForceSetEntry(n) ==
    Calls(n, Request("ForceSet", Config, [NoNode EXCEPT !.value = "config"], 0, "set"))

\* SetClusterNodeState.
ForceSetEntryWithTTL(n) ==
    Calls(n, Request("ForceSetWithTTL", States, [NoNode EXCEPT !.value = "state"], 0,
                        "set"))

\* One of the keys of CleanupOldEntries.
ForceDeleteKey(n, e) ==
    Calls(n, Request("ForceDelete", e, NoNode, 0, "delete"))

MaybeReject(n) == config[n] /\ estimate[n] >= Threshold

AddPendingEntry(n, e) ==
    IF MaybeReject(n)
    THEN /\ call[n] = NoCall
         /\ out' = [out EXCEPT ![n] = [NoOut EXCEPT !.status = "RESOURCE_EXHAUSTED"]]
         /\ UNCHANGED <<store, index, stats, call, handle, config, estimate, acked, lost>>
    ELSE Calls(n, Request("Create", e, [NoNode EXCEPT !.value = n], 0, "add"))

StartEtcdStatsFetch(n) ==
    Calls(n, Request("GetStoreStats", None, NoNode, 0, "stats"))

----------------------------------------------------------------------------
(* The answers. *)

Serve(a) ==
    /\ store' = a.store /\ index' = a.index /\ stats' = a.stats

Returned(n) == call' = [call EXCEPT ![n] = NoCall]

Waiting(n, for) == call[n] # NoCall /\ call[n].for = for

\* The server fails before or after it has carried the request out, and the
\* request is sent again.
FetchDoneUnavailable(n, applied) ==
    /\ call[n] # NoCall /\ lost < MaxLost
    /\ LET a == Served(call[n])
       IN  /\ applied => a.status = "OK"
           /\ IF applied THEN Serve(a) ELSE UNCHANGED <<store, index, stats>>
    /\ lost' = lost + 1
    /\ UNCHANGED <<call, handle, config, estimate, out, acked>>

GetRequestDone(n) ==
    /\ Waiting(n, "handle")
    /\ LET k == call[n].key
           a == Served(call[n])
       IN  handle' = IF a.status = "OK"
                     THEN [handle EXCEPT ![n] = [key |-> k, has |-> TRUE,
                              handle |-> HandleOf(a.node.modified), count |-> a.node.count,
                              seen |-> a.node.modified]]
                     ELSE handle
    /\ Returned(n)
    /\ UNCHANGED <<store, index, stats, config, estimate, out, acked, lost>>

\* The handle of the entry becomes the index of the update; after a failure
\* the callers give the entry up.
UpdateRequestDone(n) ==
    /\ Waiting(n, "update")
    /\ LET a == Served(call[n])
       IN  /\ Serve(a)
           /\ IF a.status = "OK"
              THEN /\ handle' = [handle EXCEPT ![n].handle = HandleOf(a.node.modified),
                                   ![n].count = a.node.count, ![n].seen = a.node.modified]
                   /\ acked' = acked + 1
              ELSE /\ handle' = [handle EXCEPT ![n] = NoHandle]
                   /\ UNCHANGED acked
    /\ Returned(n)
    /\ UNCHANGED <<config, estimate, out, lost>>

ForceSetRequestDone(n) ==
    /\ Waiting(n, "set")
    /\ Serve(Served(call[n]))
    /\ Returned(n)
    /\ UNCHANGED <<handle, config, estimate, out, acked, lost>>

DeleteDone(n) ==
    /\ Waiting(n, "delete")
    /\ Serve(Served(call[n]))
    /\ handle' = [handle EXCEPT ![n] = NoHandle]
    /\ Returned(n)
    /\ UNCHANGED <<config, estimate, out, acked, lost>>

\* The SCT of the entry that is there already.
SctOf(n, a) == a.node.value

\* AddPendingEntry goes on: the entry is read where it exists.
CreateRequestDone(n) ==
    /\ Waiting(n, "add")
    /\ LET a == Served(call[n])
       IN  /\ Serve(a)
           /\ IF a.status = "FAILED_PRECONDITION"
              THEN /\ call' = [call EXCEPT ![n] = Request("Get", @.key, NoNode, 0, "existing")]
                   /\ UNCHANGED out
              ELSE /\ out' = [out EXCEPT ![n] = [status |-> a.status, sct |-> n]]
                   /\ Returned(n)
    /\ UNCHANGED <<handle, config, estimate, acked, lost>>

\* It may have been cleaned up since.
ExistingDone(n) ==
    /\ Waiting(n, "existing")
    /\ LET a == Served(call[n])
       IN  out' = [out EXCEPT ![n] =
                      IF a.status = "OK" THEN [status |-> "ALREADY_EXISTS", sct |-> SctOf(n, a)]
                      ELSE [status |-> a.status, sct |-> None]]
    /\ Returned(n)
    /\ UNCHANGED <<store, index, stats, handle, config, estimate, acked, lost>>

CalculateNumEtcdEntries(counts) ==
    counts.createSuccess
      - (counts.deleteSuccess + counts.compareAndDeleteSuccess + counts.expireCount)

EtcdStatsFetchDone(n) ==
    /\ Waiting(n, "stats")
    /\ estimate' = [estimate EXCEPT ![n] = CalculateNumEtcdEntries(stats)]
    /\ Returned(n)
    /\ UNCHANGED <<store, index, stats, handle, config, out, acked, lost>>

\* The watch of the configuration; one that is deleted is kept.
OnClusterConfigUpdated(n) ==
    /\ store[Config] # NoNode /\ ~config[n]
    /\ config' = [config EXCEPT ![n] = TRUE]
    /\ UNCHANGED <<store, index, stats, call, handle, estimate, out, acked, lost>>

\* etcd: the time to live of a key is over.
Expire(k) ==
    /\ store[k].ttl /\ index < MaxIndex
    /\ store' = [store EXCEPT ![k] = NoNode]
    /\ index' = index + 1
    /\ stats' = Counted("expireCount")
    /\ UNCHANGED <<call, handle, config, estimate, out, acked, lost>>

Next ==
    \/ \E n \in Node, k \in Entry \cup {Mapping} : GetEntry(n, k)
    \/ \E n \in Node, e \in Entry : AddPendingEntry(n, e) \/ ForceDeleteKey(n, e)
    \/ \E n \in Node : \/ UpdateEntry(n) \/ DeleteEntry(n) \/ ForceSetEntry(n)
                       \/ ForceSetEntryWithTTL(n) \/ StartEtcdStatsFetch(n)
    \/ \E n \in Node, applied \in BOOLEAN : FetchDoneUnavailable(n, applied)
    \/ \E n \in Node : \/ GetRequestDone(n) \/ UpdateRequestDone(n) \/ ForceSetRequestDone(n)
                       \/ DeleteDone(n) \/ CreateRequestDone(n) \/ ExistingDone(n)
                       \/ EtcdStatsFetchDone(n) \/ OnClusterConfigUpdated(n)
    \/ \E k \in Key : Expire(k)

Spec == Init /\ [][Next]_vars

----------------------------------------------------------------------------

(***************************************************************************)
(* No update is lost: whatever two nodes read and write through handles,   *)
(* and however often a request is sent again, every update of the sequence *)
(* mapping that UpdateEntry reported as made is in the mapping.            *)
(***************************************************************************)
NoLostUpdate == acked <= store[Mapping].count

(***************************************************************************)
(* An update is refused only to protect another one: when UpdateEntry      *)
(* fails, the mapping has changed since the handle was taken (by whom may  *)
(* be the node itself, whose answer was lost).  The handle has to hold the *)
(* index: EntryHandleBase keeps the 64 bits in an int.                     *)
(***************************************************************************)
RefusedIsStale ==
    \A n \in Node :
       Waiting(n, "update") /\ call'[n] = NoCall /\ acked' = acked =>
          store[Mapping].modified > handle[n].seen

(***************************************************************************)
(* The SCT a submitter is given is the one in etcd: a node that finds the  *)
(* entry there, from another node or from an attempt of its own whose      *)
(* answer was lost, returns the SCT that was stored first.                 *)
(***************************************************************************)
SctIsStored ==
    \A n \in Node :
       out'[n] # out[n] /\ out'[n].status \in {"OK", "ALREADY_EXISTS"} =>
          out'[n].sct = store'[call[n].key].value

(***************************************************************************)
(* Submissions are not rejected for entries that are not there: the count  *)
(* a node takes from etcd's statistics is at most the number of keys etcd  *)
(* holds at that moment (CalculateNumEtcdEntries).                         *)
(***************************************************************************)
NeverOvercounts ==
    \A n \in Node :
       estimate'[n] # estimate[n] => estimate'[n] <= Cardinality(Keys(store))
=============================================================================
