------------------------------ MODULE LogServer ------------------------------
(***************************************************************************)
(* What a node answers over HTTP: LogLookup, which keeps the tree of the    *)
(* entries under the latest STH in memory, and the handlers of handler.cc   *)
(* and certificate_handler.cc that read it and the database.  The handlers  *)
(* run on the event thread; UpdateFromSTH runs on the thread that writes an *)
(* STH to the database, and add-chain goes on on the pool.                  *)
(*                                                                          *)
(* A leaf hash stands for its leaf, an audit path for the leaf and the tree *)
(* it leads from and to.  GetSTH returns a reference that outlives the lock:*)
(* what is read through it while CopyFrom clears and merges the new head is *)
(* the old field, the new one or the field's default.                       *)
(***************************************************************************)
EXTENDS Integers, Sequences, FiniteSets, FiniteSetsExt

CONSTANTS
    Request,
    Leaf,
    MaxLeaves,  \* bound on the entries
    MaxStamp,   \* bound on the STHs' timestamps
    MaxEntries  \* FLAGS_max_leaf_entries_per_response

VARIABLES
    db,         \* the entries of the database by sequence number
    tree,       \* cert_tree_: its leaves
    latest,     \* latest_tree_head_
    copying,    \* the STH that CopyFrom is copying to it under the lock; or None
    req,        \* each request: where its handler is, its arguments and locals
    replies     \* the replies each request got

serverVars == <<db, tree, latest, copying, req, replies>>

None == [none |-> TRUE]
AnySth == [size : 0..MaxLeaves, time : 0..MaxStamp]
Op == {"get-entries", "get-proof", "get-sth", "get-consistency", "add-chain"}
EventThread == {"start", "scan", "index", "path", "time", "wait"}

ServerTypeOK ==
    /\ db \in [0..(MaxLeaves - 1) -> Leaf \cup {None}]
    /\ tree \in Seq(Leaf) /\ Len(tree) <= MaxLeaves
    /\ latest \in AnySth /\ copying \in AnySth \cup {None}
    /\ \A r \in Request : req[r].at \in EventThread \cup {"idle", "pool", "sending", "done"}

ServerInit ==
    /\ db = [i \in 0..(MaxLeaves - 1) |-> None]
    /\ tree = <<>>
    /\ latest = [size |-> 0, time |-> 0]
    /\ copying = None
    /\ req = [r \in Request |-> [at |-> "idle"]]
    /\ replies = [r \in Request |-> <<>>]

Contiguous == CHOOSE n \in 0..MaxLeaves :
    /\ \A i \in 0..(n - 1) : db[i] # None
    /\ n < MaxLeaves => db[n] = None

-----------------------------------------------------------------------------
(* The database and LogLookup.                                             *)

\* Entries are fetched out of order, and never change.
Store(i, leaf) ==
    /\ db[i] = None
    /\ db' = [db EXCEPT ![i] = leaf]
    /\ UNCHANGED <<tree, latest, copying, req, replies>>

\* Mutant: an STH with a newer time is taken whatever its size.
IsOlderByTime(sth) == sth.time <= latest.time

\* "Database replied with an STH that is older than ours"
IsOlder(sth) == sth.time <= latest.time \/ sth.size < Len(tree)

\* The entries UpdateFromSTH scans and adds to the tree.
NewLeaves(sth) == [i \in 1..(sth.size - Len(tree)) |-> db[Len(tree) + i - 1]]

\* UpdateFromSTH up to CopyFrom, with the lock.  An STH is written to the database
\* when the entries under it are there.
UpdateFromSTH(sth) ==
    /\ copying = None
    /\ sth.size <= Contiguous
    /\ ~IsOlder(sth)
    /\ tree' = tree \o NewLeaves(sth)
    /\ copying' = sth
    /\ UNCHANGED <<db, latest, req, replies>>

CopyDone ==
    /\ copying # None
    /\ latest' = copying /\ copying' = None
    /\ UNCHANGED <<db, tree, req, replies>>

\* What reading a field of GetSTH()'s reference gives.
Sizes == IF copying = None THEN {latest.size} ELSE {latest.size, 0, copying.size}
Times == IF copying = None THEN {latest.time} ELSE {latest.time, 0, copying.time}

\* leaf_index_: "we just return the Merkle proof of the first occurrence"
GetIndexInternal(leaf) ==
    LET at == {i \in 1..Len(tree) : tree[i] = leaf} IN IF at = {} THEN -1 ELSE Min(at) - 1

\* PathToRootAtSnapshot, an empty path where the tree has none.
Path(index, snapshot) ==
    IF index + 1 > snapshot \/ snapshot > Len(tree) THEN None
    ELSE [leaf |-> tree[index + 1], size |-> snapshot]

-----------------------------------------------------------------------------
(* The handlers.                                                           *)

EventThreadFree == \A r \in Request : req[r].at \notin EventThread

Others == UNCHANGED <<db, tree, latest, copying>>

Reply(r, body) ==
    /\ replies' = [replies EXCEPT ![r] = Append(@, body)]
    /\ req' = [req EXCEPT ![r].at = "done"]
    /\ Others

GoOn(r, state) == req' = [req EXCEPT ![r] = state] /\ UNCHANGED replies /\ Others

BadRequest == [code |-> 400]

\* GetEntries: the parameters, -1 for one that is missing or not a number.
GetEntries(r, start, end) ==
    /\ req[r].at = "idle" /\ EventThreadFree
    /\ IF start < 0 \/ end < start THEN Reply(r, BadRequest)
       ELSE GoOn(r, [at |-> "scan", start |-> start, got |-> <<>>,
                     end |-> Min({end, start + MaxEntries})])

\* GetNextEntry and the check of its sequence number.
NextEntry(i) == IF i < MaxLeaves THEN db[i] ELSE None

\* One round of the loop of BlockingGetEntries, or its end.
BlockingGetEntries(r) ==
    /\ req[r].at = "scan"
    /\ LET i == req[r].start + Len(req[r].got)
           entry == IF i > req[r].end THEN None ELSE NextEntry(i)
       IN  IF entry # None
           THEN GoOn(r, [req[r] EXCEPT !.got = Append(@, entry)])
           ELSE IF req[r].got = <<>> THEN Reply(r, BadRequest)
           ELSE Reply(r, [code |-> 200, start |-> req[r].start, entries |-> req[r].got])

\* GetProof: the size is checked against the STH of the moment.
GetProof(r, leaf, treeSize) ==
    /\ req[r].at = "idle" /\ EventThreadFree
    /\ \E known \in Sizes :
           IF treeSize < 0 \/ treeSize > known THEN Reply(r, BadRequest)
           ELSE GoOn(r, [at |-> "index", leaf |-> leaf, size |-> treeSize])

\* AuditProof: GetIndex and the path are under the lock, each by itself.
GetIndex(r) ==
    /\ req[r].at = "index" /\ copying = None
    /\ LET index == GetIndexInternal(req[r].leaf)
       IN  IF index < 0 THEN Reply(r, BadRequest)
           ELSE GoOn(r, [at |-> "path", leaf |-> req[r].leaf, size |-> req[r].size,
                         index |-> index])

AuditProof(r) ==
    /\ req[r].at = "path" /\ copying = None
    /\ Reply(r, [code |-> 200, leaf |-> req[r].leaf, size |-> req[r].size,
                 index |-> req[r].index, path |-> Path(req[r].index, req[r].size)])

\* GetSTH: the lock is free when the reference is taken; the fields are read after.
GetSTH(r) ==
    /\ req[r].at = "idle" /\ EventThreadFree /\ copying = None
    /\ GoOn(r, [at |-> "time", size |-> latest.size])

GetSTHTime(r) ==
    /\ req[r].at = "time"
    /\ \E time \in Times, n \in Sizes \cup {req[r].size} :
           Reply(r, [code |-> 200, sth |-> [size |-> n, time |-> time]])

\* GetConsistency: nothing checks second against the tree; the proof is then empty.
GetConsistency(r, first, second) ==
    /\ req[r].at = "idle" /\ EventThreadFree
    /\ IF first < 0 \/ second < first THEN Reply(r, BadRequest)
       ELSE GoOn(r, [at |-> "wait", first |-> first, second |-> second])

ConsistencyProof(r) ==
    /\ req[r].at = "wait" /\ copying = None
    /\ LET f == req[r].first  s == req[r].second
       IN  Reply(r, [code |-> 200, first |-> f, second |-> s,
                     proof |-> IF f = 0 \/ f >= s \/ s > Len(tree) THEN None
                               ELSE <<SubSeq(tree, 1, f), SubSeq(tree, 1, s)>>])

\* A method other than the one the handler is for: "Method not allowed."
BadMethod(r) ==
    /\ req[r].at = "idle" /\ EventThreadFree
    /\ Reply(r, [code |-> 405])

GetRoots(r) ==
    /\ req[r].at = "idle" /\ EventThreadFree
    /\ Reply(r, [code |-> 200])

\* The bodies of add-chain: whether they are JSON, and which certificates parse.
Body == {[json |-> FALSE, certs |-> <<>>], [json |-> TRUE, certs |-> <<TRUE>>],
         [json |-> TRUE, certs |-> <<TRUE, FALSE>>]}

ExtractChain(body) == body.json /\ \A i \in DOMAIN body.certs : body.certs[i]

\* AddChain and AddPreChain: ExtractChain answers what it cannot parse.
AddChain(r, body) ==
    /\ req[r].at = "idle" /\ EventThreadFree
    /\ IF ExtractChain(body) THEN GoOn(r, [at |-> "pool"]) ELSE Reply(r, BadRequest)

AddEntryReply(status) ==
    CASE status \in {"OK", "ALREADY_EXISTS"} -> 200
      [] status = "RESOURCE_EXHAUSTED" -> 503
      [] OTHER -> 400

\* BlockingAddChain on the pool: the reply is left to the event thread.
BlockingAddChain(r, status) ==
    /\ req[r].at = "pool"
    /\ GoOn(r, [at |-> "sending", code |-> AddEntryReply(status)])

SendJsonReply(r) ==
    /\ req[r].at = "sending" /\ EventThreadFree
    /\ Reply(r, [code |-> req[r].code])

ServerNext ==
    \/ \E i \in 0..(MaxLeaves - 1), leaf \in Leaf : Store(i, leaf)
    \/ \E sth \in AnySth : UpdateFromSTH(sth)
    \/ CopyDone
    \/ \E r \in Request :
        \/ \E a \in {-1} \cup 0..MaxLeaves, b \in {-1} \cup 0..(MaxLeaves + 1) :
               GetEntries(r, a, b) \/ GetConsistency(r, a, b)
        \/ \E leaf \in Leaf, n \in {-1} \cup 0..(MaxLeaves + 1) : GetProof(r, leaf, n)
        \/ \E body \in Body : AddChain(r, body)
        \/ \E s \in {"OK", "ALREADY_EXISTS", "RESOURCE_EXHAUSTED", "INVALID_ARGUMENT"} :
               BlockingAddChain(r, s)
        \/ BlockingGetEntries(r) \/ GetIndex(r) \/ AuditProof(r) \/ GetSTH(r)
        \/ GetSTHTime(r) \/ ConsistencyProof(r) \/ SendJsonReply(r)
        \/ BadMethod(r) \/ GetRoots(r)

ServerSpec == ServerInit /\ [][ServerNext]_serverVars

-----------------------------------------------------------------------------
(* Properties.                                                             *)

Replies == UNION {{replies[r][i] : i \in 1..Len(replies[r])} : r \in Request}
Has(x, f) == f \in DOMAIN x

\* A request is answered once, on every path through its handler.
AnsweredOnce ==
    \A r \in Request : Len(replies[r]) = (IF req[r].at = "done" THEN 1 ELSE 0)

\* The in-memory tree is what the database holds, and covers the head that is given
\* out: sizes accepted from a reader of the head are sizes the tree can prove.
TreeCoversHead ==
    /\ latest.size <= Len(tree)
    /\ \A i \in 1..Len(tree) : db[i - 1] = tree[i]

\* A proof is for the leaf and the size asked for: whenever the leaf is among the
\* first `size' leaves the path leads from it to that root, although the index, the
\* path and the size check are taken at three different moments.
ProofFits ==
    \A x \in Replies :
        Has(x, "path") /\ (\E i \in 1..x.size : i <= Len(tree) /\ tree[i] = x.leaf)
            => x.path = [leaf |-> x.leaf, size |-> x.size] /\ x.index < x.size

\* get-entries returns the entries with consecutive numbers from start on, whatever
\* is written meanwhile and whatever gaps the database has.
EntriesInOrder ==
    \A x \in Replies : Has(x, "entries") =>
        \A i \in 1..Len(x.entries) :
            x.start + i - 1 < MaxLeaves /\ x.entries[i] = db[x.start + i - 1]

\* The tree that proofs are made from only grows.
OnlyGrows ==
    Len(tree') >= Len(tree) /\ latest'.size >= latest.size
=============================================================================
