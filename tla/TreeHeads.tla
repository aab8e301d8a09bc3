------------------------------ MODULE TreeHeads ------------------------------
(***************************************************************************)
(* How the serving STH gets into the database of one node, from where the  *)
(* node answers get-sth and up to where it serves entries and proofs.      *)
(*                                                                         *)
(* Two threads write tree heads: the signer, when its new tree is the      *)
(* first to cover the serving STH (ClusterStateController::NewTreeHead),   *)
(* and the watch of /serving_sth (OnServingSthUpdated), when the entries   *)
(* are there already. Both choose the head under mutex_ and write it after *)
(* releasing the mutex, so the writes may be in any order.                 *)
(*                                                                         *)
(* The serving STH itself changes as ServingHead promises.                 *)
(***************************************************************************)
EXTENDS ServingHead

CONSTANT MaxRestarts         \* bound

VARIABLES
    size,        \* Database::TreeSize
    heads,       \* the tree heads in the database
    newest,      \* local_node_state_.newest_sth
    starting,    \* Server::Initialise has not finished
    joined,      \* position in served when the process started
    actual,      \* actual_serving_sth_: position in served
    writing,     \* heads to write once mutex_ is released, per thread
    restarts,    \* restarts so far
    checkFailed  \* history: a CHECK has killed the process

vars == <<served, size, heads, newest, starting, joined, actual, writing, restarts, checkFailed>>

Thread == {"signer", "watch"}
Nothing == [t \in Thread |-> NoSth]

TypeOK ==
    /\ served \in Seq(Sth)
    /\ size \in 0 .. MaxSize
    /\ heads \in SUBSET Sth
    /\ newest \in Sth \cup {NoSth}
    /\ starting \in BOOLEAN
    /\ joined \in 0 .. Len(served)
    /\ actual \in 0 .. Len(served)
    /\ writing \in [Thread -> Sth \cup {NoSth}]
    /\ restarts \in 0 .. MaxRestarts
    /\ checkFailed \in BOOLEAN

Init ==
    /\ HeadInit
    /\ size = 0
    /\ heads = {}
    /\ newest = NoSth
    /\ starting = TRUE
    /\ joined = 0
    /\ actual = 0
    /\ writing = Nothing
    /\ restarts = 0
    /\ checkFailed = FALSE

ActualSth == ServedAt(actual)

(* Database::LatestTreeHead: the head with the highest timestamp. *)
LatestTreeHead ==
    IF heads = {} THEN NoSth ELSE CHOOSE h \in heads : \A g \in heads : g.time <= h.time

(* The cluster serves another head (ServingSth). *)
ServingChanges ==
    /\ HeadNext
    /\ UNCHANGED <<size, heads, newest, starting, joined, actual, writing, restarts, checkFailed>>

(* The next entry arrives in the database, by sequencing or fetching. *)
CreateSequencedEntry ==
    /\ size < MaxSize
    /\ size' = size + 1
    /\ UNCHANGED <<served, heads, newest, starting, joined, actual, writing, restarts, checkFailed>>

(* Mutant: the process waits for a version that does not exist yet. *)
RebootAhead ==
    /\ newest' = NoSth
    /\ starting' = TRUE
    /\ joined' = Len(served) + 1
    /\ actual' = 0
    /\ writing' = Nothing
    /\ UNCHANGED <<served, size, heads>>

(* The process ends and starts again. *)
Reboot ==
    /\ newest' = NoSth
    /\ starting' = TRUE
    /\ joined' = Len(served)
    /\ actual' = 0
    /\ writing' = Nothing
    /\ UNCHANGED <<served, size, heads>>

Restart ==
    /\ restarts < MaxRestarts
    /\ restarts' = restarts + 1
    /\ Reboot
    /\ UNCHANGED checkFailed

(* A CHECK does not hold. *)
Die == Reboot /\ checkFailed' = TRUE /\ UNCHANGED restarts

(* Mutant: the new tree has to be larger than the serving one. *)
EnablesServingLater(sth) ==
    /\ actual > 0
    /\ LatestTreeHead.size <= ActualSth.size
    /\ LatestTreeHead.time < ActualSth.time
    /\ sth.size > ActualSth.size

(***************************************************************************)
(* NewTreeHead's write_sth: the database is behind the serving STH, and    *)
(* the new tree covers it.                                                 *)
(***************************************************************************)
EnablesServing(sth) ==
    /\ actual > 0
    /\ LatestTreeHead.size <= ActualSth.size
    /\ LatestTreeHead.time < ActualSth.time
    /\ sth.size >= ActualSth.size

(* Mutant: the new head is written instead of the serving STH. *)
NewTreeHeadLocal(sth) ==
    IF sth.time < newest.time THEN Die
    ELSE /\ newest' = sth
         /\ starting' = FALSE
         /\ writing' = [writing EXCEPT !["signer"] =
                          IF EnablesServing(sth) THEN sth ELSE NoSth]
         /\ UNCHANGED <<served, size, heads, joined, actual, restarts, checkFailed>>

(* NewTreeHead up to the release of mutex_. *)
NewTreeHead(sth) ==
    IF sth.time < newest.time THEN Die
    ELSE /\ newest' = sth
         /\ starting' = FALSE
         /\ writing' = [writing EXCEPT !["signer"] =
                          IF EnablesServing(sth) THEN ActualSth ELSE NoSth]
         /\ UNCHANGED <<served, size, heads, joined, actual, restarts, checkFailed>>

(***************************************************************************)
(* Server::Initialise, after it has created the controller: the latest     *)
(* head of the database, if there is one, is the node's newest.            *)
(***************************************************************************)
Initialise ==
    /\ starting
    /\ IF heads # {} THEN NewTreeHead(LatestTreeHead)
       ELSE /\ starting' = FALSE
            /\ UNCHANGED <<served, size, heads, newest, joined, actual, writing,
                           restarts, checkFailed>>

(***************************************************************************)
(* SignMerkleTree: UpdateTree signs what is in the database and passes the *)
(* head to NewTreeHead. The signer is started after WaitForReplication.    *)
(***************************************************************************)
SignMerkleTree ==
    /\ ~starting
    /\ size >= ServedAt(joined).size
    /\ writing["signer"] = NoSth
    /\ \E time \in Timestamps(newest) : NewTreeHead([size |-> size, time |-> time])

(* "Either this STH is identical to the latest one we have in the DB, or     *)
(* it's strictly newer".                                                      *)
FollowsDatabase(sth) ==
    IF LatestTreeHead.time = sth.time THEN sth.size = LatestTreeHead.size
    ELSE sth.time > LatestTreeHead.time /\ sth.size >= LatestTreeHead.size

(* Mutant: the entries are not looked at. *)
CanBeWrittenBlindly(sth) == LatestTreeHead.time # sth.time

(* OnServingSthUpdated's write_sth: not in the database, but its entries are. *)
CanBeWritten(sth) == LatestTreeHead.time # sth.time /\ size >= sth.size

(* Mutant: after a restart the watch starts from the first serving STH. *)
OnServingSthReplayed ==
    /\ writing["watch"] = NoSth
    /\ \E p \in actual + 1 .. Len(served) :
         IF ~FollowsDatabase(served[p]) THEN Die
         ELSE /\ actual' = p
              /\ writing' = [writing EXCEPT !["watch"] =
                               IF CanBeWritten(served[p]) THEN served[p] ELSE NoSth]
              /\ UNCHANGED <<served, size, heads, newest, starting, joined,
                             restarts, checkFailed>>

(***************************************************************************)
(* OnServingSthUpdated up to the release of mutex_. A process first gets   *)
(* the serving STH at its start, or a later one; a watch may skip values.  *)
(***************************************************************************)
OnServingSthUpdated ==
    /\ writing["watch"] = NoSth
    /\ \E p \in actual + 1 .. Len(served) :
         /\ p >= joined
         /\ IF ~FollowsDatabase(served[p]) THEN Die
            ELSE /\ actual' = p
                 /\ writing' = [writing EXCEPT !["watch"] =
                                  IF CanBeWritten(served[p]) THEN served[p] ELSE NoSth]
                 /\ UNCHANGED <<served, size, heads, newest, starting, joined,
                                restarts, checkFailed>>

(***************************************************************************)
(* Database::WriteTreeHead by one of the threads: the same head again is   *)
(* accepted, another one with the same timestamp is not, and CHECKed.      *)
(***************************************************************************)
WriteTreeHead(thread) ==
    LET sth == writing[thread]
    IN  /\ sth # NoSth
        /\ IF \E h \in heads : h.time = sth.time /\ h # sth THEN Die
           ELSE /\ heads' = heads \cup {sth}
                /\ writing' = [writing EXCEPT ![thread] = NoSth]
                /\ UNCHANGED <<served, size, newest, starting, joined, actual, restarts, checkFailed>>

Next ==
    \/ ServingChanges \/ CreateSequencedEntry \/ Restart
    \/ Initialise \/ SignMerkleTree \/ OnServingSthUpdated
    \/ \E thread \in Thread : WriteTreeHead(thread)

Spec == Init /\ [][Next]_vars

-----------------------------------------------------------------------------
(***************************************************************************)
(* A node never stores, and so never returns from get-sth, the head of a   *)
(* tree of which it lacks entries, although entries, new trees and serving *)
(* STHs reach it in any order.                                             *)
(***************************************************************************)
HeadsAreServable == \A h \in heads : h.size <= size

(***************************************************************************)
(* Only heads that were the cluster's serving STH are in the database: a   *)
(* locally signed head is not stored unless the cluster has chosen it.     *)
(***************************************************************************)
OnlyServedHeads == \A h \in heads : \E p \in 1 .. Len(served) : served[p] = h

(***************************************************************************)
(* No CHECK of NewTreeHead, OnServingSthUpdated or WriteTreeHead fails: in *)
(* any order of the two writers, and after a restart, the database is      *)
(* never ahead of the serving STH that the watch delivers.                 *)
(***************************************************************************)
NoCheckFails == ~checkFailed

\* The latest tree head of the database is the serving STH.
UpToDate == LatestTreeHead = Serving
=============================================================================
