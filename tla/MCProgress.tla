----------------------------- MODULE MCProgress -----------------------------
(***************************************************************************)
(* What eventually happens in the parts of the server and of its tools, on *)
(* small instances.  A behaviour is one of one part, which `part' names;   *)
(* the part's variables are the first of v1 to v14 and the others are      *)
(* unused.                                                                 *)
(***************************************************************************)
EXTENDS Integers, Sequences, FiniteSets

CONSTANTS m1, m2, m3  \* model values: nodes, threads, keys or requests

VARIABLES part, v1, v2, v3, v4, v5, v6, v7, v8, v9, v10, v11, v12, v13, v14

vars == <<part, v1, v2, v3, v4, v5, v6, v7, v8, v9, v10, v11, v12, v13, v14>>

rest14 == <<part>>
rest13 == <<v14, rest14>>
rest12 == <<v13, rest13>>
rest11 == <<v12, rest12>>
rest10 == <<v11, rest11>>
rest9 == <<v10, rest10>>
rest8 == <<v9, rest9>>
rest7 == <<v8, rest8>>
rest6 == <<v7, rest7>>
rest5 == <<v6, rest6>>

Blank13 == v14 = "unused"
Blank12 == v13 = "unused" /\ Blank13
Blank11 == v12 = "unused" /\ Blank12
Blank10 == v11 = "unused" /\ Blank11
Blank9 == v10 = "unused" /\ Blank10
Blank8 == v9 = "unused" /\ Blank9
Blank7 == v8 = "unused" /\ Blank8
Blank6 == v7 = "unused" /\ Blank7
Blank5 == v6 = "unused" /\ Blank6

-----------------------------------------------------------------------------

Cluster == INSTANCE ServingSth WITH
    Node <- {m1}, MaxSize <- 2, MaxTime <- 3, MaxFaults <- 1,
    MinServingNodes <- 1, FractionNum <- 1, FractionDen <- 2,
    Handover <- FALSE, LateConfig <- TRUE, served <- v1, announced <- v2,
    size <- v3, newest <- v4, joined <- v5, configured <- v6, stored <- v7,
    calculated <- v8, required <- v9, updating <- v10, awaited <- v11,
    master <- v12, faults <- v13, checkFailed <- v14

Heads == INSTANCE TreeHeads WITH
    MaxSize <- 2, MaxTime <- 3, MaxRestarts <- 1, served <- v1, size <- v2,
    heads <- v3, newest <- v4, starting <- v5, joined <- v6, actual <- v7,
    writing <- v8, restarts <- v9, checkFailed <- v10

Task == INSTANCE Tasks WITH
    Child <- {m1}, Worker <- {m1, m2}, MaxCallbacks <- 1, MaxCancels <- 1,
    task <- v1, todo <- v2, posted <- v3, notified <- v4, destroyed <- v5,
    callee <- v6, cancels <- v7, aborted <- v8

Pool == INSTANCE ThreadPool WITH
    Worker <- {m1, m2}, Job <- {m1, m2}, MaxClock <- 3, clock <- v1, queue <- v2,
    worker <- v3, job <- v4, pool <- v5

Fetch == INSTANCE Fetcher WITH
    Peer <- {m1}, MaxTree <- 3, BatchSize <- 2, Concurrent <- 2,
    MaxFetchErrors <- 1, BadSct <- {}, db <- v1, peerTree <- v2, remoteSize <- v3,
    start <- v4, range <- v5, requests <- v6, returned <- v7, walkers <- v8,
    stuck <- v9, task <- v10, cancelRequested <- v11, fetchErrors <- v12

Cont == INSTANCE ContinuousFetcher WITH
    Node <- {m1, m2}, MaxSize <- 2, MaxChanges <- 3, MaxErrors <- 1,
    peers <- v1, peerSize <- v2, local <- v3, fetch <- v4, restart <- v5,
    closures <- v6, delays <- v7, changes <- v8, errors <- v9

Watch == INSTANCE EtcdWatch WITH
    Key <- {m1, m2}, History <- 2, MaxIndex <- 4, MaxFailures <- 1, snaps <- v1,
    phase <- v2, asked <- v3, highest <- v4, known <- v5, view <- v6,
    cancelled <- v7, failures <- v8

Client == INSTANCE EtcdClient WITH
    Server <- {"s", "t", "u"}, Configured <- <<"s", "t">>, Request <- {m1, m2},
    MaxFaults <- 1, etcds <- v1, logged <- v2, versions <- v3, req <- v4,
    key <- v5, up <- v6, leader <- v7, faults <- v8, client <- v9

Proxy == INSTANCE Proxying WITH
    Node <- {m1, m2}, MaxSize <- 2, serving <- v1, known <- v2, size <- v3,
    newest <- v4, seen <- v5, isStale <- v6, checked <- v7, request <- v8

Http == INSTANCE HttpClient WITH
    Request <- {m1, m2}, Connection <- {m1, m2}, Host <- {m3}, MaxUnused <- 1,
    fetch <- v1, opened <- v2, conns <- v3, sweeper <- v4, scheduled <- v5,
    closures <- v6, finishing <- v7, fatal <- v8

Copy == INSTANCE Mirror WITH
    MaxTarget <- 1, MaxSigned <- 2, MaxPollErrors <- 1, Wrong <- FALSE, target <- v1,
    stopped <- v2, polling <- v3, answer <- v4, remoteSth <- v5, queued <- v6,
    treeSize <- v7, lookup <- v8, updater <- v9, passed <- v10,
    refused <- v11, pollErrors <- v12

-----------------------------------------------------------------------------

Init ==
    \/ part = "serving" /\ Cluster!Init
    \/ part = "heads" /\ Heads!Init /\ Blank10
    \/ part = "tasks" /\ Task!Init /\ Blank8
    \/ part = "pool" /\ Pool!PoolInit /\ Blank5
    \/ part = "fetcher" /\ Fetch!FetchInit /\ Blank12
    \/ part = "continuous" /\ Cont!Init /\ Blank9
    \/ part = "watch" /\ Watch!WatchInit /\ Blank8
    \/ part = "client" /\ Client!Init /\ Blank9
    \/ part = "proxy" /\ Proxy!Init /\ Blank8
    \/ part = "http" /\ Http!Init /\ Blank8
    \/ part = "mirror" /\ Copy!MirrorInit /\ Blank12

Next ==
    \/ part = "serving" /\ Cluster!Next /\ UNCHANGED rest14
    \/ part = "heads" /\ Heads!Next /\ UNCHANGED rest10
    \/ part = "tasks" /\ Task!Next /\ UNCHANGED rest8
    \/ part = "pool" /\ Pool!PoolNext /\ UNCHANGED rest5
    \/ part = "fetcher" /\ Fetch!FetchNext /\ UNCHANGED rest12
    \/ part = "continuous" /\ Cont!Next /\ UNCHANGED rest9
    \/ part = "watch" /\ Watch!WatchNext /\ UNCHANGED rest8
    \/ part = "client" /\ Client!Next /\ UNCHANGED rest9
    \/ part = "proxy" /\ Proxy!Next /\ UNCHANGED rest8
    \/ part = "http" /\ Http!Next /\ UNCHANGED rest8
    \/ part = "mirror" /\ Copy!MirrorNext /\ UNCHANGED rest12

(***************************************************************************)
(* The fairness each part is given, why, and its conditions by number.     *)
(* `part' never changes: fairness of the disjunction of the conditions of  *)
(* one number is the fairness of each.                                     *)
(*                                                                         *)
(* Threads run, executors run what they are given, timers fire, watches    *)
(* deliver, requests to a server end in some way.  Of the users of a part  *)
(* only what they owe it is assumed: the callee of a task and its children *)
(* return, the database of a node is completed.  Nothing is assumed of     *)
(* faults, restarts, cancellations, new entries or peers.                  *)
(***************************************************************************)
Weak(i) ==
    \/ /\ part = "serving" /\ UNCHANGED rest14
       /\ \/ i = 1 /\ Cluster!CreateSequencedEntry(m1)
          \/ i = 2 /\ Cluster!SignMerkleTree(m1)
          \/ i = 3 /\ Cluster!SeesAll(m1)
          \/ i = 4 /\ Cluster!UpdaterTake(m1)
          \/ i = 5 /\ Cluster!SetServingSTH(m1)
          \/ i = 6 /\ Cluster!OnEtcdServingSTHUpdated(m1)
    \/ /\ part = "heads" /\ UNCHANGED rest10
       /\ \/ i = 1 /\ Heads!CreateSequencedEntry
          \/ i = 2 /\ Heads!Initialise
          \/ i = 3 /\ Heads!SignMerkleTree
          \/ i = 4 /\ Heads!OnServingSthUpdated
          \/ i = 5 /\ Heads!WriteTreeHead("signer")
          \/ i = 6 /\ Heads!WriteTreeHead("watch")
    \/ /\ part = "tasks" /\ UNCHANGED rest8
       /\ \/ i = 1 /\ Task!CalleeReturn
          \/ i = 2 /\ Task!CalleeRelease
          \/ i = 3 /\ Task!Run(Task!Callee)
          \/ i = 4 /\ Task!Run(Task!Caller)
          \/ i = 5 /\ Task!Run(m1)
          \/ i = 6 /\ Task!Run(m2)
          \/ i = 7 /\ Task!Take(m1)
          \/ i = 8 /\ Task!Take(m2)
          \/ i = 9 /\ Task!ChildReturn(m1)
    \/ /\ part = "pool" /\ UNCHANGED rest5
       /\ \/ i = 1 /\ Pool!Tick
          \/ i = 2 /\ Pool!Join
          \/ i = 3 /\ Pool!Work(m1)
          \/ i = 4 /\ Pool!Work(m2)
    \/ /\ part = "fetcher" /\ UNCHANGED rest12
       /\ \/ i = 1 /\ Fetch!WalkEntries
          \/ i = 2 /\ Fetch!WalkEntriesLocked
          \/ i = 3 /\ Fetch!Respond
    \/ /\ part = "continuous" /\ UNCHANGED rest9
       /\ \/ i = 1 /\ Cont!FetchDone
          \/ i = 2 /\ Cont!FetchDelayDone
          \/ i = 3 /\ Cont!Progress
          \/ i = 4 /\ Cont!Returns
    \/ part = "watch" /\ UNCHANGED rest8 /\ i = 1 /\ Watch!Client
    \/ /\ part = "client" /\ UNCHANGED rest9
       /\ \/ i = 1 /\ Client!VersionDone
          \/ i = 2 /\ ~Client!Ended(m1) /\ Client!Step(m1)
          \/ i = 3 /\ ~Client!Ended(m2) /\ Client!Step(m2)
    \/ /\ part = "proxy" /\ UNCHANGED rest8
       /\ \/ i = 1 /\ Proxy!Learn(m1)
          \/ i = 2 /\ Proxy!Learn(m2)
          \/ i = 3 /\ Proxy!UpdateNodeStaleness(m1)
          \/ i = 4 /\ Proxy!UpdateNodeStaleness(m2)
          \/ i = 5 /\ Proxy!ProxyInterceptor
          \/ i = 6 /\ Proxy!ProxyRequest
    \/ /\ part = "http" /\ UNCHANGED rest8
       /\ \/ i = 1 /\ Http!RunAny(m1)
          \/ i = 2 /\ Http!RunAny(m2)
          \/ i = 3 /\ Http!ConnectionFinishedHook(m1)
          \/ i = 4 /\ Http!ConnectionFinishedHook(m2)
          \/ i = 5 /\ Http!Cleanup
          \/ i = 6 /\ Http!GetRest(m2)
          \/ i = 7 /\ Http!Orphaned(m1)
          \/ i = 8 /\ Http!Orphaned(m2)
    \/ /\ part = "mirror" /\ UNCHANGED rest12
       /\ \/ i = 1 /\ Copy!FetchSTH
          \/ i = 2 /\ Copy!FetchEntry
          \/ i = 3 /\ Copy!Wake
          \/ i = 4 /\ Copy!Lock
          \/ i = 5 /\ Copy!Update
          \/ i = 6 /\ Copy!UpdaterSleeps

\* Where a mutex is contended, a thread that others keep busy is shared, or a
\* server answers with its newest head again and again.
Strong(i) ==
    \/ /\ part = "http" /\ UNCHANGED rest8
       /\ \/ i = 1 /\ (Http!Get(m1) \/ Http!GetRest(m1))
          \/ i = 2 /\ Http!Settle(m1)
    \/ /\ part = "mirror" /\ UNCHANGED rest12
       /\ \/ i = 1 /\ Copy!AnswerNewest
          \/ i = 2 /\ Copy!DoneGetSTH

Spec ==
    /\ Init /\ [][Next]_vars
    /\ \A i \in 1..9 : WF_vars(Weak(i))
    /\ \A i \in 1..2 : SF_vars(Strong(i))

-----------------------------------------------------------------------------
(* Properties. *)

TypeOK ==
    /\ part = "serving" => Cluster!TypeOK
    /\ part = "heads" => Heads!TypeOK

(***************************************************************************)
(* No CHECK fails: in UpdateLocalServingSTH and SetServingSTH, the store   *)
(* is never asked to serve a smaller tree; in NewTreeHead,                 *)
(* OnServingSthUpdated and WriteTreeHead, in any order of the two writers  *)
(* and after a restart, the database is never ahead of the serving STH     *)
(* that the watch delivers.                                                *)
(***************************************************************************)
NoCheckFails ==
    /\ part = "serving" => Cluster!NoCheckFails
    /\ part = "heads" => Heads!NoCheckFails

(***************************************************************************)
(* A node never stores, and so never returns from get-sth, the head of a   *)
(* tree of which it lacks entries, although entries, new trees and serving *)
(* STHs reach it in any order (cluster_state_controller.cc).               *)
(***************************************************************************)
HeadsAreServable == part = "heads" => Heads!HeadsAreServable

(***************************************************************************)
(* Only heads that were the cluster's serving STH are in the database: a   *)
(* locally signed head is not stored unless the cluster has chosen it.     *)
(***************************************************************************)
OnlyServedHeads == part = "heads" => Heads!OnlyServedHeads

(***************************************************************************)
(* The serving tree grows to the whole log, unless the clock bound is      *)
(* reached first: a failed or refused update is repeated.                  *)
(***************************************************************************)
ServingGrows == []<>(part = "serving" => Cluster!Grown)

(***************************************************************************)
(* The database ends up with the serving STH as its latest tree head.      *)
(***************************************************************************)
HeadsCatchUp == <>[](part = "heads" => Heads!UpToDate)

(***************************************************************************)
(* Work ends.  A task whose callee and children return is reported done,   *)
(* in every order of cancellation, callbacks, children and holds           *)
(* (util/task.cc).  Every job a pool was given is run, or cancelled by the *)
(* destructor (util/thread_pool.cc).                                       *)
(***************************************************************************)
WorkEnds ==
    /\ []<>(part = "tasks" => Task!Waited)
    /\ []<>(part = "pool" => Pool!NoneWaits)

(***************************************************************************)
(* Nodes follow etcd.  The view of a watch's receiver follows the          *)
(* directory until it is cancelled; as long as one server of the list is   *)
(* up every request is answered, whichever others are down and however the *)
(* retries of several requests rotate the list between them (etcd.cc).     *)
(***************************************************************************)
EtcdFollows ==
    /\ []<>(part = "watch" => Watch!Current)
    /\ <>[](part = "client" => Client!Reachable) =>
          \A r \in {m1, m2} : []<>(part = "client" => Client!Ended(r))

(***************************************************************************)
(* Entries are replicated.  Every fetch ends, whatever fails, if its SCTs  *)
(* are good (fetcher.cc); the local tree reaches the size of every peer    *)
(* that stays (continuous_fetcher.cc); a mirror of a target whose heads    *)
(* are right passes on a head of the size of the target's tree             *)
(* (ct-mirror.cc, remote_peer.cc).                                         *)
(***************************************************************************)
Replicates ==
    /\ []<>(part = "fetcher" => Fetch!Done)
    /\ \A n \in {m1, m2} : <>[](part = "continuous" => Cont!Stays(n)) =>
                             []<>(part = "continuous" => Cont!CaughtUp(n))
    /\ []<>(part = "mirror" => Copy!MirrorCaughtUp)

(***************************************************************************)
(* Requests end.  One that goes from node to node, each with a flag that   *)
(* is out of date, is answered in the end (proxy.cc); one that is made to  *)
(* another server ends, with an error at the latest when its connection    *)
(* fails or times out, unless the process died (url_fetcher.cc).           *)
(***************************************************************************)
RequestsEnd ==
    /\ []<>(part = "proxy" => Proxy!Answered)
    /\ []<>(part = "http" => Http!Ended(m1))
=============================================================================
