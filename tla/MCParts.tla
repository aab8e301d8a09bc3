------------------------------ MODULE MCParts ------------------------------
(***************************************************************************)
(* The parts of the server and of its tools that keep their state to       *)
(* themselves, on small instances.  A behaviour is one of one part, which  *)
(* `part' names; the part's variables are the first of v1 to v12 and the   *)
(* others are unused.                                                      *)
(***************************************************************************)
EXTENDS Integers, Sequences, TLC

CONSTANTS m1, m2, m3, m4  \* model values: nodes, threads, keys or requests

VARIABLES part, v1, v2, v3, v4, v5, v6, v7, v8, v9, v10, v11, v12

Sym == Permutations({m1, m2})

vars == <<part, v1, v2, v3, v4, v5, v6, v7, v8, v9, v10, v11, v12>>

rest12 == <<part>>
rest11 == <<v12, rest12>>
rest10 == <<v11, rest11>>
rest9 == <<v10, rest10>>
rest8 == <<v9, rest9>>
rest7 == <<v8, rest8>>
rest6 == <<v7, rest7>>
rest5 == <<v6, rest6>>
rest4 == <<v5, rest5>>
rest3 == <<v4, rest4>>
rest2 == <<v3, rest3>>

Blank11 == v12 = "unused"
Blank10 == v11 = "unused" /\ Blank11
Blank9 == v10 = "unused" /\ Blank10
Blank8 == v9 = "unused" /\ Blank9
Blank7 == v8 = "unused" /\ Blank8
Blank6 == v7 = "unused" /\ Blank7
Blank5 == v6 = "unused" /\ Blank6
Blank4 == v5 = "unused" /\ Blank5
Blank3 == v4 = "unused" /\ Blank4
Blank2 == v3 = "unused" /\ Blank3

\* Byte strings for Encoding: empty, short, with a zero, too long for a length of
\* one byte.
Strings == {<<>>, <<1>>, <<1, 0>>, <<0, 0, 0, 0>>}

\* The certificates that chains are made of: two roots of one name, an
\* intermediate and one that is no CA, two precertificate signing certificates,
\* a leaf, and precertificates that are right or wrong in one way each.
Certificate(name, key, issuer, signedBy, exts, akid) ==
    [name |-> name, key |-> key, issuer |-> issuer, signedBy |-> signedBy,
     exts |-> exts, akid |-> akid, critical |-> TRUE, weak |-> FALSE]
Root == Certificate("R", "r", "R", "r", <<>>, "none")
OtherRoot == Certificate("R", "r2", "R", "r2", <<"ca">>, "none")
Intermediate == Certificate("I", "i", "R", "r", <<"akid", "ca">>, "r")
PreIssuer == Certificate("P", "p", "I", "i", <<"ca", "eku", "akid">>, "i")
Certs ==
    {Root, OtherRoot, Intermediate, PreIssuer,
     Certificate("I", "i", "R", "r", <<"akid">>, "r"),
     Certificate("P", "p", "I", "i", <<"eku", "ca">>, "none"),
     Certificate("L", "l", "I", "i", <<"akid">>, "i"),
     Certificate("L", "l", "I", "i", <<"poison", "akid">>, "i"),
     Certificate("L", "l", "P", "p", <<"san", "poison", "akid">>, "p"),
     Certificate("L", "l", "P", "p", <<"poison", "akid">>, "p"),
     Certificate("L", "l", "P", "p", <<"poison">>, "none"),
     Certificate("L", "l", "I", "i", <<"poison", "akid", "poison">>, "i"),
     [Certificate("L", "l", "I", "i", <<"poison">>, "i") EXCEPT !.critical = FALSE],
     [Certificate("W", "w", "R", "r", <<"ca">>, "none") EXCEPT !.weak = TRUE]}

----------------------------------------------------------------------------

Task == INSTANCE Tasks WITH
    Child <- {m3, m4}, Worker <- {m1, m2}, MaxCallbacks <- 1, MaxCancels <- 1,
    task <- v1, todo <- v2, posted <- v3, notified <- v4, destroyed <- v5,
    callee <- v6, cancels <- v7, aborted <- v8

Pool == INSTANCE ThreadPool WITH
    Worker <- {m1, m2}, Job <- {m1, m2, m3}, MaxClock <- 3, clock <- v1,
    queue <- v2, worker <- v3, job <- v4, pool <- v5

Fetch == INSTANCE Fetcher WITH
    Peer <- {m1, m2}, MaxTree <- 4, BatchSize <- 2, Concurrent <- 2,
    MaxFetchErrors <- 1, BadSct <- {2}, db <- v1, peerTree <- v2, remoteSize <- v3,
    start <- v4, range <- v5, requests <- v6, returned <- v7, walkers <- v8,
    stuck <- v9, task <- v10, cancelRequested <- v11, fetchErrors <- v12

Cont == INSTANCE ContinuousFetcher WITH
    Node <- {m1, m2}, MaxSize <- 2, MaxChanges <- 4, MaxErrors <- 1,
    peers <- v1, peerSize <- v2, local <- v3, fetch <- v4, restart <- v5,
    closures <- v6, delays <- v7, changes <- v8, errors <- v9

Watch == INSTANCE EtcdWatch WITH
    Key <- {m1, m2}, History <- 2, MaxIndex <- 5, MaxFailures <- 1, snaps <- v1,
    phase <- v2, asked <- v3, highest <- v4, known <- v5, view <- v6,
    cancelled <- v7, failures <- v8

Client == INSTANCE EtcdClient WITH
    Server <- {"s", "t", "u"}, Configured <- <<"s", "t">>, Request <- {m1, m2},
    MaxFaults <- 2, etcds <- v1, logged <- v2, versions <- v3, req <- v4,
    key <- v5, up <- v6, leader <- v7, faults <- v8, client <- v9

Fake == INSTANCE FakeEtcd WITH
    Key <- {m3}, Watcher <- {m3, m4}, Thread <- {m3}, MaxIndex <- 3,
    entries <- v1, ttl <- v2, overdue <- v3, index <- v4, poll <- v5,
    watch <- v6, callbacks <- v7, runners <- v8, running <- v9, view <- v10

Merkle == INSTANCE MerkleTrees WITH
    MaxLeaves <- 7, tree <- v1, compact <- v2

Sparse == INSTANCE SparseTree WITH
    Bits <- 3, IndexBits <- 3, Value <- {"x", "y"}, MaxSets <- 4, nodes <- v1,
    rootHash <- v2, values <- v3, sets <- v4

Server == INSTANCE LogServer WITH
    Request <- {m3}, Leaf <- {m1, m2}, MaxLeaves <- 3, MaxStamp <- 2,
    MaxEntries <- 1, db <- v1, tree <- v2, latest <- v3, copying <- v4,
    req <- v5, replies <- v6

Proxy == INSTANCE Proxying WITH
    Node <- {m1, m2}, MaxSize <- 2, serving <- v1, known <- v2, size <- v3,
    newest <- v4, seen <- v5, isStale <- v6, checked <- v7, request <- v8

Db == INSTANCE LocalDb WITH
    Hash <- {m3}, MaxNumber <- 1, MaxTime <- 2, BatchSize <- 1,
    MaxCrashes <- 1, kind <- v1, disk <- v2, pending <- v3, batch <- v4,
    size <- v5, sparse <- v6, byHash <- v7, latest <- v8, calls <- v9,
    heard <- v10, scan <- v11, crashes <- v12

Files == INSTANCE FileStorage WITH
    Thread <- {m3}, Digit <- {0, 1}, Data <- {"x", "y"}, MaxDigits <- 4,
    MaxEntries <- 1, storage_depth <- 2, MaxCrashes <- 1, files <- v1,
    tmp <- v2, call <- v3, entries <- v4, crashes <- v5

Bytes == INSTANCE Encoding WITH
    Base <- 4, Text <- Strings, Times <- {0, 1}, Damaging <- TRUE, item <- v1,
    wire <- v2, got <- v3

Sign == INSTANCE Signing WITH
    Base <- 4, Key <- {<<0>>, <<1>>}, Now <- 0, made <- v1, shown <- v2,
    signature <- v3, verdict <- v4

Chain == INSTANCE Certificates WITH
    Cert <- Certs,
    File <- {{}, {Root}, {OtherRoot}, {Intermediate, PreIssuer}},
    MaxLength <- 3, trusted <- v1, asked <- v2, result <- v3

Http == INSTANCE HttpClient WITH
    Request <- {m1, m2}, Connection <- {m1, m2, m3}, Host <- {m3}, MaxUnused <- 1,
    fetch <- v1, opened <- v2, conns <- v3, sweeper <- v4, scheduled <- v5,
    closures <- v6, finishing <- v7, fatal <- v8

Copy == INSTANCE Mirror WITH
    MaxTarget <- 2, MaxSigned <- 2, MaxPollErrors <- 0, Wrong <- TRUE, target <- v1,
    stopped <- v2, polling <- v3, answer <- v4, remoteSth <- v5, queued <- v6,
    treeSize <- v7, lookup <- v8, updater <- v9, passed <- v10,
    refused <- v11, pollErrors <- v12

Caller == INSTANCE LogClient WITH
    Caller <- {m3}, MaxItems <- 2, MaxSize <- 2, logSize <- v1, call <- v2,
    out <- v3, done <- v4, fatal <- v5

Store == INSTANCE EtcdStore WITH
    Node <- {m1, m2}, Entry <- {m3}, MaxIndex <- 3, HandleBits <- 4,
    Threshold <- 2, MaxLost <- 1, store <- v1, index <- v2, stats <- v3,
    call <- v4, handle <- v5, config <- v6, estimate <- v7, out <- v8,
    acked <- v9, lost <- v10

Loop == INSTANCE EventLoop WITH
    kFDLimit <- 3, kFDLimitWindow <- 1, kIdleTime <- 0, Frequency <- 2,
    MaxTime <- 2, fds <- v1, clock <- v2, rough <- v3, event <- v4,
    pass <- v5, go <- v6, fatal <- v7

Dns == INSTANCE DnsServer WITH
    MaxSize <- 3, MaxQueue <- 1, Batched <- FALSE, dbSize <- v1,
    snapshot <- v2, lookup <- v3, questions <- v4, queue <- v5, told <- v6,
    keyboard <- v7, running <- v8

Audit == INSTANCE Auditing WITH
    Cert <- {"c"}, MaxTime <- 1, clock <- v1, issued <- v2, sth <- v3,
    connected <- v4, args <- v5, peer <- v6, saved <- v7, audit <- v8,
    fatal <- v9

----------------------------------------------------------------------------

Init ==
    \/ part = "tasks" /\ Task!Init /\ Blank8
    \/ part = "pool" /\ Pool!PoolInit /\ Blank5
    \/ part = "fetcher" /\ Fetch!FetchInit
    \/ part = "continuous" /\ Cont!Init /\ Blank9
    \/ part = "watch" /\ Watch!WatchInit /\ Blank8
    \/ part = "client" /\ Client!Init /\ Blank9
    \/ part = "fake" /\ Fake!Init /\ Blank10
    \/ part = "merkle" /\ Merkle!Init /\ Blank2
    \/ part = "sparse" /\ Sparse!Init /\ Blank4
    \/ part = "server" /\ Server!ServerInit /\ Blank6
    \/ part = "proxy" /\ Proxy!Init /\ Blank8
    \/ part = "db" /\ Db!Init
    \/ part = "files" /\ Files!Init /\ Blank5
    \/ part = "encoding" /\ Bytes!Init /\ Blank3
    \/ part = "signing" /\ Sign!Init /\ Blank4
    \/ part = "chains" /\ Chain!Init /\ Blank3
    \/ part = "http" /\ Http!Init /\ Blank8
    \/ part = "mirror" /\ Copy!MirrorInit
    \/ part = "caller" /\ Caller!Init /\ Blank5
    \/ part = "store" /\ Store!Init /\ Blank10
    \/ part = "loop" /\ Loop!Init /\ Blank7
    \/ part = "dns" /\ Dns!Init /\ Blank8
    \/ part = "audit" /\ Audit!Init /\ Blank9

Next ==
    \/ part = "tasks" /\ Task!Next /\ UNCHANGED rest8
    \/ part = "pool" /\ Pool!PoolNext /\ UNCHANGED rest5
    \/ part = "fetcher" /\ Fetch!FetchNext /\ UNCHANGED rest12
    \/ part = "continuous" /\ Cont!Next /\ UNCHANGED rest9
    \/ part = "watch" /\ Watch!WatchNext /\ UNCHANGED rest8
    \/ part = "client" /\ Client!Next /\ UNCHANGED rest9
    \/ part = "fake" /\ Fake!Next /\ UNCHANGED rest10
    \/ part = "merkle" /\ Merkle!Next /\ UNCHANGED rest2
    \/ part = "sparse" /\ Sparse!Next /\ UNCHANGED rest4
    \/ part = "server" /\ Server!ServerNext /\ UNCHANGED rest6
    \/ part = "proxy" /\ Proxy!Next /\ UNCHANGED rest8
    \/ part = "db" /\ Db!Next /\ UNCHANGED rest12
    \/ part = "files" /\ Files!Next /\ UNCHANGED rest5
    \/ part = "encoding" /\ Bytes!Next /\ UNCHANGED rest3
    \/ part = "signing" /\ Sign!Next /\ UNCHANGED rest4
    \/ part = "chains" /\ Chain!Next /\ UNCHANGED rest3
    \/ part = "http" /\ Http!Next /\ UNCHANGED rest8
    \/ part = "mirror" /\ Copy!MirrorNext /\ UNCHANGED rest12
    \/ part = "caller" /\ Caller!Next /\ UNCHANGED rest5
    \/ part = "store" /\ Store!Next /\ UNCHANGED rest10
    \/ part = "loop" /\ Loop!Next /\ UNCHANGED rest7
    \/ part = "dns" /\ Dns!Next /\ UNCHANGED rest8
    \/ part = "audit" /\ Audit!Next /\ UNCHANGED rest9

Spec == Init /\ [][Next]_vars

----------------------------------------------------------------------------
(* Properties, one for each concern.  In those about steps, what is said   *)
(* of single states is said of the state that the step leads to.           *)

\* The type invariants of the parts that have one.
TypeOK ==
    /\ part = "tasks" => Task!TypeOK
    /\ part = "pool" => Pool!PoolTypeOK
    /\ part = "fetcher" => Fetch!FetchTypeOK
    /\ part = "continuous" => Cont!TypeOK
    /\ part = "watch" => Watch!WatchTypeOK
    /\ part = "client" => Client!TypeOK
    /\ part = "fake" => Fake!TypeOK
    /\ part = "server" => Server!ServerTypeOK
    /\ part = "proxy" => Proxy!TypeOK
    /\ part = "db" => Db!TypeOK
    /\ part = "http" => Http!TypeOK

(***************************************************************************)
(* A fetch that reports OK is complete: the database has every entry up to *)
(* the size the group had, the list of ranges never runs ahead of it, an   *)
(* active fetch always has something outstanding, within the flag's bound  *)
(* (fetcher.cc).  Continuous fetching never stops, and never stays with a  *)
(* group of peers that has changed (continuous_fetcher.cc).                *)
(***************************************************************************)
FetchIsComplete ==
    /\ part = "fetcher" =>
          /\ Fetch!OkMeansComplete /\ Fetch!HaveMeansStored
          /\ Fetch!RequestsBounded /\ Fetch!NoEntryTwice /\ Fetch!NeverStalls
    /\ part = "continuous" =>
          Cont!NeverStops /\ Cont!PeersCurrent /\ Cont!DelaysBounded

(***************************************************************************)
(* What a node is told about etcd is true although requests are sent again *)
(* and answers get lost: no reported update is missing, none is refused    *)
(* without another having been made, the SCT given to a submitter is the   *)
(* one stored, the pending entries are never overcounted                   *)
(* (etcd_consistent_store.cc), OK and FAILED_PRECONDITION are for what     *)
(* happened, and no server is forgotten (etcd.cc).                         *)
(***************************************************************************)
EtcdIsBelieved ==
    [][/\ part = "store" =>
             /\ Store!NoLostUpdate' /\ Store!RefusedIsStale
             /\ Store!SctIsStored /\ Store!NeverOvercounts
       /\ part = "client" =>
             Client!StatusIsTrue' /\ Client!ServersKept' /\ Client!NoLateVersion']_vars

(***************************************************************************)
(* The trees are those of RFC 6962: roots, audit paths and consistency     *)
(* proofs of the lazily evaluated tree and of the compact one are the      *)
(* recursive definitions', the verifier takes these and no spoilt one      *)
(* (merkle_tree.cc, compact_merkle_tree.cc, merkle_verifier.cc).  The      *)
(* sparse tree's root depends on its values alone (sparse_merkle_tree.cc). *)
(***************************************************************************)
TreesAreRight ==
    /\ part = "merkle" =>
          /\ Merkle!RootsRight /\ Merkle!ProofsRight
          /\ Merkle!CompactAgrees /\ Merkle!VerifierExact
    /\ part = "sparse" => Sparse!RootIsOfValues

(***************************************************************************)
(* Bytes mean one thing: leaves and lists are read back as written, there  *)
(* is one encoding of a value, inputs of signatures differ where the       *)
(* entries do, what is signed has a leaf, and a node that fetches an entry *)
(* gets the leaf its peer has (serializer.cc, logged_entry.cc).            *)
(***************************************************************************)
BytesMeanOneThing ==
    part = "encoding" =>
        /\ Bytes!LeafRoundTrip /\ Bytes!ListRoundTrip /\ Bytes!Canonical
        /\ Bytes!InputsDiffer /\ Bytes!SignedHasLeaf /\ Bytes!FetchedIsLogged

(***************************************************************************)
(* A connection has one user, one that failed is not pooled, cleanup is    *)
(* scheduled exactly while it is queued (connection_pool.cc,               *)
(* url_fetcher.cc); the select loop never waits on a descriptor that was   *)
(* closed, keeps to its limit and drops only idle ones (event.cc).         *)
(***************************************************************************)
ConnectionsAreSound ==
    [][/\ part = "http" =>
             Http!OneUser' /\ Http!CleanupIsQueued' /\ Http!FailedNotCached
       /\ part = "loop" =>
             Loop!NoneClosed' /\ Loop!WithinLimit' /\ Loop!ActiveStay]_vars

(***************************************************************************)
(* Work is done once and in order.  A task is DONE only after its holds,   *)
(* callbacks and children, its done callback runs once, no child misses a  *)
(* cancellation, nothing touches a task that is gone and no CHECK fails,   *)
(* whichever threads cancel, return and release it (util/task.cc).  The    *)
(* pool loses no wakeup, starts nothing before its time and leaves nothing *)
(* behind when it is destroyed (util/thread_pool.cc).                      *)
(***************************************************************************)
WorkIsInOrder ==
    [][/\ part = "tasks" =>
             /\ Task!DoneWaits' /\ Task!DoneOnce' /\ Task!ChildrenHear'
             /\ Task!NoUseAfterFree' /\ Task!NoCheckFails'
       /\ part = "pool" =>
             Pool!NeverEarly /\ Pool!SomeoneWatches' /\ Pool!ClosedIsClean']_vars

(***************************************************************************)
(* A watch is faithful: while it polls, the receiver has been told exactly *)
(* the directory as it was at the highest index seen, across deletions,    *)
(* errors and histories etcd has cleared (etcd.cc).  A watcher of the fake *)
(* is told everything too: its chain of callbacks never breaks             *)
(* (fake_etcd.cc).                                                         *)
(***************************************************************************)
WatchIsFaithful ==
    /\ part = "watch" => Watch!ViewIsSnapshot /\ Watch!KnownIsView
    /\ part = "fake" => Fake!WatchersCurrent /\ Fake!RunnerPending

(***************************************************************************)
(* The databases agree with what was written: TreeSize is the contiguous   *)
(* part, a lookup finds the lowest number, the latest head is the freshest *)
(* and is heard of, a scan misses nothing (leveldb_db.cc, file_db.cc,      *)
(* sqlite_db.cc), and a file is whole or not there (file_storage.cc).      *)
(***************************************************************************)
DatabasesAreRight ==
    /\ part = "db" =>
          /\ Db!SizeIsContiguous /\ Db!LowestFound /\ Db!LatestIsFreshest
          /\ Db!LatestIsHeard /\ Db!ScanMissesNone
    /\ part = "files" => Files!ScanIsKeys /\ Files!EntriesWhole

(***************************************************************************)
(* Nothing that was shown is taken back: a crash loses no tree head and no *)
(* entry under one (leveldb_db.cc, file_db.cc, sqlite_db.cc), a watch is   *)
(* never taken to an older state of its directory (etcd.cc), a peer's head *)
(* is followed only by a later and no smaller one (remote_peer.cc).        *)
(***************************************************************************)
NothingGoesBack ==
    [][/\ part = "db" => Db!HeadsSurvive
       /\ part = "watch" => Watch!NeverBackwards
       /\ part = "mirror" => Copy!HeadsGrow]_vars

(***************************************************************************)
(* Answers fit together: a request is answered once, with a proof for the  *)
(* leaf and size asked for, entries in order, from a tree that only grows  *)
(* and covers the head (handler.cc, log_lookup.cc); a node answers itself  *)
(* only with the tree it checked for, and passes a request only to one     *)
(* that has it (proxy.cc); a head the DNS server has told is current and   *)
(* can be proved (ct-dns-server.cc); an audit finds a proof exactly when   *)
(* there is one (ct.cc).                                                   *)
(***************************************************************************)
AnswersFit ==
    [][/\ part = "server" =>
             /\ Server!AnsweredOnce' /\ Server!TreeCoversHead' /\ Server!ProofFits'
             /\ Server!EntriesInOrder' /\ Server!OnlyGrows
       /\ part = "proxy" => Proxy!AnswersWithTree /\ Proxy!PassedToFresh
       /\ part = "dns" => Dns!HeadsAreProvable /\ Dns!SthIsCurrent
       /\ part = "audit" => Audit!AuditIsExact]_vars

(***************************************************************************)
(* A promise is the log's own, about the certificate at hand: what         *)
(* verifies is what the log signed, and what it signed verifies            *)
(* (log_signer.cc); an accepted chain ends in a trusted certificate, every *)
(* link of it holds, and the entry logged for a precertificate is the one  *)
(* a client derives from the final certificate (cert_checker.cc); a        *)
(* connection claims SCTs of its own handshake only (ssl_client.cc).       *)
(***************************************************************************)
PromisesAreTheLogs ==
    /\ part = "signing" => Sign!OnlySigned /\ Sign!SignedVerifies /\ Sign!NoneFatal
    /\ part = "chains" => Chain!AcceptedIsRooted /\ Chain!PrecertMatchesFinal
    /\ part = "audit" => Audit!ConnectedIsVerified

(***************************************************************************)
(* A copy of the log shows only what it has checked: the mirror passes on  *)
(* a head only if its root is that of the local entries, and refuses only  *)
(* a wrong one (ct-mirror.cc); a response of the log reaches a caller in   *)
(* full or not at all, and a proof with the head it was asked for          *)
(* (async_log_client.cc, http_log_client.cc).                              *)
(***************************************************************************)
CopiesAreChecked ==
    /\ part = "mirror" => Copy!PassedIsLocal /\ Copy!RefusedIsWrong
    /\ part = "caller" => Caller!AllOrNothing /\ Caller!ProofFitsHead

(***************************************************************************)
(* "Should always succeed as we've already verified that the chain is      *)
(* well-formed" (cert_checker.cc, of the call of CopyIssuerFrom): a        *)
(* well-formed chain is never refused by the copy of the issuer.           *)
(***************************************************************************)
CopyAlwaysSucceeds == part = "chains" => Chain!CopyAlwaysSucceeds
=============================================================================
