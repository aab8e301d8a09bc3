------------------------------ MODULE Fetcher ------------------------------
(***************************************************************************)
(* fetcher.cc and peer_group.cc: one FetchLogEntries, which fills the      *)
(* local database up to the tree size that the peers had when it started.  *)
(*                                                                         *)
(* The linked list of ranges is the function it denotes: `range' gives     *)
(* every index from start_ on its state.  Adjacent ranges of one state are *)
(* merged whenever the walk reaches them, so that only the limits of the   *)
(* ranges being fetched matter: those are `requests', one for each         *)
(* outstanding call of a peer.  A range task that has returned runs        *)
(* WalkEntries as its done callback on some thread of the executor.        *)
(***************************************************************************)
EXTENDS Integers, FiniteSets, FiniteSetsExt

CONSTANTS
    Peer,            \* the peers of the group
    MaxTree,         \* bound on tree sizes
    BatchSize,       \* FLAGS_fetcher_batch_size
    Concurrent,      \* FLAGS_fetcher_concurrent_fetches
    MaxFetchErrors,  \* bound on failed requests, short writes and bad SCTs
    BadSct           \* entries whose SCT does not verify

VARIABLES
    db,          \* the indexes the local database has
    peerTree,    \* Peer::TreeSize of each peer
    remoteSize,  \* the tree size of the group at the start
    start,       \* start_
    range,       \* the list of ranges, by index
    requests,    \* outstanding requests: the ranges that are FETCHING
    returned,    \* range tasks whose done callback is due
    walkers,     \* WalkEntries calls past the checks, before the lock
    stuck,       \* ranges that are FETCHING and whose task nobody will return
    task,        \* task_: "ACTIVE" or the status it returned
    cancelRequested,
    fetchErrors

fetchVars == <<db, peerTree, remoteSize, start, range, requests, returned, walkers,
               stuck, task, cancelRequested, fetchErrors>>

Index == 0..(MaxTree - 1)
Request == [index : Index, size : 1..BatchSize]

FetchTypeOK ==
    /\ db \subseteq Index
    /\ peerTree \in [Peer -> -1..MaxTree]
    /\ remoteSize \in -1..MaxTree /\ start \in 0..MaxTree
    /\ range \in [Index -> {"NONE", "WANT", "FETCHING", "HAVE"}]
    /\ requests \cup stuck \subseteq Request
    /\ {returned, walkers, fetchErrors} \subseteq Nat
    /\ task \in {"ACTIVE", "OK", "CANCELLED", "FAILED_PRECONDITION", "INTERNAL"}
    /\ cancelRequested \in BOOLEAN

-----------------------------------------------------------------------------
\* Database::TreeSize: the length of the prefix without holes.
DatabaseSize(entries) ==
    CHOOSE n \in 0..MaxTree : /\ 0..(n - 1) \subseteq entries
                              /\ n \notin entries

\* PeerGroup::TreeSize.
GroupSize == Max({peerTree[p] : p \in Peer} \cup {-1})

\* PeerGroup::PickPeer: the peers it picks one of.
Capable(needed) == {p \in Peer : peerTree[p] >= needed}

Covered(r) == r.index..(r.index + r.size - 1)

\* The prefix of the list that WalkEntries prunes: what we have, and what is
\* wanted beyond the tree of every peer.
Pruned(from) ==
    CHOOSE n \in from..remoteSize :
        /\ \A i \in from..(n - 1) :
               range[i] = "HAVE" \/ (range[i] = "WANT" /\ GroupSize < i)
        /\ n < remoteSize => ~(range[n] = "HAVE" \/ (range[n] = "WANT" /\ GroupSize < n))

\* The end of the run of wanted indexes from i on.
WantEnd(i) ==
    CHOOSE n \in (i + 1)..remoteSize :
        (\A k \in i..(n - 1) : range[k] = "WANT") /\ (n = remoteSize \/ range[n] # "WANT")

\* Mutant: a range is asked for in one go.
RequestSizeWhole(i) == WantEnd(i) - i

\* The part of the range from i on that is split off and asked for.
RequestSize(i) == Min({BatchSize, WantEnd(i) - i})

\* The index after the range that begins at i, once a request has been split off.
After(i) ==
    CASE range[i] = "HAVE" -> i + 1
      [] range[i] = "FETCHING" ->
           LET r == CHOOSE q \in requests \cup stuck : i \in Covered(q)
           IN  r.index + r.size
      [] OTHER -> i + RequestSize(i)

\* The walk: the requests it starts, from index i on with n ranges seen that
\* are being fetched.
NewRequests[i \in start..MaxTree] ==
    [n \in 0..Concurrent |->
        IF i >= remoteSize \/ n >= Concurrent \/ i >= GroupSize THEN {}
        ELSE IF range[i] = "HAVE" THEN NewRequests[After(i)][n]
        ELSE NewRequests[After(i)][n + 1] \cup
                 IF range[i] = "FETCHING" THEN {}
                 ELSE {[index |-> i, size |-> RequestSize(i)]}]

Marked(rng, indexes, state) ==
    [i \in Index |-> IF i \in indexes THEN state ELSE rng[i]]

\* WalkEntries from the lock on.
Walk ==
    LET from == Pruned(start)
        new == NewRequests[from][0]
    IN  /\ start' = from
        /\ IF from = remoteSize
           THEN /\ task' = IF task = "ACTIVE" THEN "OK" ELSE task
                /\ UNCHANGED <<range, requests>>
           ELSE /\ requests' = requests \cup new
                /\ range' = Marked(range, UNION {Covered(r) : r \in new}, "FETCHING")
                /\ UNCHANGED task

-----------------------------------------------------------------------------
\* FetchLogEntries and the constructor of FetchState.
FetchInit ==
    /\ db \in SUBSET Index
    /\ peerTree \in [Peer -> -1..MaxTree]
    /\ remoteSize = GroupSize
    /\ start = DatabaseSize(db)
    /\ range = [i \in Index |-> IF i \in DatabaseSize(db)..(GroupSize - 1)
                                THEN "WANT" ELSE "NONE"]
    /\ requests = {}
    /\ returned = 0
    /\ walkers = IF GroupSize <= DatabaseSize(db) THEN 0 ELSE 1
    /\ stuck = {}
    /\ task = IF GroupSize <= DatabaseSize(db) THEN "OK" ELSE "ACTIVE"
    /\ cancelRequested = FALSE
    /\ fetchErrors = 0

\* WalkEntries as a done callback, up to the lock.
WalkEntries ==
    /\ returned > 0
    /\ returned' = returned - 1
    /\ task' = IF task = "ACTIVE" /\ cancelRequested THEN "CANCELLED" ELSE task
    /\ walkers' = IF task = "ACTIVE" /\ ~cancelRequested THEN walkers + 1 ELSE walkers
    /\ UNCHANGED <<db, peerTree, remoteSize, start, range, requests, stuck, cancelRequested,
                   fetchErrors>>

WalkEntriesLocked ==
    /\ walkers > 0
    /\ walkers' = walkers - 1
    /\ Walk
    /\ UNCHANGED <<db, peerTree, remoteSize, returned, stuck, cancelRequested, fetchErrors>>

\* WriteToDatabase after a request that failed: no peer has the entries, the
\* client reports an error, or the peer sends no entries.
FetchFailed(r) ==
    /\ r \in requests
    /\ \/ Capable(r.index + r.size) = {} /\ UNCHANGED fetchErrors
       \/ fetchErrors < MaxFetchErrors /\ fetchErrors' = fetchErrors + 1
    /\ requests' = requests \ {r}
    /\ range' = Marked(range, Covered(r), "WANT")
    /\ returned' = returned + 1
    /\ UNCHANGED <<db, peerTree, remoteSize, start, walkers, stuck, task, cancelRequested>>

\* Mutant: the whole range counts as received.
WriteAll(r, received, processed) == Marked(range, Covered(r), "HAVE")

\* The range once `processed' of its entries are in the database.
Written(r, received, processed) ==
    Marked(Marked(range, Covered(r), "WANT"),
           r.index..(r.index + processed - 1), "HAVE")

\* WriteToDatabase after a request that succeeded with `received' entries, of
\* which the first `processed' could be converted and inserted.
WriteToDatabase(r) ==
    /\ r \in requests
    /\ Capable(r.index + r.size) # {}
    /\ \E received \in 1..r.size : \E processed \in 0..received :
        /\ fetchErrors + (IF processed < received THEN 1 ELSE 0) <= MaxFetchErrors
        /\ fetchErrors' = fetchErrors + (IF processed < received THEN 1 ELSE 0)
        /\ r.index..(r.index + processed - 1) \cap BadSct = {}
        /\ db' = db \cup r.index..(r.index + processed - 1)
        /\ range' = Written(r, received, processed)
        /\ task' = IF processed < received /\ task = "ACTIVE"
                   THEN "INTERNAL" ELSE task
    /\ requests' = requests \ {r}
    /\ returned' = returned + 1
    /\ UNCHANGED <<peerTree, remoteSize, start, walkers, stuck, cancelRequested>>

\* ... and when one of them has an SCT that does not verify: the entries before
\* it stay, the range stays FETCHING and its task is not returned.
WriteBadSct(r) ==
    /\ r \in requests
    /\ Capable(r.index + r.size) # {}
    /\ \E bad \in Covered(r) \cap BadSct :
        /\ Covered(r) \cap BadSct \cap 0..(bad - 1) = {}
        /\ db' = db \cup r.index..(bad - 1)
    /\ requests' = requests \ {r}
    /\ stuck' = stuck \cup {r}
    /\ task' = IF task = "ACTIVE" THEN "FAILED_PRECONDITION" ELSE task
    /\ UNCHANGED <<peerTree, remoteSize, start, range, returned, walkers, cancelRequested,
                   fetchErrors>>

CancelFetch ==
    /\ ~cancelRequested
    /\ cancelRequested' = TRUE
    /\ UNCHANGED <<db, peerTree, remoteSize, start, range, requests, returned, walkers,
                   stuck, task, fetchErrors>>

\* A peer's tree grows (RemotePeer never takes a smaller tree head).
PeerTreeGrows(p) ==
    /\ peerTree[p] < MaxTree
    /\ peerTree' = [peerTree EXCEPT ![p] = @ + 1]
    /\ UNCHANGED <<db, remoteSize, start, range, requests, returned, walkers, stuck,
                   task, cancelRequested, fetchErrors>>

\* Some request comes back, in one way or another.
Respond == \E r \in requests : FetchFailed(r) \/ WriteToDatabase(r) \/ WriteBadSct(r)

FetchNext ==
    \/ WalkEntries \/ WalkEntriesLocked \/ CancelFetch \/ Respond
    \/ \E p \in Peer : PeerTreeGrows(p)

FetchSpec == FetchInit /\ [][FetchNext]_fetchVars

-----------------------------------------------------------------------------
(* Properties.                                                             *)

\* The task is DONE once it has returned and nothing of it is outstanding.
Done == task # "ACTIVE" /\ requests \cup stuck = {} /\ returned + walkers = 0

\* A fetch that reports OK has filled the database up to the tree size the
\* group had when it started, in spite of short answers, failed requests and
\* retries in between.
OkMeansComplete == task = "OK" => 0..(remoteSize - 1) \subseteq db

\* What the list says is there is in the database: an index never counts as
\* fetched because of a neighbour of its range.
HaveMeansStored == \A i \in Index : range[i] = "HAVE" => i \in db

\* However many callbacks walk the list at once, there are never more
\* requests than the flag allows.
RequestsBounded == Cardinality(requests) <= Concurrent

\* However many callbacks walk the list at once, no entry is asked for by two
\* requests.
NoEntryTwice == \A r, s \in requests : r # s => Covered(r) \cap Covered(s) = {}

\* An active fetch always has something outstanding that will wake it up.
NeverStalls == task = "ACTIVE" => requests # {} \/ returned + walkers > 0
=============================================================================
