------------------------- MODULE ContinuousFetcher -------------------------
(***************************************************************************)
(* continuous_fetcher.cc: fetch after fetch from the peers of the moment,  *)
(* restarted when a peer is added or removed.  A fetch is what Fetcher     *)
(* guarantees of it: it fills the database up to the size its group had    *)
(* when it started, or returns earlier with an error or because it was     *)
(* cancelled; it always returns.                                           *)
(***************************************************************************)
EXTENDS Integers

CONSTANTS
    Node,       \* node ids of possible peers
    MaxSize,    \* bound on tree sizes
    MaxChanges, \* bound on calls of AddPeer and RemovePeer
    MaxErrors   \* bound on fetches that fail

VARIABLES
    peers,      \* the keys of peers_
    peerSize,   \* the tree size each remote node has
    local,      \* db_->TreeSize()
    fetch,      \* fetch_task_ and the fetch it is for
    restart,    \* restart_fetch_
    closures,   \* FetchDelayDone(nullptr) given to the executor
    delays,     \* FetchDelayDone scheduled for later
    changes, errors

vars == <<peers, peerSize, local, fetch, restart, closures, delays, changes, errors>>

NoFetch == [st |-> "none"]
Fetch == [st : {"running", "returned"}, group : SUBSET Node,
          target : -1..MaxSize, cancelled : BOOLEAN]

TypeOK ==
    /\ peers \subseteq Node
    /\ peerSize \in [Node -> -1..MaxSize]
    /\ local \in 0..MaxSize
    /\ fetch \in Fetch \cup {NoFetch}
    /\ restart \in BOOLEAN
    /\ {closures, delays, changes, errors} \subseteq Nat

Init ==
    /\ peers = {}
    /\ peerSize = [n \in Node |-> -1]
    /\ local = 0
    /\ fetch = NoFetch
    /\ restart = FALSE
    /\ closures = 0 /\ delays = 0
    /\ changes = 0 /\ errors = 0

\* PeerGroup::TreeSize: -1 when no peer of the group has a tree.
TreeSize(group) ==
    CHOOSE size \in {peerSize[n] : n \in group} \cup {-1} :
        \A n \in group : peerSize[n] <= size

\* StartFetch: a PeerGroup of the peers as they are now.
StartFetch(group) ==
    /\ restart' = FALSE
    /\ fetch' = [st |-> "running", group |-> group, cancelled |-> FALSE,
                 target |-> TreeSize(group)]

\* What AddPeer and RemovePeer do with a fetch that runs.
Restart ==
    /\ fetch' = [fetch EXCEPT !.cancelled = TRUE]
    /\ restart' = TRUE

AddPeer(n) ==
    /\ changes < MaxChanges
    /\ changes' = changes + 1
    /\ peers' = peers \cup {n}
    /\ IF fetch = NoFetch THEN StartFetch(peers \cup {n}) ELSE Restart
    /\ UNCHANGED <<peerSize, local, closures, delays, errors>>

RemovePeer(n) ==
    /\ changes < MaxChanges
    /\ changes' = changes + 1
    /\ peers' = peers \ {n}
    /\ IF n \in peers /\ fetch # NoFetch THEN Restart ELSE UNCHANGED <<fetch, restart>>
    /\ UNCHANGED <<peerSize, local, closures, delays, errors>>

FetchDone ==
    /\ fetch.st = "returned"
    /\ fetch' = NoFetch
    /\ IF restart THEN closures' = closures + 1 /\ UNCHANGED delays
       ELSE delays' = delays + 1 /\ UNCHANGED closures
    /\ UNCHANGED <<peers, peerSize, local, restart, changes, errors>>

FetchDelayDone ==
    /\ \/ closures > 0 /\ closures' = closures - 1 /\ UNCHANGED delays
       \/ delays > 0 /\ delays' = delays - 1 /\ UNCHANGED closures
    /\ IF fetch = NoFetch THEN StartFetch(peers) ELSE UNCHANGED <<fetch, restart>>
    /\ UNCHANGED <<peers, peerSize, local, changes, errors>>

-----------------------------------------------------------------------------
(* The fetch, as Fetcher promises.                                         *)

Progress ==
    /\ fetch.st = "running" /\ local < fetch.target
    /\ local' = local + 1
    /\ UNCHANGED <<peers, peerSize, fetch, restart, closures, delays, changes, errors>>

Returns ==
    /\ fetch.st = "running"
    /\ \/ local >= fetch.target /\ UNCHANGED errors
       \/ fetch.cancelled /\ UNCHANGED errors
       \/ errors < MaxErrors /\ errors' = errors + 1
    /\ fetch' = [fetch EXCEPT !.st = "returned"]
    /\ UNCHANGED <<peers, peerSize, local, restart, closures, delays, changes>>

PeerGrows(n) ==
    /\ peerSize[n] < MaxSize
    /\ peerSize' = [peerSize EXCEPT ![n] = @ + 1]
    /\ UNCHANGED <<peers, local, fetch, restart, closures, delays, changes, errors>>

Next ==
    \/ \E n \in Node : AddPeer(n) \/ RemovePeer(n) \/ PeerGrows(n)
    \/ FetchDone \/ FetchDelayDone \/ Progress \/ Returns

Spec == Init /\ [][Next]_vars

-----------------------------------------------------------------------------
(* Properties.                                                             *)

\* Once a peer was added fetching goes on for ever: a fetch runs, or its next
\* run is scheduled, whatever the order of peer changes, callbacks and delays.
NeverStops == changes > 0 /\ peers # {} =>
                  fetch # NoFetch \/ closures + delays > 0

\* A fetch that runs uses the peers of the moment, or is going to be followed
\* at once by one that does.
PeersCurrent == fetch # NoFetch => fetch.group = peers \/ (restart /\ fetch.cancelled)

\* A peer change does not accumulate delayed fetches beyond one for each change.
DelaysBounded == closures + delays <= changes

Stays(n) == n \in peers

\* The local tree has reached the size of the peer's.
CaughtUp(n) == local >= peerSize[n]
=============================================================================
