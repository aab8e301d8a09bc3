------------------------------ MODULE Proxying ------------------------------
(***************************************************************************)
(* Requests between the nodes of a cluster: the StalenessTracker's periodic *)
(* look at whether the node is behind the serving STH, the interceptor that *)
(* passes requests of a stale node to the Proxy, and the node it picks,     *)
(* whose own interceptor may pass them on.                                  *)
(***************************************************************************)
EXTENDS Integers, FiniteSets

CONSTANTS
    Node,
    MaxSize     \* bound on the tree sizes

VARIABLES
    serving,    \* the cluster's serving STH in etcd: its size, 0 without one
    known,      \* each node's actual_serving_sth_
    size,       \* each node's database TreeSize
    newest,     \* newest_sth of each node's state in etcd
    seen,       \* ... as each node's all_peers_ has it
    isStale,    \* node_is_stale_ of each node's tracker
    checked,    \* the serving STH the tracker compared with
    request     \* where a request is, or how it was answered

vars == <<serving, known, size, newest, seen, isStale, checked, request>>

TypeOK ==
    /\ serving \in 0..MaxSize
    /\ {known, size, newest, checked} \subseteq [Node -> 0..MaxSize]
    /\ seen \in [Node -> [Node -> 0..MaxSize]]
    /\ isStale \in [Node -> BOOLEAN]
    /\ request \in [at : Node, st : {"arrived", "proxied", "local", "error"}]

\* NodeIsStale: without a serving STH every node is.
NodeIsStale(n) == known[n] = 0 \/ size[n] < known[n]

Init ==
    /\ serving = 0
    /\ known = [n \in Node |-> 0] /\ size = [n \in Node |-> 0]
    /\ newest = [n \in Node |-> 0] /\ seen = [n \in Node |-> newest]
    /\ isStale = [n \in Node |-> TRUE] /\ checked = [n \in Node |-> 0]
    /\ request \in [at : Node, st : {"arrived"}]

-----------------------------------------------------------------------------
(* The cluster, as far as it matters here.                                 *)

Grow(n) ==
    /\ size[n] < MaxSize
    /\ size' = [size EXCEPT ![n] = @ + 1]
    /\ UNCHANGED <<serving, known, newest, seen, isStale, checked, request>>

\* The signer publishes the node's tree, the master lets the cluster serve it.
Publish(n) ==
    /\ newest[n] < size[n]
    /\ newest' = [newest EXCEPT ![n] = size[n]]
    /\ serving' \in {serving} \cup {s \in (serving + 1)..MaxSize :
                                      \E m \in Node : newest'[m] >= s}
    /\ UNCHANGED <<known, size, seen, isStale, checked, request>>

\* The watches of the serving STH and of the nodes' states.
Learn(n) ==
    /\ known[n] # serving \/ seen[n] # newest
    /\ known' = [known EXCEPT ![n] = serving]
    /\ seen' = [seen EXCEPT ![n] = newest]
    /\ UNCHANGED <<serving, size, newest, isStale, checked, request>>

-----------------------------------------------------------------------------
\* UpdateNodeStaleness, every staleness_check_delay_secs.
UpdateNodeStaleness(n) ==
    /\ isStale' = [isStale EXCEPT ![n] = NodeIsStale(n)]
    /\ checked' = [checked EXCEPT ![n] = known[n]]
    /\ UNCHANGED <<serving, known, size, newest, seen, request>>

\* Mutant: the node itself may be among the fresh ones.
GetFreshNodesAll(n) ==
    IF known[n] = 0 THEN {} ELSE {m \in Node : seen[n][m] > 0}

GetFreshNodes(n) ==
    IF known[n] = 0 THEN {}
    ELSE {m \in Node \ {n} : seen[n][m] > 0 /\ seen[n][m] >= known[n]}

\* The interceptor's decision.
Intercept(n) == isStale[n]

\* ProxyInterceptor: the local handler, or ProxyRequest on the pool.
ProxyInterceptor ==
    /\ request.st = "arrived"
    /\ request' = [request EXCEPT !.st = IF Intercept(request.at) THEN "proxied" ELSE "local"]
    /\ UNCHANGED <<serving, known, size, newest, seen, isStale, checked>>

\* ProxyRequest: "No node able to serve request", or a fresh one at random.
ProxyRequest ==
    /\ request.st = "proxied"
    /\ LET fresh == GetFreshNodes(request.at)
       IN  IF fresh = {} THEN request' = [request EXCEPT !.st = "error"]
           ELSE \E m \in fresh : request' = [at |-> m, st |-> "arrived"]
    /\ UNCHANGED <<serving, known, size, newest, seen, isStale, checked>>

\* ProxyRequestDone: "Proxied request failed.", or a method that is not passed on.
ProxyFails ==
    /\ request.st = "proxied" /\ GetFreshNodes(request.at) # {}
    /\ request' = [request EXCEPT !.st = "error"]
    /\ UNCHANGED <<serving, known, size, newest, seen, isStale, checked>>

Next ==
    \/ \E n \in Node : Grow(n) \/ Publish(n) \/ Learn(n) \/ UpdateNodeStaleness(n)
    \/ ProxyInterceptor \/ ProxyRequest \/ ProxyFails

Spec == Init /\ [][Next]_vars

-----------------------------------------------------------------------------
(* Properties.                                                             *)

\* A node answers itself only if it has the tree of the serving STH it last looked
\* at: the flag is up to five seconds old, yet never wrong about that tree.
AnswersWithTree ==
    request.st = "arrived" /\ request'.st = "local" =>
     checked[request.at] \in 1..size[request.at]

\* A request is passed only to another node that had published the tree the
\* passing node wants.
PassedToFresh ==
    request.st = "proxied" /\ request'.st = "arrived" =>
     request'.at # request.at /\ newest[request'.at] >= known[request.at]

\* The request has got its answer.
Answered == request.st \in {"local", "error"}
=============================================================================
