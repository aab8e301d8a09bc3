----------------------------- MODULE EtcdClient -----------------------------
(***************************************************************************)
(* EtcdClient's requests (util/etcd.cc): the list of servers, the retry on *)
(* the next server when one is unavailable, the redirect to the leader,    *)
(* and the status a requestor gets.  The requests are creations of one     *)
(* key, the case where an attempt that took effect and an attempt that is  *)
(* refused differ.  etcd and the network (external) may lose any answer.   *)
(***************************************************************************)
EXTENDS Integers, Sequences, SequencesExt, FiniteSets

CONSTANTS
    Server,      \* the etcd servers there are
    Configured,  \* a sequence: the servers the client is started with
    Request,     \* the requests the process makes
    MaxFaults    \* lost answers, server and leader changes

VARIABLES
    etcds,     \* etcds_
    logged,    \* logged_version_
    versions,  \* children of log_version_task_ that have not returned
    req,       \* each request: where it was sent and what became of it
    key,       \* the request whose creation took effect, if any
    up,        \* the servers that answer
    leader,
    faults,
    client     \* "alive", "closing" (in the destructor), "gone"

vars == <<etcds, logged, versions, req, key, up, leader, faults, client>>

NoRequest == "none"
Sts == {"OK", "ABORTED", "PERMISSION_DENIED", "NOT_FOUND", "FAILED_PRECONDITION",
        "UNAVAILABLE", "INTERNAL", "UNKNOWN", "DEADLINE_EXCEEDED"}

TypeOK ==
    /\ etcds \in Seq(Server) /\ etcds # <<>>
    /\ logged \in BOOLEAN /\ versions \in Nat
    /\ req \in [Request -> [st : {"new", "sent", "done"}, host : Server \cup {NoRequest},
                            status : Sts \cup {NoRequest}]]
    /\ key \in Request \cup {NoRequest}
    /\ up \subseteq Server /\ leader \in Server
    /\ faults \in 0..MaxFaults
    /\ client \in {"alive", "closing", "gone"}

Init ==
    /\ etcds = Configured
    /\ logged = FALSE /\ versions = 0
    /\ req = [r \in Request |-> [st |-> "new", host |-> NoRequest, status |-> NoRequest]]
    /\ key = NoRequest
    /\ up \in (SUBSET Server) \ {{}} /\ leader \in up
    /\ faults = 0
    /\ client = "alive"

-----------------------------------------------------------------------------
(* The status of an answer.                                                *)

ErrorCodeForHttpResponseCode(code) ==
    CASE code \in {200, 201} -> "OK"
      [] code = 400 -> "ABORTED"
      [] code = 403 -> "PERMISSION_DENIED"
      [] code = 404 -> "NOT_FOUND"
      [] code = 412 -> "FAILED_PRECONDITION"
      [] code = 500 -> "UNAVAILABLE"
      [] OTHER -> "UNKNOWN"

StatusCodeFromEtcdErrorCode(code) ==
    CASE code = 100 -> "NOT_FOUND"
      [] code \in {101, 102, 104, 105, 107, 108} -> "FAILED_PRECONDITION"
      [] code \in {201, 202, 203, 209, 210} -> "FAILED_PRECONDITION"
      [] code \in {300, 301} -> "UNAVAILABLE"
      [] code \in {400, 401} -> "ABORTED"
      [] OTHER -> "UNKNOWN"

\* etcd's own error code is preferred if there is one (0 is none).
StatusFromResponse(answer) ==
    IF answer.etcd # 0 THEN StatusCodeFromEtcdErrorCode(answer.etcd)
    ELSE ErrorCodeForHttpResponseCode(answer.http)

Answer(http, etcd) == [http |-> http, etcd |-> etcd]

-----------------------------------------------------------------------------
(* The list of servers.                                                    *)

\* Mutant: the server that did not answer is dropped.
ChooseNextServerDropping(list) == IF Len(list) > 1 THEN Tail(list) ELSE list

ChooseNextServer(list) == Append(Tail(list), Head(list))

UpdateEndpoint(list, s) ==
    <<s>> \o (IF Contains(list, s) THEN Remove(list, s) ELSE list)

\* MaybeLogEtcdVersion, with its request to the first server.
MaybeLogEtcdVersion(was) ==
    /\ logged' = TRUE
    /\ versions' = IF was THEN versions ELSE versions + 1

Return(r, status) ==
    req' = [req EXCEPT ![r].st = "done", ![r].status = status]

-----------------------------------------------------------------------------
\* Create and Generic: to the first server of the list.
Generic(r) ==
    /\ client = "alive" /\ req[r].st = "new"
    /\ req' = [req EXCEPT ![r].st = "sent", ![r].host = Head(etcds)]
    /\ MaybeLogEtcdVersion(logged)
    /\ UNCHANGED <<etcds, key, up, leader, faults, client>>

\* FetchDone, UNAVAILABLE: the same request to the next server.
FetchUnavailable(r) ==
    /\ req[r].st = "sent"
    /\ etcds' = ChooseNextServer(etcds)
    /\ req' = [req EXCEPT ![r].host = Head(ChooseNextServer(etcds))]
    /\ UNCHANGED <<logged, versions, up, leader, client>>

\* The server is down, or the connection breaks before or after the request
\* took effect.
ServerDown(r) ==
    /\ req[r].host \notin up
    /\ FetchUnavailable(r)
    /\ UNCHANGED <<key, faults>>

AnswerLost(r) ==
    /\ req[r].host \in up /\ faults < MaxFaults
    /\ faults' = faults + 1
    /\ FetchUnavailable(r)
    /\ \/ UNCHANGED key
       \/ req[r].host = leader /\ key = NoRequest /\ key' = r

\* FetchDone, 307: to the leader the server names; without a usable Location
\* header the request fails.
Redirected(r) ==
    /\ req[r].st = "sent" /\ req[r].host \in up /\ req[r].host # leader
    /\ \/ /\ etcds' = UpdateEndpoint(etcds, leader)
          /\ MaybeLogEtcdVersion(FALSE)
          /\ req' = [req EXCEPT ![r].host = leader]
          /\ UNCHANGED faults
       \/ /\ faults < MaxFaults /\ faults' = faults + 1
          /\ Return(r, "INTERNAL")
          /\ UNCHANGED <<etcds, logged, versions>>
    /\ UNCHANGED <<key, up, leader, client>>

\* FetchDone and CreateRequestDone with the leader's answer.
Answered(r) ==
    /\ req[r].st = "sent" /\ req[r].host = leader /\ leader \in up
    /\ key' = IF key = NoRequest THEN r ELSE key
    /\ Return(r, StatusFromResponse(IF key = NoRequest THEN Answer(201, 0)
                                    ELSE Answer(412, 105)))
    /\ UNCHANGED <<etcds, logged, versions, up, leader, faults, client>>

\* The leader answers with an error of its own, and the client does not retry:
\* an election in progress, a raft error, or a limit of the URL fetcher.
AnsweredError(r) ==
    /\ req[r].st = "sent" /\ req[r].host \in up /\ faults < MaxFaults
    /\ faults' = faults + 1
    /\ \E status \in {StatusFromResponse(Answer(500, 300)),
                      StatusFromResponse(Answer(503, 0)), "DEADLINE_EXCEEDED"} :
           Return(r, status)
    /\ UNCHANGED <<etcds, logged, versions, key, up, leader, client>>

VersionDone ==
    /\ versions > 0
    /\ versions' = versions - 1
    /\ UNCHANGED <<etcds, logged, req, key, up, leader, faults, client>>

\* The cluster changes its leader or loses or regains servers.
ClusterChange ==
    /\ faults < MaxFaults
    /\ faults' = faults + 1
    /\ \E servers \in (SUBSET Server) \ {{}} : \E l \in servers :
           up' = servers /\ leader' = l
    /\ UNCHANGED <<etcds, logged, versions, req, key, client>>

\* ~EtcdClient, once its users are done: it waits for the version requests.
Destroy ==
    \/ /\ client = "alive" /\ \A r \in Request : req[r].st # "sent"
       /\ client' = "closing"
       /\ UNCHANGED <<etcds, logged, versions, req, key, up, leader, faults>>
    \/ /\ client = "closing" /\ versions = 0
       /\ client' = "gone"
       /\ UNCHANGED <<etcds, logged, versions, req, key, up, leader, faults>>

Step(r) == ServerDown(r) \/ AnswerLost(r) \/ Redirected(r) \/ Answered(r)
           \/ AnsweredError(r)

Next ==
    \/ \E r \in Request : Generic(r) \/ (req[r].st = "sent" /\ Step(r))
    \/ VersionDone \/ ClusterChange \/ Destroy

Spec == Init /\ [][Next]_vars

-----------------------------------------------------------------------------
(* Properties.                                                             *)

\* No failure or redirect makes the client forget a server or list one twice.
ServersKept == /\ ToSet(Configured) \subseteq ToSet(etcds)
               /\ IsInjective(etcds)

\* What the requestor is told is true: OK only if its own creation took effect,
\* FAILED_PRECONDITION only if the key exists.  At most one requestor is told OK
\* although requests are retried and answers get lost.
StatusIsTrue ==
    \A r \in Request : /\ req[r].status = "OK" => key = r
                       /\ req[r].status = "FAILED_PRECONDITION" => key # NoRequest

\* The client is not destroyed while a request for the version is outstanding.
NoLateVersion == client = "gone" => versions = 0

\* A server the client was given is up.
Reachable == up \cap ToSet(Configured) # {}

\* The request is not under way.
Ended(r) == req[r].st # "sent"
=============================================================================
