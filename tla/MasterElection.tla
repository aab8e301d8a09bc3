--------------------------- MODULE MasterElection ---------------------------
(***************************************************************************)
(* The election of the master (util/masterelection.cc).                    *)
(*                                                                         *)
(* Every participant creates a proposal with a time to live in etcd, keeps *)
(* it alive, watches the directory of proposals, and writes into its own   *)
(* proposal whose it backs: always the one that was created first. The     *)
(* owner of that one is master once no other proposal backs another one.   *)
(*                                                                         *)
(* The callbacks of one participant run on the thread of its event loop,   *)
(* one at a time, each under mutex_; StopElection runs on another thread.  *)
(* A request takes effect in etcd between the callback that sends it and   *)
(* the callback that gets its answer.                                      *)
(***************************************************************************)
EXTENDS Integers, Sequences, FiniteSets

CONSTANTS
    Node,       \* participants; a node stands for the path of its proposal
    NoBacking,  \* kNoBacking
    IntMax,     \* INT_MAX: no created_index_ from here on counts
    History,    \* bound: events that etcd keeps for a watch that lags
    MaxFaults,  \* bound: crashes, lost and failed requests, stalls
    MaxStops,   \* bound: calls of StopElection
    \* Environment: FALSE excludes the named behaviour.
    Stall,      \* a live participant is too slow to refresh its proposal
    Delay       \* events and answers take longer than the refresh interval

ASSUME NodeAssumption == IsFiniteSet(Node) /\ NoBacking \notin Node
ASSUME BoundAssumption ==
    /\ {IntMax, MaxFaults, MaxStops} \subseteq Nat
    /\ History \in Nat \ {0}
    /\ {Stall, Delay} \subseteq BOOLEAN

(* Every creation but the first of a node follows a stop or a fault. *)
MaxIndex == Cardinality(Node) + MaxStops + MaxFaults

ProposalState ==
    {"NONE", "AWAITING_CREATION", "CREATING", "UP_TO_DATE", "AWAITING_UPDATE",
     "UPDATING", "AWAITING_DELETE", "DELETING"}
Proposal == [created : 1 .. MaxIndex, backing : Node \cup {NoBacking}]
NoProposal == [created |-> 0, backing |-> NoBacking]
Directory == [Node -> Proposal \cup {NoProposal}]
EmptyDirectory == [n \in Node |-> NoProposal]

VARIABLES
    proposals,   \* etcd: the directory of proposals
    index,       \* etcd: created_index_ of the newest proposal
    events,      \* etcd: directories after the events a watch has to deliver
    running,     \* running_
    state,       \* proposal_state_
    answer,      \* of the outstanding request: "none" so far, "ok" or "error"
    handle,      \* my_proposal_modified_index_ is that of the proposal
    created,     \* my_proposal_create_index_
    refresh,     \* proposal_refresh_callback_ is set
    watch,       \* proposal_watch_: "none", before its "get", on "events"
    backed,      \* backed_proposal_
    isMaster,    \* is_master_
    stopping,    \* where StopElection is: "no", "watch", "update", "delete"
    faults, stops,
    checkFailed  \* history: a CHECK other than ProposalUpdateDone's has failed

etcd == <<proposals, index>>
local == <<running, state, answer, handle, created, refresh, backed,
           isMaster, stopping>>
watching == <<events, watch>>
counts == <<faults, stops, checkFailed>>
vars == <<etcd, local, watching, counts>>

TypeOK ==
    /\ proposals \in Directory
    /\ index \in 0 .. MaxIndex
    /\ events \in [Node -> Seq(Directory)]
    /\ \A n \in Node : Len(events[n]) <= History
    /\ running \in [Node -> BOOLEAN]
    /\ state \in [Node -> ProposalState]
    /\ answer \in [Node -> {"none", "ok", "error"}]
    /\ handle \in [Node -> BOOLEAN]
    /\ created \in [Node -> 0 .. MaxIndex]
    /\ refresh \in [Node -> BOOLEAN]
    /\ watch \in [Node -> {"none", "get", "events"}]
    /\ backed \in [Node -> Node \cup {NoBacking}]
    /\ isMaster \in [Node -> BOOLEAN]
    /\ stopping \in [Node -> {"no", "watch", "update", "delete"}]
    /\ faults \in 0 .. MaxFaults
    /\ stops \in 0 .. MaxStops
    /\ checkFailed \in BOOLEAN

Init ==
    /\ proposals = EmptyDirectory
    /\ index = 0
    /\ events = [n \in Node |-> <<>>]
    /\ running = [n \in Node |-> FALSE]
    /\ state = [n \in Node |-> "NONE"]
    /\ answer = [n \in Node |-> "none"]
    /\ handle = [n \in Node |-> FALSE]
    /\ created = [n \in Node |-> 0]
    /\ refresh = [n \in Node |-> FALSE]
    /\ watch = [n \in Node |-> "none"]
    /\ backed = [n \in Node |-> NoBacking]
    /\ isMaster = [n \in Node |-> FALSE]
    /\ stopping = [n \in Node |-> "no"]
    /\ faults = 0
    /\ stops = 0
    /\ checkFailed = FALSE

Put(f, n, v) == [f EXCEPT ![n] = v]
Fault == faults < MaxFaults /\ faults' = faults + 1

(* The legal transitions of the proposal; any other one fails a CHECK. *)
Transition(n, to) ==
    <<state[n], to>> \in
        {<<"NONE", "AWAITING_CREATION">>, <<"AWAITING_CREATION", "CREATING">>,
         <<"CREATING", "AWAITING_CREATION">>, <<"CREATING", "UP_TO_DATE">>,
         <<"UP_TO_DATE", "AWAITING_UPDATE">>,
         <<"UP_TO_DATE", "AWAITING_DELETE">>,
         <<"AWAITING_UPDATE", "UPDATING">>, <<"UPDATING", "UP_TO_DATE">>,
         <<"AWAITING_DELETE", "DELETING">>, <<"DELETING", "NONE">>}

(***************************************************************************)
(* A process dies and starts again: the constructor of the server calls    *)
(* StartElection. Its proposal stays in etcd.                              *)
(***************************************************************************)
Reboot(n) ==
    /\ running' = Put(running, n, TRUE)
    /\ state' = Put(state, n, "AWAITING_CREATION")
    /\ answer' = Put(answer, n, "none")
    /\ handle' = Put(handle, n, FALSE)
    /\ created' = Put(created, n, 0)
    /\ refresh' = Put(refresh, n, FALSE)
    /\ watch' = Put(watch, n, "none")
    /\ events' = Put(events, n, <<>>)
    /\ backed' = Put(backed, n, NoBacking)
    /\ isMaster' = Put(isMaster, n, FALSE)
    /\ stopping' = Put(stopping, n, "no")
    /\ UNCHANGED <<etcd, stops>>

Crash(n) == state[n] # "NONE" /\ Fault /\ Reboot(n) /\ UNCHANGED checkFailed

Die(n) == Reboot(n) /\ checkFailed' = TRUE /\ UNCHANGED faults

-----------------------------------------------------------------------------
(* etcd. *)

(* Mutant: a watch is not told that it lags too far. *)
PublishEndlessly(dir) ==
    /\ proposals' = dir
    /\ events' = [n \in Node |->
          IF watch[n] = "events" THEN Append(events[n], dir) ELSE <<>>]
    /\ UNCHANGED watch

(* The directory changes: every watch gets an event, or is out of date. *)
Publish(dir) ==
    /\ proposals' = dir
    /\ watch' = [n \in Node |->
          IF watch[n] = "events" /\ Len(events[n]) = History THEN "get"
          ELSE watch[n]]
    /\ events' = [n \in Node |->
          IF watch'[n] = "events" THEN Append(events[n], dir) ELSE <<>>]

(* The answer to a request that etcd carried out; it may get lost. *)
Answered(n) ==
    \/ answer' = Put(answer, n, "ok") /\ UNCHANGED <<handle, faults>>
    \/ /\ Fault
       /\ answer' = Put(answer, n, "error")
       /\ handle' = Put(handle, n, FALSE)

(* The answer to a request that etcd refused, or that never reached it. *)
Refused(n, refused) ==
    /\ (refused /\ UNCHANGED faults) \/ Fault
    /\ answer' = Put(answer, n, "error")
    /\ UNCHANGED <<etcd, watching, handle>>

EtcdCreate(n) ==
    /\ state[n] = "CREATING"
    /\ answer[n] = "none"
    /\ \/ /\ proposals[n] = NoProposal
          /\ index < MaxIndex
          /\ index' = index + 1
          /\ Publish([proposals EXCEPT
                ![n] = [created |-> index', backing |-> NoBacking]])
          /\ \/ /\ answer' = Put(answer, n, "ok")
                /\ handle' = Put(handle, n, TRUE)
                /\ created' = Put(created, n, index')
                /\ UNCHANGED faults
             \/ /\ Fault
                /\ answer' = Put(answer, n, "error")
                /\ UNCHANGED <<handle, created>>
       \/ Refused(n, proposals[n] # NoProposal) /\ UNCHANGED created
    /\ UNCHANGED <<running, state, refresh, backed, isMaster, stopping,
                   stops, checkFailed>>

EtcdUpdate(n) ==
    /\ state[n] = "UPDATING"
    /\ answer[n] = "none"
    /\ \/ /\ proposals[n] # NoProposal
          /\ handle[n]
          /\ Publish([proposals EXCEPT ![n].backing = backed[n]])
          /\ Answered(n)
          /\ UNCHANGED index
       \/ Refused(n, proposals[n] = NoProposal \/ ~handle[n])
    /\ UNCHANGED <<running, state, created, refresh, backed, isMaster,
                   stopping, stops, checkFailed>>

EtcdDelete(n) ==
    /\ state[n] = "DELETING"
    /\ answer[n] = "none"
    /\ \/ /\ proposals[n] # NoProposal
          /\ handle[n]
          /\ Publish([proposals EXCEPT ![n] = NoProposal])
          /\ Answered(n)
          /\ UNCHANGED index
       \/ Refused(n, proposals[n] = NoProposal \/ ~handle[n])
    /\ UNCHANGED <<running, state, created, refresh, backed, isMaster,
                   stopping, stops, checkFailed>>

(* The time to live of a proposal ends that nobody refreshes in time. *)
Expire(n) ==
    /\ proposals[n] # NoProposal
    /\ \/ /\ \/ state[n] \in {"NONE", "AWAITING_CREATION"}
             \/ state[n] = "CREATING" /\ answer[n] # "ok"
          /\ UNCHANGED faults
       \/ Stall /\ Fault
    /\ Publish([proposals EXCEPT ![n] = NoProposal])
    /\ UNCHANGED <<index, local, stops, checkFailed>>

(* The first request of a watch, and the one after it was out of date. *)
WatchGet(n) ==
    /\ watch[n] = "get"
    /\ watch' = Put(watch, n, "events")
    /\ events' = Put(events, n, <<proposals>>)
    /\ UNCHANGED <<etcd, local, counts>>

-----------------------------------------------------------------------------
(* The participant. *)

StartElection(n) ==
    /\ ~running[n]
    /\ stopping[n] = "no"
    /\ IF Transition(n, "AWAITING_CREATION")
       THEN /\ running' = Put(running, n, TRUE)
            /\ state' = Put(state, n, "AWAITING_CREATION")
            /\ UNCHANGED <<etcd, answer, handle, created, refresh,
                           backed, isMaster, stopping, watching, counts>>
       ELSE Die(n)

(* CreateProposal, UpdateProposal and DeleteProposal send a request. *)
Send(n, from, to) ==
    /\ state[n] = from
    /\ state' = Put(state, n, to)
    /\ answer' = Put(answer, n, "none")
    /\ UNCHANGED <<etcd, running, handle, created, refresh, backed,
                   isMaster, stopping, watching, counts>>

CreateProposal(n) == Send(n, "AWAITING_CREATION", "CREATING")
UpdateProposal(n) == Send(n, "AWAITING_UPDATE", "UPDATING")
DeleteProposal(n) == Send(n, "AWAITING_DELETE", "DELETING")

(* Mutant: a creation that failed is not tried again. *)
ProposalCreateDoneOnce(n) ==
    /\ state[n] = "CREATING"
    /\ answer[n] # "none"
    /\ answer' = Put(answer, n, "none")
    /\ \/ /\ answer[n] = "error"
          /\ state' = Put(state, n, "NONE")
          /\ UNCHANGED <<refresh, watch>>
       \/ /\ answer[n] = "ok"
          /\ state' = Put(state, n, "UP_TO_DATE")
          /\ refresh' = Put(refresh, n, TRUE)
          /\ watch' = Put(watch, n, "get")
    /\ UNCHANGED <<etcd, running, handle, created, backed, isMaster, stopping,
                   events, counts>>

ProposalCreateDone(n) ==
    /\ state[n] = "CREATING"
    /\ \/ /\ answer[n] = "error"
          /\ state' = Put(state, n, "AWAITING_CREATION")
          /\ answer' = Put(answer, n, "none")
          /\ UNCHANGED <<etcd, running, handle, created, refresh, backed,
                         isMaster, stopping, watching, counts>>
       \/ /\ answer[n] = "ok"
          /\ IF refresh[n] \/ watch[n] # "none" THEN Die(n)
             ELSE /\ state' = Put(state, n, "UP_TO_DATE")
                  /\ answer' = Put(answer, n, "none")
                  /\ refresh' = Put(refresh, n, TRUE)
                  /\ watch' = Put(watch, n, "get")
                  /\ UNCHANGED <<etcd, running, handle, created, backed,
                                 isMaster, stopping, events, counts>>

(* "TODO: Handle this": without a good answer the process dies. *)
ProposalUpdateDone(n) ==
    /\ state[n] = "UPDATING"
    /\ \/ answer[n] = "error" /\ Reboot(n) /\ UNCHANGED <<faults, checkFailed>>
       \/ /\ answer[n] = "ok"
          /\ state' = Put(state, n, "UP_TO_DATE")
          /\ answer' = Put(answer, n, "none")
          /\ UNCHANGED <<etcd, running, handle, created, refresh, backed,
                         isMaster, stopping, watching, counts>>

(* Mutant: an update that has not been sent yet is overlooked. *)
InFlightSent(n) == state[n] = "UPDATING"

(* An update is to be sent or has not been answered. *)
InFlight(n) == state[n] \in {"AWAITING_UPDATE", "UPDATING"}

(* Nothing is on its way to the participants. *)
Quiet ==
    \A n \in Node : events[n] = <<>> /\ watch[n] # "get" /\ ~InFlight(n)

(* ProposalKeepAliveCallback while running_, MaybeUpdateProposal. *)
ProposalKeepAliveCallback(n) ==
    /\ refresh[n]
    /\ running[n]
    /\ ~InFlight(n)
    /\ Delay \/ Quiet
    /\ IF Transition(n, "AWAITING_UPDATE")
       THEN /\ state' = Put(state, n, "AWAITING_UPDATE")
            /\ UNCHANGED <<etcd, running, answer, handle, created, refresh,
                           backed, isMaster, stopping, watching, counts>>
       ELSE Die(n)

(* Mutant: the newest proposal wins. *)
ApparentMastersNewest(dir) ==
    {m \in Node :
        /\ dir[m] # NoProposal
        /\ dir[m].created < IntMax
        /\ \A k \in Node :
              dir[k] # NoProposal => dir[m].created >= dir[k].created}

(* Owners of the proposals that DetermineApparentMaster returns: at most one. *)
ApparentMasters(dir) ==
    {m \in Node :
        /\ dir[m] # NoProposal
        /\ dir[m].created < IntMax
        /\ \A k \in Node :
              dir[k] # NoProposal => dir[m].created <= dir[k].created}

(* Everyone who has not abstained backs m. *)
Agreed(dir, m) ==
    \A k \in Node : dir[k] # NoProposal => dir[k].backing \in {NoBacking, m}

(***************************************************************************)
(* OnProposalUpdate: the view is brought up to date (UpdateProposalView).  *)
(* If another proposal is to be backed from now on, an update is sent,     *)
(* unless one is in flight, and nobody is master for now. Otherwise the    *)
(* owner of the backed proposal is master if all agree.                    *)
(***************************************************************************)
OnProposalUpdate(n) ==
    /\ events[n] # <<>>
    /\ running[n]
    /\ LET dir == Head(events[n])
           apparent == ApparentMasters(dir)
           changed == backed[n] \notin apparent
       IN  \/ /\ apparent # {} /\ changed /\ ~InFlight(n)
              /\ IF Transition(n, "AWAITING_UPDATE")
                 THEN /\ state' = Put(state, n, "AWAITING_UPDATE")
                      /\ \E m \in apparent : backed' = Put(backed, n, m)
                      /\ isMaster' = Put(isMaster, n, FALSE)
                      /\ events' = Put(events, n, Tail(events[n]))
                      /\ UNCHANGED <<etcd, running, answer, handle, created,
                                     refresh, stopping, watch, counts>>
                 ELSE Die(n)
           \/ /\ apparent = {} \/ ~changed \/ InFlight(n)
              /\ isMaster' = Put(isMaster, n,
                    /\ apparent = {n} /\ ~changed
                    /\ Agreed(dir, n)
                    /\ dir[n].created = created[n])
              /\ events' = Put(events, n, Tail(events[n]))
              /\ UNCHANGED <<etcd, running, state, answer, handle, created,
                             refresh, backed, stopping, watch, counts>>

-----------------------------------------------------------------------------
(* StopElection, in the thread of a caller that has been master. *)

(* Up to the release of mutex_. From now on events are ignored. *)
StopElection(n) ==
    /\ running[n]
    /\ stopping[n] = "no"
    /\ watch[n] # "none"
    /\ stops < MaxStops
    /\ stops' = stops + 1
    /\ running' = Put(running, n, FALSE)
    /\ stopping' = Put(stopping, n, "watch")
    /\ UNCHANGED <<etcd, state, answer, handle, created, refresh, backed,
                   isMaster, watching, faults, checkFailed>>

(* The watch is cancelled, and the lock taken again. *)
StopWatch(n) ==
    /\ stopping[n] = "watch"
    /\ stopping' = Put(stopping, n, "update")
    /\ watch' = Put(watch, n, "none")
    /\ events' = Put(events, n, <<>>)
    /\ isMaster' = Put(isMaster, n, FALSE)
    /\ UNCHANGED <<etcd, running, state, answer, handle, created, refresh,
                   backed, counts>>

(* The update in flight is complete. *)
StopRefresh(n) ==
    /\ stopping[n] = "update"
    /\ state[n] = "UP_TO_DATE"
    /\ stopping' = Put(stopping, n, "delete")
    /\ refresh' = Put(refresh, n, FALSE)
    /\ state' = Put(state, n, "AWAITING_DELETE")
    /\ UNCHANGED <<etcd, running, answer, handle, created, backed,
                   isMaster, watching, counts>>

(* Whatever the answer is; StopElection returns. *)
ProposalDeleteDone(n) ==
    /\ state[n] = "DELETING"
    /\ answer[n] # "none"
    /\ state' = Put(state, n, "NONE")
    /\ answer' = Put(answer, n, "none")
    /\ handle' = Put(handle, n, FALSE)
    /\ created' = Put(created, n, 0)
    /\ stopping' = Put(stopping, n, "no")
    /\ UNCHANGED <<etcd, running, refresh, backed, isMaster, watching, counts>>

-----------------------------------------------------------------------------
Request(n) == CreateProposal(n) \/ UpdateProposal(n) \/ DeleteProposal(n)
Etcd(n) == EtcdCreate(n) \/ EtcdUpdate(n) \/ EtcdDelete(n)
Done(n) == ProposalCreateDone(n) \/ ProposalUpdateDone(n) \/ ProposalDeleteDone(n)
StopRest(n) == StopWatch(n) \/ StopRefresh(n)

Next ==
    \E n \in Node :
        \/ StartElection(n) \/ Request(n) \/ Etcd(n) \/ Done(n)
        \/ WatchGet(n) \/ OnProposalUpdate(n) \/ ProposalKeepAliveCallback(n)
        \/ StopElection(n) \/ StopRest(n)
        \/ Expire(n) \/ Crash(n)

Spec == Init /\ [][Next]_vars

(***************************************************************************)
(* Event loops run for ever, etcd answers and expires; starting, stopping  *)
(* and faults need not happen. The answer to an update is not for ever     *)
(* later than the event of the same update, which comes by another         *)
(* connection: otherwise every attempt to back another proposal would be   *)
(* dropped by MaybeUpdateProposal.                                         *)
(***************************************************************************)
Fairness ==
    \A n \in Node :
        /\ WF_vars(Request(n)) /\ WF_vars(Etcd(n)) /\ WF_vars(Done(n))
        /\ WF_vars(WatchGet(n)) /\ WF_vars(OnProposalUpdate(n))
        /\ WF_vars(ProposalKeepAliveCallback(n)) /\ WF_vars(StopRest(n))
        /\ WF_vars(Expire(n) /\ UNCHANGED faults)
        /\ SF_vars(ProposalUpdateDone(n) /\ events[n] # <<>>)

FairSpec == Spec /\ Fairness

-----------------------------------------------------------------------------
(* Properties. *)

(* etcd still has the proposal that n has created. *)
HasProposal(n) ==
    proposals[n] # NoProposal /\ proposals[n].created = created[n]

(***************************************************************************)
(* Of the participants that still have their proposal at most one is       *)
(* master, however far the watches lag and whoever crashes, stops, joins   *)
(* again or loses its proposal (OnProposalUpdate's choice of the lowest    *)
(* created_index_).                                                        *)
(***************************************************************************)
AtMostOneMaster ==
    \A m, n \in Node :
        /\ isMaster[m] /\ HasProposal(m)
        /\ isMaster[n] /\ HasProposal(n)
        => m = n

(***************************************************************************)
(* What the design requires: there is never more than one node for which   *)
(* IsMaster returns true.                                                  *)
(***************************************************************************)
OneMasterEver ==
    \A m, n \in Node : isMaster[m] /\ isMaster[n] => m = n

(***************************************************************************)
(* No CHECK of Transition or ProposalCreateDone fails, in whatever order   *)
(* the answers, events, refreshes and the steps of StopElection come.      *)
(***************************************************************************)
NoCheckFails == ~checkFailed

(***************************************************************************)
(* If from some time on there is always a participant, then there is a     *)
(* master at last, and it stays (the retries of CreateProposal, the watch  *)
(* and the refreshes together).                                            *)
(***************************************************************************)
MasterEmerges ==
    <>[](\E n \in Node : running[n]) => <>[](\E n \in Node : isMaster[n])
=============================================================================
