------------------------ MODULE MasterElectionProofs ------------------------
(***************************************************************************)
(* Theorems about MasterElection, for any number of participants, faults   *)
(* and stops, however far the watches lag.                                 *)
(***************************************************************************)
EXTENDS MasterElection, TLAPS

\* Leaves that name no prover are given to SMT and then to Zenon, with time
\* enough for a busy machine.
USE SMTT(15), ZenonT(25)

-----------------------------------------------------------------------------
(* The inductive invariant. *)

AnyDirectory == [Node -> [created : Nat, backing : Node \cup {NoBacking}]]

Shape ==
    /\ proposals \in AnyDirectory
    /\ index \in Nat
    /\ events \in [Node -> Seq(AnyDirectory)]
    /\ running \in [Node -> BOOLEAN]
    /\ state \in [Node -> ProposalState]
    /\ created \in [Node -> Nat]
    /\ refresh \in [Node -> BOOLEAN]
    /\ watch \in [Node -> {"none", "get", "events"}]
    /\ backed \in [Node -> Node \cup {NoBacking}]
    /\ isMaster \in [Node -> BOOLEAN]
    /\ stopping \in [Node -> {"no", "watch", "update", "delete"}]

\* Where a participant is: it watches and refreshes only while it has a proposal,
\* is master only while it watches, and is stopped step by step.
ControlOf(n) ==
    /\ state[n] \notin {"UP_TO_DATE", "AWAITING_UPDATE", "UPDATING"} =>
          watch[n] = "none" /\ ~refresh[n]
    /\ watch[n] = "none" => events[n] = <<>> /\ ~isMaster[n]
    /\ stopping[n] \in {"update", "delete"} => watch[n] = "none"
    /\ state[n] \in {"NONE", "AWAITING_CREATION", "CREATING"} => stopping[n] = "no"
    /\ ~running[n] /\ stopping[n] = "no" => state[n] = "NONE"

Control == \A n \in Node : ControlOf(n)

\* A proposal has an index that etcd has given.
Numbered(dir) ==
    \A m \in Node : dir[m] # NoProposal => dir[m].created >= 1 /\ dir[m].created <= index

\* A directory with a proposal that is as new as one in etcd has that one too.
Includes(dir) ==
    \A m, k \in Node :
        /\ proposals[m] # NoProposal /\ dir[k] # NoProposal
        /\ proposals[m].created <= dir[k].created
        => dir[m] # NoProposal /\ dir[m].created = proposals[m].created

Distinct ==
    \A m, k \in Node :
        /\ proposals[m] # NoProposal /\ proposals[k] # NoProposal
        /\ proposals[m].created = proposals[k].created
        => m = k

DirectoryInv ==
    /\ Numbered(proposals) /\ Distinct
    /\ \A n \in Node : \A i \in 1 .. Len(events[n]) :
          Numbered(events[n][i]) /\ Includes(events[n][i])
    /\ \A n \in Node : created[n] <= index

\* Nobody's proposal is older than that of a master.
MasterIsFirst ==
    \A n \in Node : isMaster[n] =>
        \A m \in Node : proposals[m] # NoProposal => created[n] <= proposals[m].created

ElectionInv == Shape /\ Control /\ DirectoryInv /\ MasterIsFirst /\ NoCheckFails

-----------------------------------------------------------------------------
(* etcd. *)

\* A directory in which one proposal is new, gone, or written again.
Changed(dir, n) ==
    /\ dir \in AnyDirectory
    /\ \A m \in Node : m # n => dir[m] = proposals[m]
    /\ \/ dir[n] = NoProposal /\ index' = index
       \/ /\ proposals[n] # NoProposal /\ index' = index
          /\ dir[n] # NoProposal /\ dir[n].created = proposals[n].created
       \/ index' = index + 1 /\ dir[n] # NoProposal /\ dir[n].created = index + 1

\* Publishing it keeps what is said of the directories, the new one included.
LEMMA PublishDirectories ==
    ASSUME ElectionInv, NEW n \in Node, NEW dir, Changed(dir, n), Publish(dir),
           \A m \in Node : created'[m] <= index'
    PROVE  DirectoryInv'
<1>1. /\ proposals' = dir /\ dir \in AnyDirectory /\ proposals \in AnyDirectory
      /\ index \in Nat /\ index' \in Nat /\ index <= index'
  BY DEF Publish, Changed, ElectionInv, Shape
<1>2. /\ \A m \in Node : dir[m].created \in Nat /\ proposals[m].created \in Nat
      /\ Numbered(proposals) /\ Distinct
  BY <1>1 DEF AnyDirectory, ElectionInv, DirectoryInv
<1>3. \A m \in Node : dir[m] # NoProposal =>
         \/ proposals[m] # NoProposal /\ dir[m].created = proposals[m].created
         \/ m = n /\ index' = index + 1 /\ dir[m].created = index + 1
  BY Zenon DEF Changed
<1>4. Numbered(proposals)'
  BY <1>1, <1>2, <1>3 DEF Numbered
<1>5. Distinct'
  <2> SUFFICES ASSUME NEW m \in Node, NEW k \in Node, dir[m] # NoProposal,
                      dir[k] # NoProposal, dir[m].created = dir[k].created
               PROVE  m = k
    BY <1>1 DEF Distinct
  <2> QED
    BY <1>1, <1>2, <1>3 DEF Distinct, Numbered
<1>6. ASSUME NEW d \in AnyDirectory, Numbered(d), Includes(d)
      PROVE  /\ \A m \in Node : d[m] # NoProposal => d[m].created >= 1 /\ d[m].created <= index'
             /\ \A m, k \in Node :
                   /\ dir[m] # NoProposal /\ d[k] # NoProposal
                   /\ dir[m].created <= d[k].created
                   => d[m] # NoProposal /\ d[m].created = dir[m].created
  <2>1. \A m \in Node : d[m].created \in Nat
    BY DEF AnyDirectory
  <2>2. \A m \in Node : d[m] # NoProposal => d[m].created >= 1 /\ d[m].created <= index
    BY <1>6 DEF Numbered
  <2>3. ASSUME NEW m \in Node, NEW k \in Node, dir[m] # NoProposal, d[k] # NoProposal,
               dir[m].created <= d[k].created
        PROVE  d[m] # NoProposal /\ d[m].created = dir[m].created
    <3>1. proposals[m] # NoProposal /\ dir[m].created = proposals[m].created
      BY <1>1, <1>2, <1>3, <2>1, <2>2, <2>3
    <3> QED
      BY <1>6, <2>3, <3>1 DEF Includes
  <2> QED
    BY <1>1, <2>1, <2>2, <2>3
<1>7. \A k \in Node : events'[k] = <<>> \/ events'[k] = Append(events[k], dir)
  BY DEF Publish
<1>8. ASSUME NEW k \in Node, NEW i \in 1 .. Len(events'[k])
      PROVE  /\ \A m \in Node : events'[k][i][m] # NoProposal =>
                    events'[k][i][m].created >= 1 /\ events'[k][i][m].created <= index'
             /\ \A m, l \in Node :
                   /\ dir[m] # NoProposal /\ events'[k][i][l] # NoProposal
                   /\ dir[m].created <= events'[k][i][l].created
                   => events'[k][i][m] # NoProposal /\ events'[k][i][m].created = dir[m].created
  <2>1. events'[k] = Append(events[k], dir)
    BY <1>7
  <2>2. events[k] \in Seq(AnyDirectory)
    BY DEF ElectionInv, Shape
  <2>3. CASE i = Len(events[k]) + 1
    <3>1. events'[k][i] = dir
      BY <1>1, <2>1, <2>2, <2>3
    <3>2. \A m \in Node : dir[m] # NoProposal => dir[m].created >= 1 /\ dir[m].created <= index'
      BY <1>1, <1>4 DEF Numbered
    <3>3. \A m, l \in Node :
             /\ dir[m] # NoProposal /\ dir[l] # NoProposal
             /\ dir[m].created <= dir[l].created
             => dir[m] # NoProposal /\ dir[m].created = dir[m].created
      BY Zenon
    <3> QED
      BY <3>1, <3>2, <3>3, Zenon
  <2>4. CASE i \in 1 .. Len(events[k])
    <3>1. events'[k][i] = events[k][i] /\ events[k][i] \in AnyDirectory
      BY <1>1, <2>1, <2>2, <2>4
    <3>2. Numbered(events[k][i]) /\ Includes(events[k][i])
      BY <2>4 DEF ElectionInv, DirectoryInv
    <3> QED
      BY <1>6, <3>1, <3>2, Zenon
  <2> QED
    BY <1>1, <2>1, <2>2, <2>3, <2>4
<1>9. ASSUME NEW k \in Node, NEW i \in 1 .. Len(events'[k])
      PROVE  Numbered(events[k][i])' /\ Includes(events[k][i])'
  <2>1. Numbered(events[k][i])'
    BY <1>8 DEF Numbered
  <2>2. Includes(events[k][i])'
    BY <1>1, <1>8 DEF Includes
  <2> QED
    BY <2>1, <2>2
<1> QED
  BY <1>4, <1>5, <1>9 DEF DirectoryInv

LEMMA PublishShape ==
    ASSUME ElectionInv, NEW dir \in AnyDirectory, Publish(dir)
    PROVE  /\ watch' \in [Node -> {"none", "get", "events"}]
           /\ events' \in [Node -> Seq(AnyDirectory)]
           /\ \A k \in Node : /\ watch'[k] = "none" <=> watch[k] = "none"
                              /\ watch'[k] = "none" => events'[k] = <<>>
<1>1. /\ watch \in [Node -> {"none", "get", "events"}]
      /\ events \in [Node -> Seq(AnyDirectory)]
  BY DEF ElectionInv, Shape
<1>2. watch' = [k \in Node |-> IF watch[k] = "events" /\ Len(events[k]) = History
                               THEN "get" ELSE watch[k]]
  BY DEF Publish
<1>3. \A k \in Node : watch'[k] = watch[k] \/ (watch[k] = "events" /\ watch'[k] = "get")
  BY <1>2
<1>4. events' = [k \in Node |-> IF watch'[k] = "events" THEN Append(events[k], dir)
                                ELSE <<>>]
  BY DEF Publish
<1>5. watch' \in [Node -> {"none", "get", "events"}]
  BY <1>1, <1>2
<1>6. \A k \in Node : Append(events[k], dir) \in Seq(AnyDirectory)
  BY <1>1
<1>7. events' \in [Node -> Seq(AnyDirectory)]
  BY <1>4, <1>6
<1>8. ASSUME NEW k \in Node
      PROVE  /\ watch'[k] = "none" <=> watch[k] = "none"
             /\ watch'[k] = "none" => events'[k] = <<>>
  BY <1>3, <1>4
<1> QED
  BY <1>5, <1>7, <1>8

\* The directory changes; at most, one participant gets the index of its proposal.
LEMMA PublishInv ==
    ASSUME ElectionInv, NEW n \in Node, NEW dir, Changed(dir, n), Publish(dir),
           UNCHANGED <<running, state, refresh, backed, isMaster, stopping, checkFailed>>,
           \/ created' = created
           \/ state[n] = "CREATING" /\ created' = Put(created, n, index')
    PROVE  ElectionInv'
<1>1. /\ proposals' = dir /\ dir \in AnyDirectory /\ proposals \in AnyDirectory
      /\ index \in Nat /\ index' \in Nat /\ index <= index'
      /\ created \in [Node -> Nat]
  BY DEF Publish, Changed, ElectionInv, Shape
<1>2. /\ created' \in [Node -> Nat]
      /\ \A m \in Node : \/ created'[m] = created[m]
                         \/ m = n /\ state[n] = "CREATING" /\ created'[m] = index'
  BY <1>1 DEF Put
<1>3. \A m \in Node : created[m] <= index
  BY DEF ElectionInv, DirectoryInv
<1>4. DirectoryInv'
  <2>1. \A m \in Node : created'[m] <= index'
    BY <1>1, <1>2, <1>3
  <2> QED
    BY <2>1, PublishDirectories
<1>5. Shape'
  BY <1>1, <1>2, PublishShape DEF ElectionInv, Shape
<1>6. Control'
  BY <1>1, PublishShape DEF ElectionInv, Control, ControlOf
<1>7. MasterIsFirst'
  <2> SUFFICES ASSUME NEW k \in Node, isMaster[k], NEW m \in Node, dir[m] # NoProposal
               PROVE  created'[k] <= dir[m].created
    BY <1>1 DEF MasterIsFirst
  <2>1. state[k] # "CREATING"
    BY DEF ElectionInv, Control, ControlOf
  <2>2. created'[k] = created[k] /\ created[k] \in Nat
    BY <1>1, <1>2, <2>1
  <2>3. \/ proposals[m] # NoProposal /\ dir[m].created = proposals[m].created
        \/ dir[m].created = index + 1
    BY Zenon DEF Changed
  <2>4. CASE proposals[m] # NoProposal /\ dir[m].created = proposals[m].created
    BY <2>2, <2>4 DEF ElectionInv, MasterIsFirst
  <2>5. CASE dir[m].created = index + 1
    BY <1>1, <1>3, <2>2, <2>5
  <2> QED
    BY <2>3, <2>4, <2>5
<1> QED
  BY <1>4, <1>5, <1>6, <1>7 DEF ElectionInv, NoCheckFails

-----------------------------------------------------------------------------
(* The participants. *)

Others(n) ==
    \A k \in Node : k # n =>
        /\ events'[k] = events[k] /\ running'[k] = running[k] /\ state'[k] = state[k]
        /\ created'[k] = created[k] /\ refresh'[k] = refresh[k] /\ watch'[k] = watch[k]
        /\ isMaster'[k] = isMaster[k] /\ stopping'[k] = stopping[k]

\* A step of one participant that does not change the directory and queues nothing
\* but its present state.
LEMMA LocalInv ==
    ASSUME ElectionInv, NEW n \in Node, UNCHANGED <<proposals, index, checkFailed>>,
           Shape', Others(n), ControlOf(n)', created'[n] <= index,
           \A i \in 1 .. Len(events'[n]) :
              \/ events'[n][i] = proposals
              \/ \E j \in 1 .. Len(events[n]) : events'[n][i] = events[n][j],
           isMaster'[n] =>
              \A m \in Node : proposals[m] # NoProposal => created'[n] <= proposals[m].created
    PROVE  ElectionInv'
<1>1. Control'
  BY DEF ElectionInv, Control, ControlOf, Others
<1>2. MasterIsFirst'
  BY DEF ElectionInv, MasterIsFirst, Others
<1>3. \A m \in Node : created'[m] <= index
  BY DEF ElectionInv, DirectoryInv, Others
<1>4. Numbered(proposals) /\ Includes(proposals) /\ Distinct
  BY Zenon DEF ElectionInv, DirectoryInv, Includes
<1>5. ASSUME NEW k \in Node, NEW i \in 1 .. Len(events'[k])
      PROVE  Numbered(events'[k][i]) /\ Includes(events'[k][i])
  <2>1. CASE k # n
    BY <2>1 DEF Others, ElectionInv, DirectoryInv
  <2>2. CASE k = n
    BY <1>4, <2>2 DEF ElectionInv, DirectoryInv
  <2> QED
    BY <2>1, <2>2
<1>6. ASSUME NEW k \in Node, NEW i \in 1 .. Len(events'[k])
      PROVE  Numbered(events[k][i])' /\ Includes(events[k][i])'
  BY <1>5 DEF Numbered, Includes
<1>7. DirectoryInv'
  BY <1>3, <1>4, <1>6 DEF DirectoryInv, Numbered, Distinct
<1> QED
  BY <1>1, <1>2, <1>7 DEF ElectionInv, NoCheckFails

\* Starting again, whatever happened before.
LEMMA RebootInv ==
    ASSUME ElectionInv, NEW n \in Node, Reboot(n), UNCHANGED checkFailed
    PROVE  ElectionInv'
<1>1. /\ running' = Put(running, n, TRUE)
      /\ state' = Put(state, n, "AWAITING_CREATION")
      /\ created' = Put(created, n, 0)
      /\ refresh' = Put(refresh, n, FALSE)
      /\ watch' = Put(watch, n, "none")
      /\ events' = Put(events, n, <<>>)
      /\ backed' = Put(backed, n, NoBacking)
      /\ isMaster' = Put(isMaster, n, FALSE)
      /\ stopping' = Put(stopping, n, "no")
      /\ UNCHANGED <<proposals, index>>
  BY DEF Reboot, etcd
<1>2. Shape
  BY DEF ElectionInv
<1>3. <<>> \in Seq(AnyDirectory) /\ "AWAITING_CREATION" \in ProposalState
  BY DEF ProposalState
<1>4. Shape'
  BY <1>1, <1>2, <1>3 DEF Shape, Put
<1>5. Others(n)
  BY <1>1, <1>2 DEF Shape, Put, Others
<1>6. /\ state'[n] = "AWAITING_CREATION" /\ watch'[n] = "none" /\ ~refresh'[n]
      /\ events'[n] = <<>> /\ ~isMaster'[n] /\ stopping'[n] = "no" /\ running'[n]
      /\ created'[n] = 0
  BY <1>1, <1>2 DEF Shape, Put
<1>7. ControlOf(n)' /\ created'[n] <= index /\ ~isMaster'[n] /\ Len(events'[n]) = 0
  BY <1>2, <1>6 DEF ControlOf, Shape
<1>8. /\ \A i \in 1 .. Len(events'[n]) :
            \/ events'[n][i] = proposals
            \/ \E j \in 1 .. Len(events[n]) : events'[n][i] = events[n][j]
      /\ isMaster'[n] =>
            \A m \in Node : proposals[m] # NoProposal => created'[n] <= proposals[m].created
  BY <1>7
<1> QED
  BY <1>1, <1>4, <1>5, <1>7, <1>8, LocalInv, Zenon

\* A step that leaves the queue, the index and the mastership of the participant alone.
LEMMA KeepInv ==
    ASSUME ElectionInv, NEW n \in Node,
           UNCHANGED <<proposals, index, checkFailed, events, isMaster, created>>,
           Shape', Others(n), ControlOf(n)'
    PROVE  ElectionInv'
<1>1. created'[n] <= index
  BY DEF ElectionInv, DirectoryInv
<1>2. \A i \in 1 .. Len(events'[n]) :
         \/ events'[n][i] = proposals
         \/ \E j \in 1 .. Len(events[n]) : events'[n][i] = events[n][j]
  OBVIOUS
<1>3. isMaster'[n] =>
         \A m \in Node : proposals[m] # NoProposal => created'[n] <= proposals[m].created
  BY DEF ElectionInv, MasterIsFirst
<1> QED
  BY <1>1, <1>2, <1>3, LocalInv

LEMMA StartElectionInv ==
    ASSUME ElectionInv, NEW n \in Node, StartElection(n)
    PROVE  ElectionInv'
<1>1. Shape /\ ControlOf(n)
  BY DEF ElectionInv, Control
<1>2. state[n] = "NONE"
  BY <1>1 DEF ControlOf, StartElection
<1>3. Transition(n, "AWAITING_CREATION")
  BY <1>2 DEF Transition
<1>4. /\ running' = Put(running, n, TRUE)
      /\ state' = Put(state, n, "AWAITING_CREATION")
      /\ UNCHANGED <<proposals, index, created, refresh, backed, isMaster, stopping, events,
                     watch, checkFailed>>
  BY <1>3, Zenon DEF StartElection, etcd, watching, counts
<1>5. Shape' /\ Others(n)
  BY <1>1, <1>4 DEF Shape, ProposalState, Put, Others
<1>6. ControlOf(n)'
  BY <1>1, <1>2, <1>4 DEF Shape, ControlOf, Put, StartElection
<1> QED
  BY <1>4, <1>5, <1>6, KeepInv

LEMMA RequestInv ==
    ASSUME ElectionInv, NEW n \in Node, Request(n)
    PROVE  ElectionInv'
<1>1. Shape /\ ControlOf(n)
  BY DEF ElectionInv, Control
<1>2. PICK from \in ProposalState, to \in ProposalState :
         /\ Send(n, from, to)
         /\ <<from, to>> \in {<<"AWAITING_CREATION", "CREATING">>,
                              <<"AWAITING_UPDATE", "UPDATING">>,
                              <<"AWAITING_DELETE", "DELETING">>}
  BY DEF Request, CreateProposal, UpdateProposal, DeleteProposal, ProposalState
<1>3. /\ state[n] = from
      /\ state' = Put(state, n, to)
      /\ UNCHANGED <<proposals, index, running, created, refresh, backed, isMaster, stopping,
                     events, watch, checkFailed>>
  BY <1>2 DEF Send, etcd, watching, counts
<1>4. Shape' /\ Others(n) /\ state'[n] = to
  BY <1>1, <1>3 DEF Shape, Put, Others
<1>5. ControlOf(n)'
  BY <1>1, <1>2, <1>3, <1>4 DEF ControlOf
<1> QED
  BY <1>3, <1>4, <1>5, KeepInv

LEMMA DoneInv ==
    ASSUME ElectionInv, NEW n \in Node, Done(n)
    PROVE  ElectionInv'
<1>1. Shape /\ ControlOf(n)
  BY DEF ElectionInv, Control
<1>2. CASE ProposalCreateDone(n)
  <2>1. state[n] = "CREATING" /\ ~refresh[n] /\ watch[n] = "none" /\ events[n] = <<>>
        /\ ~isMaster[n] /\ running[n] /\ stopping[n] = "no"
    BY <1>1, <1>2 DEF ProposalCreateDone, ControlOf, Shape
  <2>2. /\ UNCHANGED <<proposals, index, running, created, backed, isMaster, stopping, events,
                       checkFailed>>
        /\ \/ state' = Put(state, n, "AWAITING_CREATION") /\ UNCHANGED <<refresh, watch>>
           \/ /\ state' = Put(state, n, "UP_TO_DATE")
              /\ refresh' = Put(refresh, n, TRUE)
              /\ watch' = Put(watch, n, "get")
    BY <1>2, <2>1, Zenon DEF ProposalCreateDone, etcd, watching, counts
  <2>3. Shape' /\ Others(n)
    BY <1>1, <2>2, Zenon DEF Shape, ProposalState, Put, Others
  <2>4. ControlOf(n)'
    BY <1>1, <2>1, <2>2 DEF Shape, ControlOf, Put
  <2> QED
    BY <2>2, <2>3, <2>4, KeepInv
<1>3. CASE ProposalUpdateDone(n)
  <2>1. CASE Reboot(n) /\ UNCHANGED checkFailed
    BY <2>1, RebootInv
  <2>2. CASE /\ state[n] = "UPDATING"
             /\ state' = Put(state, n, "UP_TO_DATE")
             /\ UNCHANGED <<proposals, index, running, created, refresh, backed, isMaster,
                            stopping, events, watch, checkFailed>>
    <3>1. Shape' /\ Others(n) /\ state'[n] = "UP_TO_DATE"
      BY <1>1, <2>2 DEF Shape, ProposalState, Put, Others
    <3>2. ControlOf(n)'
      BY <1>1, <2>2, <3>1 DEF ControlOf
    <3> QED
      BY <2>2, <3>1, <3>2, KeepInv
  <2> QED
    BY <1>3, <2>1, <2>2, Zenon DEF ProposalUpdateDone, etcd, watching, counts
<1>4. CASE ProposalDeleteDone(n)
  <2>1. /\ state[n] = "DELETING"
        /\ state' = Put(state, n, "NONE")
        /\ created' = Put(created, n, 0)
        /\ stopping' = Put(stopping, n, "no")
        /\ UNCHANGED <<proposals, index, running, refresh, backed, isMaster, events, watch,
                       checkFailed>>
    BY <1>4 DEF ProposalDeleteDone, etcd, watching, counts
  <2>2. Shape' /\ Others(n) /\ state'[n] = "NONE" /\ created'[n] = 0 /\ stopping'[n] = "no"
    BY <1>1, <2>1 DEF Shape, ProposalState, Put, Others
  <2>3. ControlOf(n)' /\ ~isMaster'[n] /\ created'[n] <= index
    BY <1>1, <2>1, <2>2 DEF ControlOf, Shape
  <2>4. /\ \A i \in 1 .. Len(events'[n]) :
              \/ events'[n][i] = proposals
              \/ \E j \in 1 .. Len(events[n]) : events'[n][i] = events[n][j]
        /\ isMaster'[n] =>
              \A m \in Node : proposals[m] # NoProposal => created'[n] <= proposals[m].created
    BY <2>1, <2>3
  <2> QED
    BY <2>1, <2>2, <2>3, <2>4, LocalInv
<1> QED
  BY <1>2, <1>3, <1>4 DEF Done

LEMMA WatchGetInv ==
    ASSUME ElectionInv, NEW n \in Node, WatchGet(n)
    PROVE  ElectionInv'
<1>1. Shape /\ ControlOf(n)
  BY DEF ElectionInv, Control
<1>2. /\ watch[n] = "get"
      /\ watch' = Put(watch, n, "events")
      /\ events' = Put(events, n, <<proposals>>)
      /\ UNCHANGED <<proposals, index, running, state, created, refresh, backed, isMaster,
                     stopping, checkFailed>>
  BY DEF WatchGet, etcd, local, counts
<1>3. <<proposals>> \in Seq(AnyDirectory)
  BY <1>1 DEF Shape
<1>4. /\ Shape' /\ Others(n) /\ watch'[n] = "events" /\ events'[n] = <<proposals>>
  BY <1>1, <1>2, <1>3 DEF Shape, Put, Others
<1>5. ControlOf(n)'
  BY <1>1, <1>2, <1>4, Zenon DEF ControlOf
<1>6. /\ created'[n] <= index
      /\ \A i \in 1 .. Len(events'[n]) : events'[n][i] = proposals
      /\ isMaster'[n] =>
            \A m \in Node : proposals[m] # NoProposal => created'[n] <= proposals[m].created
  BY <1>2, <1>4 DEF ElectionInv, DirectoryInv, MasterIsFirst
<1> QED
  BY <1>2, <1>4, <1>5, <1>6, LocalInv

LEMMA KeepAliveInv ==
    ASSUME ElectionInv, NEW n \in Node, ProposalKeepAliveCallback(n)
    PROVE  ElectionInv'
<1>1. Shape /\ ControlOf(n)
  BY DEF ElectionInv, Control
<1>2. state[n] = "UP_TO_DATE"
  BY <1>1 DEF ControlOf, ProposalKeepAliveCallback, InFlight
<1>3. Transition(n, "AWAITING_UPDATE")
  BY <1>2 DEF Transition
<1>4. /\ state' = Put(state, n, "AWAITING_UPDATE")
      /\ UNCHANGED <<proposals, index, running, created, refresh, backed, isMaster, stopping,
                     events, watch, checkFailed>>
  BY <1>3, Zenon DEF ProposalKeepAliveCallback, etcd, watching, counts
<1>5. Shape' /\ Others(n) /\ state'[n] = "AWAITING_UPDATE"
  BY <1>1, <1>4 DEF Shape, ProposalState, Put, Others
<1>6. ControlOf(n)'
  BY <1>1, <1>2, <1>4, <1>5 DEF ControlOf
<1> QED
  BY <1>4, <1>5, <1>6, KeepInv

\* What the participant is told is old, and yet shows every proposal that is older
\* than its own and still there.
LEMMA OnProposalUpdateInv ==
    ASSUME ElectionInv, NEW n \in Node, OnProposalUpdate(n)
    PROVE  ElectionInv'
<1> DEFINE dir == Head(events[n])
           apparent == ApparentMasters(dir)
           changed == backed[n] \notin apparent
           master == /\ apparent = {n} /\ ~changed
                     /\ Agreed(dir, n)
                     /\ dir[n].created = created[n]
<1>1. Shape /\ ControlOf(n) /\ events[n] # <<>>
  BY DEF ElectionInv, Control, OnProposalUpdate
<1>2. /\ events[n] \in Seq(AnyDirectory) /\ 1 \in 1 .. Len(events[n]) /\ dir = events[n][1]
      /\ Tail(events[n]) \in Seq(AnyDirectory)
      /\ \A i \in 1 .. Len(Tail(events[n])) :
            i + 1 \in 1 .. Len(events[n]) /\ Tail(events[n])[i] = events[n][i + 1]
  BY <1>1 DEF Shape
<1>3. /\ dir \in AnyDirectory /\ proposals \in AnyDirectory /\ Includes(dir)
      /\ created[n] \in Nat /\ created[n] <= index
  BY <1>1, <1>2 DEF Shape, ElectionInv, DirectoryInv
<1>4. watch[n] # "none" /\ state[n] \in {"UP_TO_DATE", "AWAITING_UPDATE", "UPDATING"}
  BY <1>1 DEF ControlOf
<1>5. apparent \subseteq Node
  BY DEF ApparentMasters
<1>6. ASSUME master, NEW m \in Node, proposals[m] # NoProposal
      PROVE  created[n] <= proposals[m].created
  <2>1. /\ dir[n] # NoProposal /\ dir[n].created = created[n]
        /\ \A k \in Node : dir[k] # NoProposal => dir[n].created <= dir[k].created
    BY <1>6, Zenon DEF ApparentMasters
  <2>2. proposals[m].created \in Nat
    BY <1>3 DEF AnyDirectory
  <2>3. CASE proposals[m].created <= dir[n].created
    <3>1. dir[m] # NoProposal /\ dir[m].created = proposals[m].created
      BY <1>3, <1>6, <2>1, <2>3, Zenon DEF Includes
    <3> QED
      BY <2>1, <3>1
  <2> QED
    BY <1>3, <2>1, <2>2, <2>3
<1>7. \/ /\ ~InFlight(n)
         /\ IF Transition(n, "AWAITING_UPDATE")
            THEN /\ state' = Put(state, n, "AWAITING_UPDATE")
                 /\ \E m \in apparent : backed' = Put(backed, n, m)
                 /\ isMaster' = Put(isMaster, n, FALSE)
                 /\ events' = Put(events, n, Tail(events[n]))
                 /\ UNCHANGED <<proposals, index, running, created, refresh, stopping, watch,
                                checkFailed>>
            ELSE Die(n)
      \/ /\ isMaster' = Put(isMaster, n, master)
         /\ events' = Put(events, n, Tail(events[n]))
         /\ UNCHANGED <<proposals, index, running, state, created, refresh, backed, stopping,
                        watch, checkFailed>>
  BY Zenon DEF OnProposalUpdate, etcd, counts
<1>8. ~InFlight(n) => Transition(n, "AWAITING_UPDATE")
  BY <1>4 DEF InFlight, Transition
<1>9. master \in BOOLEAN
  OBVIOUS
<1> HIDE DEF dir, apparent, changed, master
<1>10. /\ events' = Put(events, n, Tail(events[n]))
       /\ UNCHANGED <<proposals, index, running, created, refresh, stopping, watch, checkFailed>>
       /\ \/ state' = state
          \/ state' = Put(state, n, "AWAITING_UPDATE")
       /\ \/ backed' = backed
          \/ \E m \in Node : backed' = Put(backed, n, m)
       /\ \/ isMaster' = Put(isMaster, n, FALSE)
          \/ isMaster' = Put(isMaster, n, master)
  BY <1>5, <1>7, <1>8, Zenon
<1>11. \E b \in BOOLEAN : isMaster' = Put(isMaster, n, b) /\ (b => master)
  BY <1>9, <1>10, Zenon
<1>12. PICK b \in BOOLEAN : isMaster' = Put(isMaster, n, b) /\ (b => master)
  BY <1>11
<1>13. /\ events' \in [Node -> Seq(AnyDirectory)] /\ events'[n] = Tail(events[n])
       /\ isMaster' \in [Node -> BOOLEAN] /\ isMaster'[n] = b
       /\ state' \in [Node -> ProposalState]
       /\ state'[n] = state[n] \/ state'[n] = "AWAITING_UPDATE"
       /\ backed' \in [Node -> Node \cup {NoBacking}]
       /\ Others(n)
  <2>1. /\ events' \in [Node -> Seq(AnyDirectory)] /\ events'[n] = Tail(events[n])
        /\ \A k \in Node : k # n => events'[k] = events[k]
    BY <1>1, <1>2, <1>10 DEF Shape, Put
  <2>2. /\ isMaster' \in [Node -> BOOLEAN] /\ isMaster'[n] = b
        /\ \A k \in Node : k # n => isMaster'[k] = isMaster[k]
    BY <1>1, <1>12 DEF Shape, Put
  <2>3. /\ state' \in [Node -> ProposalState]
        /\ state'[n] = state[n] \/ state'[n] = "AWAITING_UPDATE"
        /\ \A k \in Node : k # n => state'[k] = state[k]
    BY <1>1, <1>10, Zenon DEF Shape, Put, ProposalState
  <2>4. backed' \in [Node -> Node \cup {NoBacking}]
    BY <1>1, <1>10, Zenon DEF Shape, Put
  <2> QED
    BY <1>10, <2>1, <2>2, <2>3, <2>4 DEF Others
<1>14. Shape'
  BY <1>1, <1>10, <1>13 DEF Shape
<1>15. ControlOf(n)'
  BY <1>1, <1>4, <1>10, <1>13 DEF ControlOf
<1>16. isMaster'[n] =>
          \A m \in Node : proposals[m] # NoProposal => created'[n] <= proposals[m].created
  BY <1>6, <1>10, <1>12, <1>13
<1>17. \A i \in 1 .. Len(events'[n]) :
          \E j \in 1 .. Len(events[n]) : events'[n][i] = events[n][j]
  BY <1>2, <1>13, Zenon
<1>18. created'[n] <= index
  BY <1>3, <1>10
<1> QED
  BY <1>10, <1>13, <1>14, <1>15, <1>16, <1>17, <1>18, LocalInv

LEMMA StopInv ==
    ASSUME ElectionInv, NEW n \in Node, StopElection(n) \/ StopRest(n)
    PROVE  ElectionInv'
<1>1. Shape /\ ControlOf(n)
  BY DEF ElectionInv, Control
<1>2. CASE StopElection(n)
  <2>1. /\ watch[n] # "none"
        /\ running' = Put(running, n, FALSE)
        /\ stopping' = Put(stopping, n, "watch")
        /\ UNCHANGED <<proposals, index, state, created, refresh, backed, isMaster, events,
                       watch, checkFailed>>
    BY <1>2 DEF StopElection, etcd, watching
  <2>2. Shape' /\ Others(n) /\ stopping'[n] = "watch"
    BY <1>1, <2>1 DEF Shape, Put, Others
  <2>3. ControlOf(n)'
    BY <1>1, <2>1, <2>2, Zenon DEF ControlOf
  <2> QED
    BY <2>1, <2>2, <2>3, KeepInv
<1>3. CASE StopWatch(n)
  <2>1. /\ stopping[n] = "watch"
        /\ stopping' = Put(stopping, n, "update")
        /\ watch' = Put(watch, n, "none")
        /\ events' = Put(events, n, <<>>)
        /\ isMaster' = Put(isMaster, n, FALSE)
        /\ UNCHANGED <<proposals, index, running, state, created, refresh, backed, checkFailed>>
    BY <1>3 DEF StopWatch, etcd, counts
  <2>2. <<>> \in Seq(AnyDirectory)
    OBVIOUS
  <2>3. /\ Shape' /\ Others(n) /\ stopping'[n] = "update" /\ watch'[n] = "none"
        /\ events'[n] = <<>> /\ ~isMaster'[n]
    BY <1>1, <2>1, <2>2 DEF Shape, Put, Others
  <2>4. ControlOf(n)' /\ created'[n] <= index
    BY <1>1, <2>1, <2>3, Zenon DEF ControlOf, ElectionInv, DirectoryInv
  <2>5. /\ \A i \in 1 .. Len(events'[n]) :
              \/ events'[n][i] = proposals
              \/ \E j \in 1 .. Len(events[n]) : events'[n][i] = events[n][j]
        /\ isMaster'[n] =>
              \A m \in Node : proposals[m] # NoProposal => created'[n] <= proposals[m].created
    <3>1. Len(events'[n]) = 0 /\ ~isMaster'[n]
      BY <2>3, Zenon
    <3>2. 1 .. Len(events'[n]) = {}
      BY <3>1
    <3> QED
      BY <3>1, <3>2, Zenon
  <2> QED
    BY <2>1, <2>3, <2>4, <2>5, LocalInv, Zenon
<1>4. CASE StopRefresh(n)
  <2>1. /\ stopping[n] = "update"
        /\ stopping' = Put(stopping, n, "delete")
        /\ refresh' = Put(refresh, n, FALSE)
        /\ state' = Put(state, n, "AWAITING_DELETE")
        /\ UNCHANGED <<proposals, index, running, created, backed, isMaster, events, watch,
                       checkFailed>>
    BY <1>4 DEF StopRefresh, etcd, watching, counts
  <2>2. /\ Shape' /\ Others(n) /\ stopping'[n] = "delete" /\ ~refresh'[n]
        /\ state'[n] = "AWAITING_DELETE"
    BY <1>1, <2>1 DEF Shape, ProposalState, Put, Others
  <2>3. ControlOf(n)'
    BY <1>1, <2>1, <2>2, Zenon DEF ControlOf
  <2> QED
    BY <2>1, <2>2, <2>3, KeepInv, Zenon
<1> QED
  BY <1>2, <1>3, <1>4 DEF StopRest

-----------------------------------------------------------------------------
(* Requests in etcd. *)

\* A request that has no effect in etcd leaves everything but its answer.
LEMMA StutterInv ==
    ASSUME ElectionInv,
           UNCHANGED <<proposals, index, events, running, state, created, refresh, watch,
                       backed, isMaster, stopping, checkFailed>>
    PROVE  ElectionInv'
<1>1. Shape'
  BY DEF ElectionInv, Shape
<1>2. Control'
  BY DEF ElectionInv, Control, ControlOf
<1>3. DirectoryInv'
  <2>1. ASSUME NEW k \in Node, NEW i \in 1 .. Len(events[k])
        PROVE  Numbered(events[k][i])' /\ Includes(events[k][i])'
    <3>1. Numbered(events[k][i]) /\ Includes(events[k][i])
      BY DEF ElectionInv, DirectoryInv
    <3> QED
      BY <3>1 DEF Numbered, Includes
  <2>2. Numbered(proposals)' /\ Distinct' /\ \A k \in Node : created'[k] <= index'
    BY DEF ElectionInv, DirectoryInv, Numbered, Distinct
  <2> QED
    BY <2>1, <2>2 DEF DirectoryInv
<1>4. MasterIsFirst' /\ NoCheckFails'
  BY DEF ElectionInv, MasterIsFirst, NoCheckFails
<1> QED
  BY <1>1, <1>2, <1>3, <1>4 DEF ElectionInv

\* The three ways to change the directory.
LEMMA DirectoryChanges ==
    ASSUME Shape, DirectoryInv, NEW n \in Node
    PROVE  /\ index' = index => Changed([proposals EXCEPT ![n] = NoProposal], n)
           /\ index' = index /\ proposals[n] # NoProposal =>
                 Changed([proposals EXCEPT ![n].backing = backed[n]], n)
           /\ index' = index + 1 =>
                 Changed([proposals EXCEPT
                            ![n] = [created |-> index', backing |-> NoBacking]], n)
<1> DEFINE P == [created : Nat, backing : Node \cup {NoBacking}]
<1>1. /\ proposals \in [Node -> P] /\ index \in Nat /\ backed[n] \in Node \cup {NoBacking}
      /\ proposals[n] \in P
  BY DEF Shape, AnyDirectory
<1>2. NoProposal \in P
  BY DEF NoProposal
<1>3. ASSUME index' = index
      PROVE  Changed([proposals EXCEPT ![n] = NoProposal], n)
  BY <1>1, <1>2, <1>3 DEF Changed, AnyDirectory
<1>4. ASSUME index' = index, proposals[n] # NoProposal
      PROVE  Changed([proposals EXCEPT ![n].backing = backed[n]], n)
  <2> DEFINE p == [proposals[n] EXCEPT !.backing = backed[n]]
  <2>1. p \in P /\ p.created = proposals[n].created /\ NoProposal.created = 0
    BY <1>1 DEF NoProposal
  <2>2. proposals[n].created >= 1
    BY <1>4 DEF DirectoryInv, Numbered
  <2>3. p # NoProposal
    BY <1>1, <2>1, <2>2
  <2>4. [proposals EXCEPT ![n].backing = backed[n]] = [proposals EXCEPT ![n] = p]
    BY <1>1
  <2> HIDE DEF p
  <2>5. Changed([proposals EXCEPT ![n] = p], n)
    BY <1>1, <1>4, <2>1, <2>3 DEF Changed, AnyDirectory
  <2> QED
    BY <2>4, <2>5
<1>5. ASSUME index' = index + 1
      PROVE  Changed([proposals EXCEPT ![n] = [created |-> index', backing |-> NoBacking]], n)
  <2> DEFINE p == [created |-> index', backing |-> NoBacking]
  <2>1. p \in P /\ p.created = index + 1 /\ NoProposal.created = 0
    BY <1>1, <1>5 DEF NoProposal
  <2>2. p # NoProposal
    BY <1>1, <2>1
  <2> HIDE DEF p
  <2>3. Changed([proposals EXCEPT ![n] = p], n)
    BY <1>1, <1>5, <2>1, <2>2 DEF Changed, AnyDirectory
  <2> QED
    BY <2>3 DEF p
<1> QED
  BY <1>3, <1>4, <1>5

LEMMA EtcdInv ==
    ASSUME ElectionInv, NEW n \in Node, Etcd(n) \/ Expire(n)
    PROVE  ElectionInv'
<1>1. Shape /\ DirectoryInv
  BY DEF ElectionInv
<1>2. /\ UNCHANGED <<running, state, refresh, backed, isMaster, stopping, checkFailed>>
      /\ \/ UNCHANGED <<proposals, index, events, watch, created>>
         \/ /\ index' = index /\ created' = created
            /\ Publish([proposals EXCEPT ![n] = NoProposal])
         \/ /\ index' = index /\ created' = created /\ proposals[n] # NoProposal
            /\ Publish([proposals EXCEPT ![n].backing = backed[n]])
         \/ /\ index' = index + 1 /\ state[n] = "CREATING"
            /\ created' = created \/ created' = Put(created, n, index')
            /\ Publish([proposals EXCEPT ![n] = [created |-> index', backing |-> NoBacking]])
  BY Zenon DEF Etcd, EtcdCreate, EtcdUpdate, EtcdDelete, Expire, Refused, etcd, watching, local
<1>3. CASE UNCHANGED <<proposals, index, events, watch, created>>
  BY <1>2, <1>3, StutterInv
<1>4. CASE /\ index' = index /\ created' = created
           /\ Publish([proposals EXCEPT ![n] = NoProposal])
  BY <1>1, <1>2, <1>4, DirectoryChanges, PublishInv, Zenon
<1>5. CASE /\ index' = index /\ created' = created /\ proposals[n] # NoProposal
           /\ Publish([proposals EXCEPT ![n].backing = backed[n]])
  BY <1>1, <1>2, <1>5, DirectoryChanges, PublishInv, Zenon
<1>6. CASE /\ index' = index + 1 /\ state[n] = "CREATING"
           /\ created' = created \/ created' = Put(created, n, index')
           /\ Publish([proposals EXCEPT ![n] = [created |-> index', backing |-> NoBacking]])
  BY <1>1, <1>2, <1>6, DirectoryChanges, PublishInv, Zenon
<1> QED
  BY <1>2, <1>3, <1>4, <1>5, <1>6, Zenon

-----------------------------------------------------------------------------
(* The theorems. *)

LEMMA ElectionInitInv == Init => ElectionInv
<1> SUFFICES ASSUME Init PROVE ElectionInv
  OBVIOUS
<1>1. NoProposal \in [created : Nat, backing : Node \cup {NoBacking}]
  BY DEF NoProposal
<1>2. <<>> \in Seq(AnyDirectory) /\ "NONE" \in ProposalState
  BY DEF ProposalState
<1>3. Shape
  BY <1>1, <1>2 DEF Init, Shape, AnyDirectory, EmptyDirectory
<1>4. Control
  BY DEF Init, Control, ControlOf
<1>5. \A m \in Node : proposals[m] = NoProposal
  BY DEF Init, EmptyDirectory
<1>6. DirectoryInv /\ MasterIsFirst
  BY <1>5 DEF Init, DirectoryInv, Numbered, Distinct, MasterIsFirst
<1> QED
  BY <1>3, <1>4, <1>6 DEF ElectionInv, NoCheckFails, Init

LEMMA ElectionNextInv == ElectionInv /\ [Next]_vars => ElectionInv'
<1> SUFFICES ASSUME ElectionInv, [Next]_vars PROVE ElectionInv'
  OBVIOUS
<1>1. CASE UNCHANGED vars
  BY <1>1, StutterInv DEF vars, etcd, local, watching, counts
<1>2. ASSUME NEW n \in Node, Crash(n)
      PROVE  ElectionInv'
  BY <1>2, RebootInv DEF Crash
<1>3. CASE Next
  BY <1>2, <1>3, StartElectionInv, RequestInv, EtcdInv, DoneInv, WatchGetInv,
     OnProposalUpdateInv, KeepAliveInv, StopInv, Zenon DEF Next
<1> QED
  BY <1>1, <1>3

LEMMA ElectionInvariant == Spec => []ElectionInv
BY ElectionInitInv, ElectionNextInv, PTL DEF Spec

(***************************************************************************)
(* Of the participants that still have their proposal at most one is       *)
(* master (OnProposalUpdate, which sees a directory of some time ago).     *)
(***************************************************************************)
THEOREM OneMaster == Spec => []AtMostOneMaster
<1>1. ElectionInv => AtMostOneMaster
  <2> SUFFICES ASSUME ElectionInv, NEW m \in Node, NEW n \in Node,
                      isMaster[m], HasProposal(m), isMaster[n], HasProposal(n)
               PROVE  m = n
    BY DEF AtMostOneMaster
  <2>1. /\ created[m] \in Nat /\ created[n] \in Nat
        /\ proposals[m] # NoProposal /\ proposals[m].created = created[m]
        /\ proposals[n] # NoProposal /\ proposals[n].created = created[n]
    BY DEF HasProposal, ElectionInv, Shape
  <2>2. created[m] <= created[n] /\ created[n] <= created[m]
    BY <2>1 DEF ElectionInv, MasterIsFirst
  <2>3. proposals[m].created = proposals[n].created
    BY <2>1, <2>2
  <2> QED
    BY <2>1, <2>3 DEF ElectionInv, DirectoryInv, Distinct
<1> QED
  BY <1>1, ElectionInvariant, PTL

(***************************************************************************)
(* The CHECKs of Transition and ProposalCreateDone hold in whatever order  *)
(* answers, events, refreshes and the steps of StopElection come.          *)
(***************************************************************************)
THEOREM ElectionNeverFails == Spec => []NoCheckFails
<1>1. ElectionInv => NoCheckFails
  BY DEF ElectionInv
<1> QED
  BY <1>1, ElectionInvariant, PTL

-----------------------------------------------------------------------------
(* The types, with the bounds of etcd's index and of its event history. *)
Fin == INSTANCE FiniteSetTheorems

Answers == {"none", "ok", "error"}

Bounded ==
    /\ index <= MaxIndex
    /\ \A n \in Node : Len(events[n]) <= History
    /\ answer \in [Node -> Answers]
    /\ handle \in [Node -> BOOLEAN]
    /\ faults \in 0 .. MaxFaults
    /\ stops \in 0 .. MaxStops
    /\ checkFailed \in BOOLEAN

\* There are so many participants, and so many proposals at most.
LEMMA MaxIndexType == MaxIndex \in Nat
<1>1. Cardinality(Node) = Fin!Cardinality(Node)
  BY DEF Cardinality, Fin!Cardinality
<1>2. Fin!IsFiniteSet(Node)
  BY NodeAssumption DEF IsFiniteSet, Fin!IsFiniteSet
<1>3. Fin!Cardinality(Node) \in Nat
  BY Zenon, <1>2, Fin!FS_CardinalityType
<1> QED
  BY <1>1, <1>3, BoundAssumption DEF MaxIndex

\* Only a fault, a stop and a creation use up what is bounded.
LEMMA CountsStep ==
    ASSUME NEW n \in Node,
           \/ StartElection(n) \/ Request(n) \/ Etcd(n) \/ Done(n)
           \/ WatchGet(n) \/ OnProposalUpdate(n) \/ ProposalKeepAliveCallback(n)
           \/ StopElection(n) \/ StopRest(n)
           \/ Expire(n) \/ Crash(n)
    PROVE  /\ faults' = faults \/ Fault
           /\ stops' = stops \/ (stops < MaxStops /\ stops' = stops + 1)
           /\ index' = index \/ (index < MaxIndex /\ index' = index + 1)
           /\ checkFailed' = checkFailed \/ checkFailed' = TRUE
<1> USE DEF etcd, local, watching, counts
<1>1. CASE StartElection(n)
  BY Zenon, <1>1 DEF StartElection, Die, Reboot
<1>2. CASE Request(n)
  BY Zenon, <1>2 DEF Request, CreateProposal, UpdateProposal, DeleteProposal, Send
<1>3. CASE EtcdCreate(n)
  BY Zenon, <1>3 DEF EtcdCreate, Refused
<1>4. CASE EtcdUpdate(n)
  BY Zenon, <1>4 DEF EtcdUpdate, Refused, Answered
<1>5. CASE EtcdDelete(n)
  BY Zenon, <1>5 DEF EtcdDelete, Refused, Answered
<1>6. CASE ProposalCreateDone(n)
  BY Zenon, <1>6 DEF ProposalCreateDone, Die, Reboot
<1>7. CASE ProposalUpdateDone(n)
  BY Zenon, <1>7 DEF ProposalUpdateDone, Reboot
<1>8. CASE ProposalDeleteDone(n)
  BY Zenon, <1>8 DEF ProposalDeleteDone
<1>9. CASE WatchGet(n)
  BY Zenon, <1>9 DEF WatchGet
<1>10. CASE ProposalKeepAliveCallback(n)
  BY Zenon, <1>10 DEF ProposalKeepAliveCallback, Die, Reboot
<1>11. CASE Expire(n) \/ Crash(n)
  BY Zenon, <1>11 DEF Expire, Crash, Reboot
<1>12. CASE OnProposalUpdate(n)
  BY Zenon, <1>12 DEF OnProposalUpdate, Die, Reboot
<1>13. CASE StopElection(n) \/ StopRest(n)
  BY Zenon, <1>13 DEF StopElection, StopRest, StopWatch, StopRefresh
<1> QED
  BY Zenon, <1>1, <1>2, <1>3, <1>4, <1>5, <1>6, <1>7,
     <1>8, <1>9, <1>10, <1>11, <1>12, <1>13 DEF Etcd, Done

\* What a request is answered.
LEMMA AnswersStep ==
    ASSUME NEW n \in Node,
           \/ StartElection(n) \/ Request(n) \/ Etcd(n) \/ Done(n)
           \/ WatchGet(n) \/ OnProposalUpdate(n) \/ ProposalKeepAliveCallback(n)
           \/ StopElection(n) \/ StopRest(n)
           \/ Expire(n) \/ Crash(n)
    PROVE  /\ answer' = answer \/ \E a \in Answers : answer' = Put(answer, n, a)
           /\ handle' = handle \/ \E h \in BOOLEAN : handle' = Put(handle, n, h)
<1> USE DEF etcd, local, watching, counts
<1>a. "none" \in Answers /\ "ok" \in Answers /\ "error" \in Answers
  BY DEF Answers
<1>1. CASE StartElection(n)
  BY Zenon, <1>a, <1>1 DEF StartElection, Die, Reboot
<1>2. CASE Request(n)
  BY Zenon, <1>a, <1>2 DEF Request, CreateProposal, UpdateProposal, DeleteProposal, Send
<1>3. CASE EtcdCreate(n)
  BY Zenon, <1>a, <1>3 DEF EtcdCreate, Refused
<1>4. CASE EtcdUpdate(n)
  BY Zenon, <1>a, <1>4 DEF EtcdUpdate, Refused, Answered
<1>5. CASE EtcdDelete(n)
  BY Zenon, <1>a, <1>5 DEF EtcdDelete, Refused, Answered
<1>6. CASE ProposalCreateDone(n)
  BY Zenon, <1>a, <1>6 DEF ProposalCreateDone, Die, Reboot
<1>7. CASE ProposalUpdateDone(n)
  BY Zenon, <1>a, <1>7 DEF ProposalUpdateDone, Reboot
<1>8. CASE ProposalDeleteDone(n)
  BY Zenon, <1>a, <1>8 DEF ProposalDeleteDone
<1>9. CASE WatchGet(n)
  BY Zenon, <1>a, <1>9 DEF WatchGet
<1>10. CASE ProposalKeepAliveCallback(n)
  BY Zenon, <1>a, <1>10 DEF ProposalKeepAliveCallback, Die, Reboot
<1>11. CASE Expire(n) \/ Crash(n)
  BY Zenon, <1>a, <1>11 DEF Expire, Crash, Reboot
<1>12. CASE OnProposalUpdate(n)
  BY Zenon, <1>a, <1>12 DEF OnProposalUpdate, Die, Reboot
<1>13. CASE StopElection(n) \/ StopRest(n)
  BY Zenon, <1>a, <1>13 DEF StopElection, StopRest, StopWatch, StopRefresh
<1> QED
  BY Zenon, <1>1, <1>2, <1>3, <1>4, <1>5, <1>6, <1>7,
     <1>8, <1>9, <1>10, <1>11, <1>12, <1>13 DEF Etcd, Done

\* Events are published, delivered one by one, and dropped with the watch.
LEMMA EventsStep ==
    ASSUME NEW n \in Node,
           \/ StartElection(n) \/ Request(n) \/ Etcd(n) \/ Done(n)
           \/ WatchGet(n) \/ OnProposalUpdate(n) \/ ProposalKeepAliveCallback(n)
           \/ StopElection(n) \/ StopRest(n)
           \/ Expire(n) \/ Crash(n)
    PROVE  \/ events' = events
           \/ \E dir : Publish(dir)
           \/ events' = Put(events, n, <<>>)
           \/ events' = Put(events, n, <<proposals>>)
           \/ events[n] # <<>> /\ events' = Put(events, n, Tail(events[n]))
<1> USE DEF etcd, local, watching, counts
<1>1. CASE StartElection(n)
  BY Zenon, <1>1 DEF StartElection, Die, Reboot
<1>2. CASE Request(n)
  BY Zenon, <1>2 DEF Request, CreateProposal, UpdateProposal, DeleteProposal, Send
<1>3. CASE EtcdCreate(n)
  BY Zenon, <1>3 DEF EtcdCreate, Refused
<1>4. CASE EtcdUpdate(n)
  BY Zenon, <1>4 DEF EtcdUpdate, Refused, Answered
<1>5. CASE EtcdDelete(n)
  BY Zenon, <1>5 DEF EtcdDelete, Refused, Answered
<1>6. CASE ProposalCreateDone(n)
  BY Zenon, <1>6 DEF ProposalCreateDone, Die, Reboot
<1>7. CASE ProposalUpdateDone(n)
  BY Zenon, <1>7 DEF ProposalUpdateDone, Reboot
<1>8. CASE ProposalDeleteDone(n)
  BY Zenon, <1>8 DEF ProposalDeleteDone
<1>9. CASE WatchGet(n)
  BY Zenon, <1>9 DEF WatchGet
<1>10. CASE ProposalKeepAliveCallback(n)
  BY Zenon, <1>10 DEF ProposalKeepAliveCallback, Die, Reboot
<1>11. CASE Expire(n) \/ Crash(n)
  BY Zenon, <1>11 DEF Expire, Crash, Reboot
<1>12. CASE OnProposalUpdate(n)
  BY Zenon, <1>12 DEF OnProposalUpdate, Die, Reboot
<1>13. CASE StopElection(n) \/ StopRest(n)
  BY Zenon, <1>13 DEF StopElection, StopRest, StopWatch, StopRefresh
<1> QED
  BY Zenon, <1>1, <1>2, <1>3, <1>4, <1>5, <1>6, <1>7,
     <1>8, <1>9, <1>10, <1>11, <1>12, <1>13 DEF Etcd, Done

\* A watch that has History events to deliver is out of date with the next one.
LEMMA PublishLengths ==
    ASSUME ElectionInv, Bounded, NEW dir, Publish(dir), NEW k \in Node
    PROVE  Len(events'[k]) <= History
<1>1. /\ events[k] \in Seq(AnyDirectory) /\ History \in Nat
      /\ Len(events[k]) <= History
  BY BoundAssumption DEF ElectionInv, Shape, Bounded
<1>2. \/ events'[k] = <<>>
      \/ Len(events[k]) # History /\ events'[k] = Append(events[k], dir)
  BY DEF Publish
<1>3. CASE events'[k] = <<>>
  BY <1>1, <1>3
<1>4. CASE Len(events[k]) # History /\ events'[k] = Append(events[k], dir)
  <2>1. Len(events'[k]) = Len(events[k]) + 1
    BY <1>1, <1>4
  <2> QED
    BY <1>1, <1>4, <2>1
<1> QED
  BY <1>2, <1>3, <1>4

\* No step exceeds a bound.
LEMMA BoundedNext == ElectionInv /\ Bounded /\ [Next]_vars => Bounded'
<1> SUFFICES ASSUME ElectionInv, Bounded, [Next]_vars PROVE Bounded'
  OBVIOUS
<1>1. CASE UNCHANGED vars
  BY Zenon, <1>1 DEF vars, etcd, local, watching, counts, Bounded
<1>2. ASSUME NEW n \in Node,
             \/ StartElection(n) \/ Request(n) \/ Etcd(n) \/ Done(n)
             \/ WatchGet(n) \/ OnProposalUpdate(n) \/ ProposalKeepAliveCallback(n)
             \/ StopElection(n) \/ StopRest(n)
             \/ Expire(n) \/ Crash(n)
      PROVE  Bounded'
  <2>1. index' <= MaxIndex
    <3>1. index' = index \/ (index < MaxIndex /\ index' = index + 1)
      BY Zenon, <1>2, CountsStep
    <3> QED
      BY <3>1, MaxIndexType DEF Bounded, ElectionInv, Shape
  <2>2. faults' \in 0 .. MaxFaults /\ stops' \in 0 .. MaxStops
    <3>1. /\ faults' = faults \/ Fault
          /\ stops' = stops \/ (stops < MaxStops /\ stops' = stops + 1)
      BY Zenon, <1>2, CountsStep
    <3> QED
      BY <3>1, BoundAssumption DEF Bounded, Fault
  <2>3. checkFailed' \in BOOLEAN /\ answer' \in [Node -> Answers]
    <3>1. /\ checkFailed' = checkFailed \/ checkFailed' = TRUE
          /\ answer' = answer \/ \E a \in Answers : answer' = Put(answer, n, a)
      BY Zenon, <1>2, CountsStep, AnswersStep
    <3> QED
      BY Zenon, <3>1 DEF Bounded, Put
  <2>4. handle' \in [Node -> BOOLEAN]
    <3>1. handle' = handle \/ \E h \in BOOLEAN : handle' = Put(handle, n, h)
      BY Zenon, <1>2, AnswersStep
    <3> QED
      BY Zenon, <3>1 DEF Bounded, Put
  <2>5. ASSUME NEW k \in Node PROVE Len(events'[k]) <= History
    <3>1. \/ events' = events
          \/ \E dir : Publish(dir)
          \/ events' = Put(events, n, <<>>)
          \/ events' = Put(events, n, <<proposals>>)
          \/ events[n] # <<>> /\ events' = Put(events, n, Tail(events[n]))
      BY Zenon, <1>2, EventsStep
    <3>2. /\ events \in [Node -> Seq(AnyDirectory)] /\ History \in Nat /\ History > 0
          /\ \A m \in Node : Len(events[m]) <= History
      BY BoundAssumption DEF ElectionInv, Shape, Bounded
    <3>3. CASE \E dir : Publish(dir)
      BY Zenon, <3>3, PublishLengths
    <3>4. CASE events[n] # <<>> /\ events' = Put(events, n, Tail(events[n]))
      <4>1. events[n] \in Seq(AnyDirectory) /\ Len(events[n]) <= History
        BY <3>2
      <4>2. Len(Tail(events[n])) = Len(events[n]) - 1
        BY <3>4, <4>1
      <4> QED
        BY <3>2, <3>4, <4>1, <4>2 DEF Put
    <3>5. CASE \/ events' = events \/ events' = Put(events, n, <<>>)
               \/ events' = Put(events, n, <<proposals>>)
      <4>1. CASE events'[k] = events[k]
        BY Zenon, <3>2, <4>1
      <4>2. CASE events'[k] = <<>>
        BY <3>2, <4>2
      <4>3. CASE events'[k] = <<proposals>>
        <5>1. Len(<<proposals>>) = 1
          OBVIOUS
        <5>2. Len(events'[k]) = 1
          BY Zenon, <4>3, <5>1
        <5> QED
          BY <3>2, <5>2
      <4> QED
        BY Zenon, <3>2, <3>5, <4>1, <4>2, <4>3 DEF Put
    <3> QED
      BY Zenon, <3>1, <3>3, <3>4, <3>5
  <2> QED
    BY Zenon, <2>1, <2>2, <2>3, <2>4, <2>5 DEF Bounded
<1> QED
  BY Zenon, <1>1, <1>2 DEF Next

\* A directory whose indices etcd has given is one of bounded indices.
LEMMA NumberedIsDirectory ==
    ASSUME Bounded, index \in Nat, NEW dir \in AnyDirectory, Numbered(dir)
    PROVE  dir \in Directory
<1>1. ASSUME NEW m \in Node PROVE dir[m] \in Proposal \cup {NoProposal}
  <2>1. dir[m] \in [created : Nat, backing : Node \cup {NoBacking}]
    BY DEF AnyDirectory
  <2>2. CASE dir[m] # NoProposal
    <3>1. dir[m].created >= 1 /\ dir[m].created <= index
      BY <2>2 DEF Numbered
    <3>2. dir[m].created \in 1 .. MaxIndex
      BY <2>1, <3>1, MaxIndexType DEF Bounded
    <3> QED
      BY <2>1, <3>2 DEF Proposal
  <2> QED
    BY <2>2
<1> QED
  BY Zenon, <1>1 DEF Directory, AnyDirectory

(***************************************************************************)
(* Every variable keeps its type: no index, event history or count of the  *)
(* election exceeds its bound, and whatever directory a watch still has to *)
(* deliver holds only proposals that etcd has numbered.                    *)
(***************************************************************************)
THEOREM ElectionTypes == Spec => []TypeOK
<1>1. Init => Bounded
  <2> SUFFICES ASSUME Init PROVE Bounded
    OBVIOUS
  <2>1. \A n \in Node : Len(events[n]) <= History
    BY BoundAssumption DEF Init
  <2>2. answer \in [Node -> Answers] /\ handle \in [Node -> BOOLEAN]
    BY DEF Init, Answers
  <2>3. index = 0 /\ faults = 0 /\ stops = 0 /\ checkFailed = FALSE
    BY DEF Init
  <2>4. index <= MaxIndex /\ faults \in 0 .. MaxFaults /\ stops \in 0 .. MaxStops
    BY <2>3, MaxIndexType, BoundAssumption
  <2> QED
    BY Zenon, <2>1, <2>2, <2>3, <2>4 DEF Bounded
<1>2. ElectionInv /\ Bounded => TypeOK
  <2> SUFFICES ASSUME ElectionInv, Bounded PROVE TypeOK
    OBVIOUS
  <2>1. Shape /\ DirectoryInv /\ index \in Nat
    BY DEF ElectionInv, Shape
  <2>2. proposals \in Directory
    BY Zenon, <2>1, NumberedIsDirectory DEF Shape, DirectoryInv
  <2>3. events \in [Node -> Seq(Directory)]
    <3>1. ASSUME NEW n \in Node PROVE events[n] \in Seq(Directory)
      <4>1. events[n] \in Seq(AnyDirectory)
        BY Zenon, <2>1 DEF Shape
      <4>2. \A i \in 1 .. Len(events[n]) : events[n][i] \in AnyDirectory
        BY <4>1
      <4>3. \A i \in 1 .. Len(events[n]) : events[n][i] \in Directory
        BY Zenon, <2>1, <4>2, NumberedIsDirectory DEF DirectoryInv
      <4> QED
        BY <4>1, <4>3
    <3> QED
      BY Zenon, <2>1, <3>1 DEF Shape
  <2>4. index \in 0 .. MaxIndex /\ created \in [Node -> 0 .. MaxIndex]
    <3>1. \A n \in Node : created[n] \in 0 .. MaxIndex
      BY <2>1, MaxIndexType DEF Shape, DirectoryInv, Bounded
    <3>2. index \in 0 .. MaxIndex
      BY <2>1, MaxIndexType DEF Bounded
    <3> QED
      BY Zenon, <2>1, <3>1, <3>2 DEF Shape
  <2> QED
    BY Zenon, <2>1, <2>2, <2>3, <2>4 DEF TypeOK, Shape, Bounded, Answers
<1> QED
  BY <1>1, <1>2, ElectionInvariant, BoundedNext, PTL DEF Spec
=============================================================================
