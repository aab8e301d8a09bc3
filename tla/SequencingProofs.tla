-------------------------- MODULE SequencingProofs --------------------------
(***************************************************************************)
(* Theorems about Sequencing, for all nodes, hashes and bounds: first what *)
(* holds in every environment (SafeInv), then what holds if the            *)
(* environment keeps its promises (Ideal, IdealInv), up to the refinement  *)
(* of PublicLog.                                                           *)
(***************************************************************************)
EXTENDS SequencingSteps, Sequences

\* Leaves that name no prover are given to SMT and then to Zenon, with time
\* enough for a busy machine.
USE SMTT(15), ZenonT(25)

(* A restart of n keeps every variable in its type. *)
LEMMA RestartType ==
    ASSUME TypeOK, NEW n \in Node, Restart(n), faults' \in 0 .. MaxFaults,
           checkFailed' \in BOOLEAN
    PROVE  TypeOK'
  BY Zenon, Constants DEF TypeOK, Restart

(* A failed CHECK keeps the types: the process is restarted. *)
LEMMA DieType ==
    ASSUME TypeOK, NEW n \in Node, Die(n)
    PROVE  TypeOK'
  <1>1. faults' \in 0 .. MaxFaults /\ checkFailed' \in BOOLEAN
    BY Zenon DEF Die, TypeOK
  <1> QED BY Zenon, <1>1, RestartType DEF Die

(* The initial state has the right types. *)
LEMMA InitType == Init => TypeOK
  <1> SUFFICES ASSUME Init PROVE TypeOK
    OBVIOUS
  <1>1. 0 \in 0 .. MaxSct /\ 0 \in 0 .. MaxFaults
    BY BoundAssumption
  <1>2. /\ db \in [Node -> [Number -> Leaf \cup {NoLeaf}]]
        /\ assigned \in [Number -> SUBSET Leaf]
        /\ issued \in SUBSET Leaf
    BY Zenon DEF Init
  <1>3. /\ entries \in [Hash -> Sct \cup {NoSct}]
        /\ mapping \in [Hash -> Number \cup {NoSeq}]
        /\ seqMap \in [Node -> [Hash -> Number \cup {NoSeq}]]
        /\ seqPend \in [Node -> [Hash -> Sct \cup {NoSct}]]
    BY Zenon, Constants DEF Init
  <1> QED BY Zenon, <1>1, <1>2, <1>3, Constants DEF Init, TypeOK

(* The values that SequenceNewEntries leaves behind. *)
LEMMA LifeCycleType ==
    ASSUME TypeOK, NEW n \in Node,
           Crash(n) \/ BecomeMaster(n) \/ LoseMaster(n)
    PROVE  TypeOK'
  <1>1. CASE Crash(n)
    <2>1. faults' \in 0 .. MaxFaults /\ checkFailed' \in BOOLEAN
      BY <1>1, BoundAssumption DEF Crash, TypeOK
    <2> QED BY Zenon, <1>1, <2>1, RestartType DEF Crash
  <1>2. CASE BecomeMaster(n)
    BY Zenon, <1>2 DEF BecomeMaster, TypeOK, seqVars, cleanVars, history
  <1>3. CASE LoseMaster(n)
    BY <1>3, BoundAssumption DEF LoseMaster, TypeOK, seqVars, cleanVars, history
  <1> QED BY Zenon, <1>1, <1>2, <1>3

(* A frontend that is not idle holds a request. *)
Request == [pc : {"create", "get"}, hash : Hash, sct : Sct]

(* A frontend that is not idle has a request with a hash and an SCT. *)
LEMMA FeRequest ==
    ASSUME TypeOK, NEW n \in Node, fe[n].pc \in {"create", "get"}
    PROVE  fe[n] \in Request
  BY DEF TypeOK, Request, Idle

(* The steps of QueueEntry keep the types. *)
LEMMA FrontendType ==
    ASSUME TypeOK, NEW n \in Node, FrontendNext(n)
    PROVE  TypeOK'
  <1> USE DEF feFrame, seqVars, cleanVars
  <1>1. CASE \E h \in Hash : FeDuplicate(n, h)
    BY <1>1 DEF FeDuplicate, TypeOK
  <1>2. CASE \E h \in Hash : FeSign(n, h)
    <2>1. PICK h \in Hash : FeSign(n, h)
      BY Zenon, <1>2
    <2>2. clock' \in Sct /\ clock' \in 0 .. MaxSct
      BY <2>1, BoundAssumption DEF FeSign, TypeOK, Sct
    <2> QED BY Zenon, <2>1, <2>2 DEF FeSign, TypeOK
  <1>3. CASE FeCreate(n)
    <2>0. fe[n] \in Request
      BY Zenon, <1>3, FeRequest DEF FeCreate
    <2>1. fe[n].hash \in Hash /\ fe[n].sct \in Sct
      BY Zenon, <2>0 DEF Request
    <2>2. fe' \in [Node -> Request \cup {Idle}]
      <3>1. [fe[n] EXCEPT !.pc = "get"] \in Request
        BY Zenon, <2>0 DEF Request
      <3>2. \/ fe' = [fe EXCEPT ![n] = Idle]
            \/ fe' = [fe EXCEPT ![n] = [fe[n] EXCEPT !.pc = "get"]]
        BY Zenon, <1>3 DEF FeCreate
      <3>3. fe \in [Node -> Request \cup {Idle}]
        BY Zenon DEF TypeOK, Request
      <3> QED BY Zenon, <3>1, <3>2, <3>3
    <2>3. issued' \in SUBSET Leaf
      BY <1>3, <2>1 DEF FeCreate, TypeOK, Leaf
    <2> QED BY Zenon, <1>3, <2>1, <2>2, <2>3 DEF FeCreate, TypeOK, Request
  <1>4. CASE FeExists(n)
    <2>1. fe[n] \in Request
      BY Zenon, <1>4, FeRequest DEF FeExists
    <2>2. fe' \in [Node -> Request \cup {Idle}]
      BY Zenon, <1>4, <2>1 DEF FeExists, TypeOK, Request
    <2> QED BY Zenon, <1>4, <2>2 DEF FeExists, TypeOK, Request
  <1>5. CASE FeGet(n)
    BY Zenon, <1>5 DEF FeGet, TypeOK
  <1>6. CASE FeReject(n)
    BY Zenon, <1>6 DEF FeReject, TypeOK
  <1> QED BY Zenon, <1>1, <1>2, <1>3, <1>4, <1>5, <1>6 DEF FrontendNext

(* SequenceNewEntries leaves its locals in their types. *)
LEMMA SeqReturnType ==
    ASSUME TypeOK, NEW n \in Node, SeqReturn(n)
    PROVE  /\ seqPc' \in [Node -> {"idle", "next", "mapped", "update", "write"}]
           /\ seqNext' \in [Node -> 0 .. MaxLog]
           /\ seqMap' \in [Node -> [Hash -> Number \cup {NoSeq}]]
           /\ seqPend' \in [Node -> [Hash -> Sct \cup {NoSct}]]
           /\ seqAt' \in [Node -> 0 .. MaxLog]
  BY Zenon, Constants DEF SeqReturn, TypeOK

(* A hash that the node has mapped to a number makes a leaf. *)
LEMMA StoreMappingType ==
    ASSUME TypeOK, NEW n \in Node, StoreMapping(n),
           \A h \in Mapped(seqMap[n]) : seqPend[n][h] \in Sct
    PROVE  /\ mapping' \in [Hash -> Number \cup {NoSeq}]
           /\ seqHandle' \in [Node -> BOOLEAN]
           /\ assigned' \in [Number -> SUBSET Leaf]
  <1>1. /\ mapping' \in [Hash -> Number \cup {NoSeq}]
        /\ seqHandle' \in [Node -> BOOLEAN]
    BY Zenon DEF StoreMapping, TypeOK
  <1>2. ASSUME NEW i \in Number, NEW h \in Hash, seqMap[n][h] = i
        PROVE  LeafOf(n, h) \in Leaf
    <2>1. i # NoSeq
      BY DEF Number, NoSeq
    <2> QED BY Zenon, <1>2, <2>1 DEF LeafOf, Leaf, Mapped
  <1>3. ASSUME NEW i \in Number
        PROVE  {LeafOf(n, h) : h \in {g \in Hash : seqMap[n][g] = i}} \subseteq Leaf
    BY Zenon, <1>2
  <1>4. assigned' \in [Number -> SUBSET Leaf]
    BY Zenon, <1>3 DEF StoreMapping, TypeOK
  <1> QED BY Zenon, <1>1, <1>4

(* The steps of SequenceNewEntries keep the types. *)
LEMMA SequencerType ==
    ASSUME TypeInv, NEW n \in Node, SequencerNext(n)
    PROVE  TypeOK'
  <1> USE DEF seqFrame, cleanVars
  <1>0. TypeOK
    BY Zenon DEF TypeInv
  <1>1. CASE SeqStart(n)
    <2>1. CASE Die(n)
      BY Zenon, <1>0, <2>1, DieType
    <2>2. CASE ~Die(n)
      <3>1. /\ \E next \in 0 .. MaxLog : seqNext' = [seqNext EXCEPT ![n] = next]
            /\ seqPc' = [seqPc EXCEPT ![n] = "next"]
            /\ UNCHANGED <<entries, mapping, db, seqMap, seqHandle, seqPend,
                           seqAt, faults, assigned, seqFrame>>
        BY <1>1, <2>2, Zenon DEF SeqStart
      <3> QED BY <1>0, <3>1 DEF TypeOK
    <2> QED BY Zenon, <2>1, <2>2
  <1>2. CASE SeqReadMapping(n)
    <2>1. CASE Die(n)
      BY Zenon, <1>0, <2>1, DieType
    <2>2. CASE ~Die(n)
      <3>1. /\ seqPc' = [seqPc EXCEPT ![n] = "mapped"]
            /\ seqMap' = [seqMap EXCEPT ![n] = mapping]
            /\ seqHandle' = [seqHandle EXCEPT ![n] = TRUE]
            /\ UNCHANGED <<entries, mapping, db, seqNext, seqPend, seqAt,
                           faults, assigned, seqFrame>>
        BY <1>2, <2>2, Zenon DEF SeqReadMapping
      <3> QED BY Zenon, <1>0, <3>1 DEF TypeOK
    <2> QED BY Zenon, <2>1, <2>2
  <1>3. CASE \E cutoff \in 0 .. MaxSct : SeqNumber(n, cutoff)
    <2>1. PICK cutoff \in 0 .. MaxSct : SeqNumber(n, cutoff)
      BY Zenon, <1>3
    <2>2. CASE Die(n)
      BY Zenon, <1>0, <2>2, DieType
    <2>3. CASE ~Die(n) /\ SeqReturn(n)
      <3>1. /\ seqHandle' = [seqHandle EXCEPT ![n] = FALSE]
               \/ UNCHANGED seqHandle
            /\ UNCHANGED <<entries, mapping, db, faults, assigned, seqFrame>>
        BY <2>1, <2>3, Zenon DEF SeqNumber
      <3> QED BY Zenon, <1>0, <2>3, <3>1, SeqReturnType DEF TypeOK
    <2>4. CASE ~Die(n) /\ ~SeqReturn(n)
      <3>1. /\ seqPc' = [seqPc EXCEPT ![n] = "update"]
            /\ \E new \in [Hash -> Number \cup {NoSeq}] :
                  seqMap' = [seqMap EXCEPT ![n] = new]
            /\ seqPend' = [seqPend EXCEPT ![n] = entries]
            /\ seqNext' = [seqNext EXCEPT ![n] = 0]
            /\ UNCHANGED <<entries, mapping, db, seqHandle, seqAt, faults,
                           assigned, seqFrame>>
        BY <2>1, <2>4, Zenon DEF SeqNumber
      <3> QED BY <1>0, <3>1, Constants DEF TypeOK
    <2> QED BY Zenon, <2>2, <2>3, <2>4
  <1>4. CASE SeqUpdate(n) \/ SeqUpdateLost(n)
    <2>1. /\ mapping' \in [Hash -> Number \cup {NoSeq}]
          /\ seqHandle' \in [Node -> BOOLEAN]
          /\ assigned' \in [Number -> SUBSET Leaf]
      BY Zenon, <1>0, <1>4, StoreMappingType
         DEF TypeInv, PendingKnown, SeqUpdate, SeqUpdateLost
    <2>2. CASE SeqUpdate(n) /\ SeqReturn(n)
      BY Zenon, <1>0, <2>1, <2>2, SeqReturnType DEF SeqUpdate, TypeOK
    <2>3. CASE SeqUpdate(n) /\ ~SeqReturn(n)
      <3>1. /\ seqPc' = [seqPc EXCEPT ![n] = "write"]
            /\ \E size \in 0 .. MaxLog : seqAt' = [seqAt EXCEPT ![n] = size]
            /\ UNCHANGED <<seqNext, seqMap, seqPend>>
            /\ UNCHANGED <<entries, db, faults, seqFrame>>
        BY <2>3, Zenon DEF SeqUpdate
      <3> QED BY <1>0, <2>1, <3>1 DEF TypeOK
    <2>4. CASE SeqUpdateLost(n)
      BY <1>0, <2>1, <2>4, SeqReturnType, BoundAssumption
         DEF SeqUpdateLost, TypeOK
    <2> QED BY Zenon, <1>4, <2>2, <2>3, <2>4
  <1>5. CASE SeqStale(n)
    BY Zenon, <1>0, <1>5, SeqReturnType DEF SeqStale, TypeOK
  <1>6. CASE SeqWrite(n)
    <2>1. PICK h \in Mapped(seqMap[n]) :
             /\ seqMap[n][h] = seqAt[n]
             /\ \/ Die(n)
                \/ /\ db' = [db EXCEPT ![n][seqAt[n]] = LeafOf(n, h)]
                   /\ \/ SeqReturn(n)
                      \/ /\ \E g \in Mapped(seqMap[n]) :
                               seqAt' = [seqAt EXCEPT ![n] = seqMap[n][g]]
                         /\ UNCHANGED <<seqPc, seqNext, seqMap, seqPend>>
                   /\ UNCHANGED <<entries, mapping, seqHandle, faults,
                                  assigned, seqFrame>>
      BY <1>6, Zenon DEF SeqWrite
    <2>2. CASE Die(n)
      BY Zenon, <1>0, <2>2, DieType
    <2>3. CASE ~Die(n)
      <3>1. LeafOf(n, h) \in Leaf
        BY Zenon, <1>6 DEF TypeInv, PendingKnown, SeqWrite, LeafOf, Leaf, Mapped
      <3>2. db' \in [Node -> [Number -> Leaf \cup {NoLeaf}]]
        <4>1. seqAt[n] \in Number
          BY <1>0, <2>1 DEF TypeOK, Mapped
        <4>2. db[n] \in [Number -> Leaf \cup {NoLeaf}]
          BY Zenon, <1>0 DEF TypeOK
        <4>3. [db[n] EXCEPT ![seqAt[n]] = LeafOf(n, h)]
                 \in [Number -> Leaf \cup {NoLeaf}]
          BY Zenon, <3>1, <4>1, <4>2
        <4>4. db' = [db EXCEPT ![n] = [db[n] EXCEPT ![seqAt[n]] = LeafOf(n, h)]]
          BY Zenon, <2>1, <2>3
        <4> QED BY Zenon, <1>0, <4>3, <4>4 DEF TypeOK
      <3>3. CASE SeqReturn(n)
        BY Zenon, <1>0, <2>1, <2>3, <3>2, <3>3, SeqReturnType DEF TypeOK
      <3>4. CASE ~SeqReturn(n)
        <4>1. PICK g \in Mapped(seqMap[n]) :
                 seqAt' = [seqAt EXCEPT ![n] = seqMap[n][g]]
          BY Zenon, <2>1, <2>3, <3>4
        <4>2. seqMap[n][g] \in 0 .. MaxLog
          BY <1>0, <4>1, BoundAssumption DEF TypeOK, Mapped, Number, NoSeq
        <4> QED BY Zenon, <1>0, <2>1, <2>3, <3>2, <3>4, <4>1, <4>2 DEF TypeOK
      <3> QED BY Zenon, <3>3, <3>4
    <2> QED BY Zenon, <2>2, <2>3
  <1> QED BY Zenon, <1>1, <1>2, <1>3, <1>4, <1>5, <1>6 DEF SequencerNext

(* Signing, fetching and serving keep the types. *)
LEMMA TreeType ==
    ASSUME TypeOK, NEW n \in Node, TreeNext(n)
    PROVE  TypeOK'
  <1> USE DEF treeFrame, seqVars, cleanVars, history
  <1>1. CASE UpdateTree(n)
    BY <1>1 DEF UpdateTree, TypeOK
  <1>2. CASE \E m \in Node, i \in Number : Fetch(n, m, i)
    <2>1. PICK m \in Node, i \in Number : Fetch(n, m, i)
      BY Zenon, <1>2
    <2>2. [db[n] EXCEPT ![i] = db[m][i]] \in [Number -> Leaf \cup {NoLeaf}]
      BY DEF TypeOK
    <2>3. db' = [db EXCEPT ![n] = [db[n] EXCEPT ![i] = db[m][i]]]
      BY Zenon, <2>1 DEF Fetch
    <2> QED BY <2>1, <2>2, <2>3 DEF Fetch, TypeOK
  <1>3. CASE SetServingSTH(n)
    <2>1. serving' \in 0 .. MaxLog
      BY <1>3 DEF SetServingSTH, TypeOK
    <2> QED BY Zenon, <1>3, <2>1 DEF SetServingSTH, TypeOK
  <1>4. CASE ServingSTHUpdated(n)
    BY Zenon, <1>4 DEF ServingSTHUpdated, TypeOK
  <1> QED BY Zenon, <1>1, <1>2, <1>3, <1>4 DEF TreeNext

(* The return of CleanupOldEntries keeps the types of its locals. *)
LEMMA CleanReturnType ==
    ASSUME TypeOK, NEW n \in Node, CleanReturn(n)
    PROVE  /\ cleanPc' \in [Node -> {"idle", "read", "delete"}]
           /\ cleanUpTo' \in [Node -> 0 .. MaxLog]
           /\ cleanKeys' \in [Node -> SUBSET Hash]
  BY Zenon, Constants DEF CleanReturn, TypeOK

(* The steps of CleanupOldEntries keep the types. *)
LEMMA CleanupType ==
    ASSUME TypeOK, NEW n \in Node, CleanupNext(n)
    PROVE  TypeOK'
  <1> USE DEF cleanFrame, seqVars, history
  <1>1. CASE CleanStart(n)
    BY Zenon, <1>1 DEF CleanStart, TypeOK
  <1>2. CASE CleanRead(n)
    <2>1. CASE Die(n)
      BY Zenon, <2>1, DieType
    <2>2. CASE ~Die(n)
      <3>1. /\ \/ CleanReturn(n)
               \/ /\ cleanPc' = [cleanPc EXCEPT ![n] = "delete"]
                  /\ cleanKeys' = [cleanKeys EXCEPT ![n] = KeysToDelete(n)]
                  /\ cleanUpTo' = [cleanUpTo EXCEPT ![n] = 0]
            /\ UNCHANGED <<entries, faults, cleanFrame>>
        BY <1>2, <2>2, Zenon DEF CleanRead
      <3>2. KeysToDelete(n) \in SUBSET Hash
        BY Zenon DEF KeysToDelete, Mapped
      <3>3. CASE CleanReturn(n)
        BY Zenon, <3>1, <3>3, CleanReturnType DEF TypeOK
      <3>4. CASE ~CleanReturn(n)
        <4>0. /\ cleanPc' = [cleanPc EXCEPT ![n] = "delete"]
              /\ cleanKeys' = [cleanKeys EXCEPT ![n] = KeysToDelete(n)]
              /\ cleanUpTo' = [cleanUpTo EXCEPT ![n] = 0]
          BY <3>1, <3>4, Zenon
        <4>1. cleanKeys' \in [Node -> SUBSET Hash]
          BY Zenon, <3>2, <4>0 DEF TypeOK
        <4>2. /\ cleanPc' \in [Node -> {"idle", "read", "delete"}]
              /\ cleanUpTo' \in [Node -> 0 .. MaxLog]
          BY Zenon, <4>0, Constants DEF TypeOK
        <4> QED BY Zenon, <3>1, <4>1, <4>2 DEF TypeOK
      <3> QED BY Zenon, <3>3, <3>4
    <2> QED BY Zenon, <2>1, <2>2
  <1>3. CASE \E h \in Hash : CleanDelete(n, h)
    <2>1. PICK h \in Hash : CleanDelete(n, h)
      BY Zenon, <1>3
    <2>2. entries' \in [Hash -> Sct \cup {NoSct}]
      BY Zenon, <2>1 DEF CleanDelete, TypeOK
    <2>3. CASE CleanReturn(n)
      BY Zenon, <2>1, <2>2, <2>3, CleanReturnType DEF CleanDelete, TypeOK
    <2>4. CASE ~CleanReturn(n)
      <3>1. /\ cleanKeys' = [cleanKeys EXCEPT ![n] = cleanKeys[n] \ {h}]
            /\ UNCHANGED <<cleanPc, cleanUpTo>>
            /\ UNCHANGED <<faults, cleanFrame>>
        BY <2>1, <2>4, Zenon DEF CleanDelete
      <3>2. cleanKeys[n] \ {h} \in SUBSET Hash
        BY Zenon DEF TypeOK
      <3>3. cleanKeys' \in [Node -> SUBSET Hash]
        BY Zenon, <3>1, <3>2 DEF TypeOK
      <3> QED BY Zenon, <2>2, <3>1, <3>3 DEF TypeOK
    <2> QED BY Zenon, <2>3, <2>4
  <1>4. CASE CleanFail(n)
    BY <1>4, CleanReturnType, BoundAssumption DEF CleanFail, TypeOK
  <1> QED BY Zenon, <1>1, <1>2, <1>3, <1>4 DEF CleanupNext

(* A step of node n leaves the sequencers of the other nodes alone, except *)
(* that a stored mapping makes their handles stale.                        *)
LEMMA OthersSequencer ==
    ASSUME TypeInv, NEW n \in Node, NEW m \in Node \ {n},
           \/ Crash(n) \/ BecomeMaster(n) \/ LoseMaster(n) \/ FrontendNext(n)
           \/ SequencerNext(n) \/ TreeNext(n) \/ CleanupNext(n)
    PROVE  /\ seqPc'[m] = seqPc[m]
           /\ seqMap'[m] = seqMap[m]
           /\ seqPend'[m] = seqPend[m]
           /\ seqHandle'[m] => seqHandle[m] /\ mapping' = mapping
  <1> USE DEF seqVars, cleanVars, history
  <1>0. TypeOK
    BY Zenon DEF TypeInv
  <1>1. CASE Restart(n)
    BY Zenon, <1>0, <1>1 DEF Restart, TypeOK
  <1>2. CASE Crash(n) \/ BecomeMaster(n) \/ LoseMaster(n)
    BY Zenon, <1>1, <1>2 DEF Crash, BecomeMaster, LoseMaster
  <1>3. CASE FrontendNext(n)
    BY ZenonT(60), <1>3
       DEF FrontendNext, FeDuplicate, FeSign, FeCreate, FeExists, FeGet,
                FeReject, feFrame
  <1>4. CASE TreeNext(n)
    BY Zenon, <1>4
       DEF TreeNext, UpdateTree, Fetch, SetServingSTH, ServingSTHUpdated,
                treeFrame
  <1>5. CASE CleanupNext(n)
    BY Zenon, <1>1, <1>5
       DEF CleanupNext, CleanStart, CleanRead, CleanDelete, CleanFail,
                Die, cleanFrame
  <1>6. CASE SequencerNext(n)
    <2>1. CASE SeqStart(n)
      BY Zenon, <1>0, <1>1, <2>1 DEF SeqStart, Die, TypeOK
    <2>2. CASE SeqReadMapping(n)
      BY Zenon, <1>0, <1>1, <2>2 DEF SeqReadMapping, Die, TypeOK
    <2>3. CASE \E cutoff \in 0 .. MaxSct : SeqNumber(n, cutoff)
      BY <1>0, <1>1, <2>3 DEF SeqNumber, SeqReturn, Die, TypeOK
    <2>4. CASE SeqUpdate(n)
      BY Zenon, <1>0, <2>4 DEF SeqUpdate, StoreMapping, SeqReturn, TypeOK
    <2>5. CASE SeqUpdateLost(n)
      BY Zenon, <1>0, <2>5 DEF SeqUpdateLost, StoreMapping, SeqReturn, TypeOK
    <2>6. CASE SeqStale(n)
      BY Zenon, <1>0, <2>6 DEF SeqStale, SeqReturn, TypeOK
    <2>7. CASE SeqWrite(n)
      BY <1>0, <1>1, <2>7 DEF SeqWrite, SeqReturn, Die, TypeOK
    <2> QED BY Zenon, <1>6, <2>1, <2>2, <2>3, <2>4, <2>5, <2>6, <2>7
               DEF SequencerNext
  <1> QED BY Zenon, <1>2, <1>3, <1>4, <1>5, <1>6

(* Every step keeps the SCTs of the entries that a sequencer has numbered. *)
LEMMA PendingKnownStep ==
    ASSUME TypeInv, NEW n \in Node,
           \/ Crash(n) \/ BecomeMaster(n) \/ LoseMaster(n) \/ FrontendNext(n)
           \/ SequencerNext(n) \/ TreeNext(n) \/ CleanupNext(n)
    PROVE  PendingKnown'
  <1> USE DEF seqVars, cleanVars, history, PendingKnown
  <1>0. TypeOK
    BY Zenon DEF TypeInv
  <1> SUFFICES ASSUME NEW m \in Node, seqPc'[m] \in {"update", "write"},
                      NEW h \in Mapped(seqMap'[m])
               PROVE  seqPend'[m][h] \in Sct
    BY Zenon DEF Mapped
  <1>1. CASE m # n
    BY ZenonT(60), <1>1, OthersSequencer DEF TypeInv
  <1>2. CASE m = n /\ UNCHANGED <<seqMap, seqPend>> /\ seqPc[n] \in {"update", "write"}
    BY Zenon, <1>2 DEF TypeInv
  <1>3. CASE m = n /\ (seqPc'[n] = "idle" \/ seqPc'[n] = "next" \/ seqPc'[n] = "mapped")
    BY Zenon, <1>3
  <1>4. CASE m = n /\ UNCHANGED seqVars
    BY Zenon, <1>4 DEF TypeInv
  <1>5. CASE Restart(n) \/ SeqReturn(n)
    BY Zenon, <1>0, <1>1, <1>3, <1>5 DEF Restart, SeqReturn, TypeOK
  <1>6. CASE Crash(n) \/ BecomeMaster(n) \/ LoseMaster(n)
    BY Zenon, <1>1, <1>4, <1>5, <1>6 DEF Crash, BecomeMaster, LoseMaster
  <1>7. CASE FrontendNext(n)
    BY ZenonT(60), <1>1, <1>4, <1>7
       DEF FrontendNext, FeDuplicate, FeSign, FeCreate,
                FeExists, FeGet, FeReject, feFrame
  <1>8. CASE TreeNext(n)
    BY Zenon, <1>1, <1>4, <1>8 DEF TreeNext, UpdateTree, Fetch, SetServingSTH,
                ServingSTHUpdated, treeFrame
  <1>9. CASE CleanupNext(n)
    BY Zenon, <1>1, <1>4, <1>5, <1>9
       DEF CleanupNext, CleanStart, CleanRead, CleanDelete,
                CleanFail, Die, cleanFrame
  <1>10. CASE SequencerNext(n)
    <2>1. CASE SeqStart(n)
      BY Zenon, <1>0, <1>1, <1>3, <1>5, <2>1 DEF SeqStart, Die, TypeOK
    <2>2. CASE SeqReadMapping(n)
      BY Zenon, <1>0, <1>1, <1>3, <1>5, <2>2 DEF SeqReadMapping, Die, TypeOK
    <2>3. CASE \E cutoff \in 0 .. MaxSct : SeqNumber(n, cutoff)
      <3>1. PICK cutoff \in 0 .. MaxSct : SeqNumber(n, cutoff)
        BY Zenon, <2>3
      <3>2. CASE Die(n) \/ SeqReturn(n)
        BY Zenon, <1>5, <3>2 DEF Die
      <3>3. CASE ~Die(n) /\ ~SeqReturn(n) /\ m = n
        <4>1. PICK new \in [Hash -> Number \cup {NoSeq}] :
                 /\ NewMapping(seqMap[n], seqNext[n], OldEnough(cutoff), new)
                 /\ seqMap' = [seqMap EXCEPT ![n] = new]
                 /\ seqPend' = [seqPend EXCEPT ![n] = entries]
          BY <3>1, <3>3, Zenon DEF SeqNumber
        <4>2. seqMap'[n] = new /\ seqPend'[n] = entries
          BY Zenon, <1>0, <4>1 DEF TypeOK
        <4>3. h \in OldEnough(cutoff)
          BY Zenon, <3>3, <4>1, <4>2 DEF NewMapping
        <4> QED BY Zenon, <1>0, <3>3, <4>2, <4>3 DEF OldEnough, TypeOK
      <3> QED BY Zenon, <1>1, <3>2, <3>3
    <2>4. CASE SeqUpdate(n)
      BY ZenonT(60), <1>1, <1>2, <1>5, <2>4 DEF SeqUpdate
    <2>5. CASE SeqUpdateLost(n) \/ SeqStale(n)
      BY Zenon, <1>5, <2>5 DEF SeqUpdateLost, SeqStale
    <2>6. CASE SeqWrite(n)
      BY Zenon, <1>1, <1>2, <1>5, <2>6 DEF SeqWrite, Die
    <2> QED BY ZenonT(60), <1>10, <2>1, <2>2, <2>3, <2>4, <2>5, <2>6
               DEF SequencerNext
  <1> QED BY Zenon, <1>6, <1>7, <1>8, <1>9, <1>10

(* The state of the cluster stays well-formed; in particular the sequencer *)
(* never stores a leaf without an SCT.                                     *)
THEOREM TypeCorrect == Spec => []TypeInv
  <1>1. Init => TypeInv
    BY Zenon, InitType DEF TypeInv, PendingKnown, Init
  <1>2. TypeInv /\ [Next]_vars => TypeInv'
    <2> SUFFICES ASSUME TypeInv, [Next]_vars PROVE TypeInv'
      OBVIOUS
    <2>1. CASE UNCHANGED vars
      BY Zenon, <2>1 DEF TypeInv, TypeOK, PendingKnown, Mapped, vars, seqVars,
                  cleanVars, history
    <2>2. ASSUME NEW n \in Node,
                 \/ Crash(n) \/ BecomeMaster(n) \/ LoseMaster(n)
                 \/ FrontendNext(n) \/ SequencerNext(n) \/ TreeNext(n)
                 \/ CleanupNext(n)
          PROVE  TypeInv'
      BY Zenon, <2>2, LifeCycleType, FrontendType, SequencerType, TreeType,
         CleanupType, PendingKnownStep DEF TypeInv
    <2> QED BY <2>1, <2>2 DEF Next
  <1> QED BY <1>1, <1>2, PTL DEF Spec

(* The same, for the type invariant alone. *)
THEOREM TypeSafe == Spec => []TypeOK
  BY TypeCorrect, PTL DEF TypeInv

-----------------------------------------------------------------------------
(* A mapping that is contiguous with a tree is so with any larger one. *)
LEMMA ContiguousMonotone ==
    ASSUME NEW m \in [Hash -> Number \cup {NoSeq}], NEW s \in Int, NEW t \in Int,
           s <= t, MappingIsContiguous(m, s)
    PROVE  MappingIsContiguous(m, t)
  <1>1. \A h \in Mapped(m) : m[h] \in Int
    BY BoundAssumption DEF Mapped, Number, NoSeq
  <1> QED BY <1>1 DEF MappingIsContiguous

-----------------------------------------------------------------------------

(* No node caches a serving STH that is not in etcd yet. *)
LEMMA CacheBehindStep ==
    ASSUME TypeInv, CacheBehind, NEW n \in Node, StepOf(n)
    PROVE  CacheBehind'
  <1> USE DEF seqVars, cleanVars, history
  <1>0. /\ serving \in Int /\ serving' \in Int
        /\ cached \in [Node -> Int]
        /\ serving <= serving'
    <2>1. TypeOK /\ serving \in Int /\ cached \in [Node -> Int]
      BY BoundAssumption DEF TypeInv, TypeOK
    <2>2. TypeOK'
      BY Zenon, <2>1, LifeCycleType, FrontendType, SequencerType, TreeType,
         CleanupType
         DEF StepOf, TypeInv
    <2>3. serving' \in Int
      BY <2>2, BoundAssumption DEF TypeOK
    <2> QED BY Zenon, <2>1, <2>3, Growth
  <1>1. CASE UNCHANGED cached
    BY <1>0, <1>1 DEF CacheBehind
  <1>2. CASE Restart(n)
    BY Zenon, <1>0, <1>2 DEF Restart, CacheBehind
  <1>3. CASE Crash(n) \/ BecomeMaster(n) \/ LoseMaster(n)
    BY Zenon, <1>1, <1>2, <1>3 DEF Crash, BecomeMaster, LoseMaster
  <1>4. CASE FrontendNext(n)
    BY Zenon, <1>1, <1>4
       DEF FrontendNext, FeDuplicate, FeSign, FeCreate, FeExists,
                FeGet, FeReject, feFrame
  <1>5. CASE CleanupNext(n)
    BY Zenon, <1>1, <1>2, <1>5
       DEF CleanupNext, CleanStart, CleanRead, CleanDelete,
                CleanFail, Die, cleanFrame
  <1>6. CASE TreeNext(n)
    <2>1. CASE SetServingSTH(n)
      BY <1>0, <2>1 DEF SetServingSTH, CacheBehind
    <2>2. CASE ServingSTHUpdated(n)
      BY Zenon, <1>0, <2>2 DEF ServingSTHUpdated, CacheBehind
    <2>3. CASE UpdateTree(n) \/ \E m \in Node, i \in Number : Fetch(n, m, i)
      BY Zenon, <1>1, <2>3 DEF UpdateTree, Fetch
    <2> QED BY Zenon, <1>6, <2>1, <2>2, <2>3 DEF TreeNext
  <1>7. CASE SequencerNext(n)
    BY Zenon, <1>1, <1>2, <1>7
       DEF SequencerNext, SeqStart, SeqReadMapping, SeqNumber,
                SeqUpdate, SeqUpdateLost, SeqStale, SeqWrite, Die, seqFrame
  <1> QED BY Zenon, <1>3, <1>4, <1>5, <1>6, <1>7 DEF StepOf

(* The mapping changes only when a sequencer stores it. *)
LEMMA MappingChanges ==
    ASSUME TypeInv, NEW n \in Node, StepOf(n)
    PROVE  \/ mapping' = mapping
           \/ /\ SeqUpdate(n) \/ SeqUpdateLost(n)
              /\ seqPc[n] = "update" /\ seqHandle[n] /\ mapping' = seqMap[n]
              /\ serving' = serving
              /\ \A m \in Node : ~seqHandle'[m]
  <1> USE DEF seqVars, cleanVars, history
  <1>1. CASE SeqUpdate(n) \/ SeqUpdateLost(n)
    BY Zenon, <1>1 DEF SeqUpdate, SeqUpdateLost, StoreMapping, seqFrame
  <1>2. CASE SequencerNext(n) /\ ~SeqUpdate(n) /\ ~SeqUpdateLost(n)
    BY ZenonT(60), <1>2
       DEF SequencerNext, SeqStart, SeqReadMapping, SeqNumber, SeqStale,
                SeqWrite, Die, Restart
  <1>3. CASE Crash(n) \/ BecomeMaster(n) \/ LoseMaster(n)
    BY Zenon, <1>3 DEF Crash, Restart, BecomeMaster, LoseMaster
  <1>4. CASE FrontendNext(n)
    BY Zenon, <1>4 DEF FrontendNext, FeDuplicate, FeSign, FeCreate, FeExists,
                FeGet, FeReject, feFrame
  <1>5. CASE CleanupNext(n)
    BY Zenon, <1>5
       DEF CleanupNext, CleanStart, CleanRead, CleanDelete, CleanFail,
                Die, Restart, cleanFrame
  <1>6. CASE TreeNext(n)
    BY Zenon, <1>6
       DEF TreeNext, UpdateTree, Fetch, SetServingSTH, ServingSTHUpdated,
                treeFrame
  <1> QED BY Zenon, <1>1, <1>2, <1>3, <1>4, <1>5, <1>6 DEF StepOf

(* How a sequencer gets to the states "mapped" and "update". *)
LEMMA OwnSequencer ==
    ASSUME TypeInv, NEW n \in Node, StepOf(n), seqPc'[n] \in {"mapped", "update"}
    PROVE  \/ /\ seqPc'[n] = seqPc[n] /\ seqMap'[n] = seqMap[n]
              /\ seqHandle'[n] = seqHandle[n] /\ mapping' = mapping
           \/ seqPc'[n] = "mapped" /\ seqMap'[n] = mapping /\ mapping' = mapping
           \/ \E cutoff \in 0 .. MaxSct, new \in [Hash -> Number \cup {NoSeq}] :
                 /\ seqPc[n] = "mapped" /\ seqPc'[n] = "update"
                 /\ NewMapping(seqMap[n], seqNext[n], OldEnough(cutoff), new)
                 /\ SanityChecks(n, new) /\ MappingChecks(n, new)
                 /\ seqMap'[n] = new /\ seqHandle'[n] = seqHandle[n]
                 /\ mapping' = mapping /\ serving' = serving
  <1> USE DEF seqVars, cleanVars, history
  <1>0. TypeOK
    BY Zenon DEF TypeInv
  <1>1. CASE UNCHANGED <<seqVars, mapping>>
    BY ZenonT(60), <1>1
  <1>2. CASE Restart(n) \/ SeqReturn(n)
    BY Zenon, <1>0, <1>2 DEF Restart, SeqReturn, TypeOK
  <1>3. CASE Crash(n) \/ BecomeMaster(n) \/ LoseMaster(n)
    BY ZenonT(60), <1>1, <1>2, <1>3 DEF Crash, BecomeMaster, LoseMaster
  <1>4. CASE FrontendNext(n)
    BY Zenon, <1>1, <1>4
       DEF FrontendNext, FeDuplicate, FeSign, FeCreate, FeExists,
                FeGet, FeReject, feFrame
  <1>5. CASE CleanupNext(n)
    BY Zenon, <1>1, <1>2, <1>5
       DEF CleanupNext, CleanStart, CleanRead, CleanDelete,
                CleanFail, Die, cleanFrame
  <1>6. CASE TreeNext(n)
    BY Zenon, <1>1, <1>6 DEF TreeNext, UpdateTree, Fetch, SetServingSTH,
                ServingSTHUpdated, treeFrame
  <1>7. CASE SequencerNext(n)
    <2>1. CASE SeqStart(n)
      BY Zenon, <1>0, <1>2, <2>1 DEF SeqStart, Die, TypeOK
    <2>2. CASE SeqReadMapping(n)
      BY Zenon, <1>0, <1>2, <2>2 DEF SeqReadMapping, Die, TypeOK
    <2>3. CASE \E cutoff \in 0 .. MaxSct : SeqNumber(n, cutoff)
      <3>1. PICK cutoff \in 0 .. MaxSct : SeqNumber(n, cutoff)
        BY Zenon, <2>3
      <3>2. CASE Die(n) \/ SeqReturn(n)
        BY Zenon, <1>2, <3>2 DEF Die
      <3>3. CASE ~Die(n) /\ ~SeqReturn(n)
        <4>1. PICK new \in [Hash -> Number \cup {NoSeq}] :
                 /\ seqPc[n] = "mapped"
                 /\ NewMapping(seqMap[n], seqNext[n], OldEnough(cutoff), new)
                 /\ SanityChecks(n, new) /\ MappingChecks(n, new)
                 /\ seqPc' = [seqPc EXCEPT ![n] = "update"]
                 /\ seqMap' = [seqMap EXCEPT ![n] = new]
                 /\ UNCHANGED <<entries, mapping, db, seqHandle, seqAt, faults,
                                assigned, seqFrame>>
          BY <3>1, <3>3, Zenon DEF SeqNumber
        <4>2. /\ seqPc'[n] = "update" /\ seqMap'[n] = new
              /\ seqHandle'[n] = seqHandle[n] /\ mapping' = mapping
              /\ serving' = serving
          BY Zenon, <1>0, <4>1 DEF TypeOK, seqFrame
        <4> QED BY Zenon, <4>1, <4>2
      <3> QED BY Zenon, <3>2, <3>3
    <2>4. CASE SeqUpdate(n)
      BY Zenon, <1>0, <1>2, <2>4 DEF SeqUpdate, TypeOK
    <2>5. CASE SeqUpdateLost(n) \/ SeqStale(n)
      BY ZenonT(60), <1>2, <2>5 DEF SeqUpdateLost, SeqStale
    <2>6. CASE SeqWrite(n)
      BY Zenon, <1>2, <2>6 DEF SeqWrite, Die
    <2> QED BY ZenonT(60), <1>7, <2>1, <2>2, <2>3, <2>4, <2>5, <2>6
               DEF SequencerNext
  <1> QED BY Zenon, <1>3, <1>4, <1>5, <1>6, <1>7 DEF StepOf

(* The integers that the later steps compare. *)
LEMMA TypeOKStep ==
    ASSUME TypeInv, NEW n \in Node, StepOf(n)
    PROVE  /\ TypeOK'
           /\ serving \in Int /\ serving' \in Int /\ serving <= serving'
           /\ cached \in [Node -> Int]
           /\ \A h \in Hash : mapping[h] \in Int
           /\ \A m \in Node, h \in Hash : seqMap[m][h] \in Int
  <1>1. TypeOK
    BY Zenon DEF TypeInv
  <1>2. TypeOK'
    BY Zenon, <1>1, LifeCycleType, FrontendType, SequencerType, TreeType,
       CleanupType
       DEF StepOf, TypeInv
  <1>3. serving \in Int /\ serving' \in Int /\ cached \in [Node -> Int]
    BY SMTT(30), <1>1, <1>2, BoundAssumption DEF TypeOK
  <1>4. \A h \in Hash : mapping[h] \in Int
    BY <1>1, BoundAssumption DEF TypeOK, Number, NoSeq
  <1>5. \A m \in Node, h \in Hash : seqMap[m][h] \in Int
    BY SMTT(30), <1>1, BoundAssumption DEF TypeOK, Number, NoSeq
  <1> QED BY Zenon, <1>2, <1>3, <1>4, <1>5, Growth

(* A number above the serving tree survives the loop and its CHECKs. *)
LEMMA NewMappingKeepsUnserved ==
    ASSUME TypeInv, CacheBehind, NEW n \in Node, NEW cutoff \in 0 .. MaxSct,
           NEW new \in [Hash -> Number \cup {NoSeq}],
           NewMapping(seqMap[n], seqNext[n], OldEnough(cutoff), new),
           SanityChecks(n, new), seqMap[n] = mapping
    PROVE  KeepsUnserved(new)
  <1> SUFFICES ASSUME NEW h \in Hash, mapping[h] >= serving
               PROVE  new[h] = mapping[h]
    BY Zenon DEF KeepsUnserved
  <1>1. /\ serving \in Int /\ serving >= 0 /\ cached[n] \in Int
        /\ cached[n] <= serving /\ mapping[h] \in Int
    BY BoundAssumption DEF TypeInv, TypeOK, CacheBehind, Number, NoSeq
  <1>2. h \in Mapped(seqMap[n])
    BY SMTT(30), <1>1 DEF Mapped, NoSeq
  <1>3. h \in Mapped(new)
    BY <1>1, <1>2 DEF SanityChecks
  <1>4. h \in OldEnough(cutoff)
    BY Zenon, <1>3 DEF NewMapping
  <1> QED BY Zenon, <1>2, <1>4 DEF NewMapping

(* A handle that is still good belongs to the mapping that is stored. *)
LEMMA HandleIsCurrentStep ==
    ASSUME TypeInv, HandleIsCurrent, NEW n \in Node, StepOf(n)
    PROVE  HandleIsCurrent'
  <1> SUFFICES ASSUME NEW m \in Node, seqHandle'[m], seqPc'[m] = "mapped"
               PROVE  seqMap'[m] = mapping'
    BY Zenon DEF HandleIsCurrent
  <1>1. CASE m # n
    BY Zenon, <1>1, OthersSequencer DEF HandleIsCurrent, StepOf
  <1>2. CASE m = n
    BY Zenon, <1>2, OwnSequencer DEF HandleIsCurrent
  <1> QED BY Zenon, <1>1, <1>2

(* What a sequencer is about to store passes the CHECKs and keeps the      *)
(* unserved numbers.                                                       *)
LEMMA UpdateIsSoundStep ==
    ASSUME SafeInv, NEW n \in Node, StepOf(n)
    PROVE  UpdateIsSound'
  <1> SUFFICES ASSUME NEW m \in Node, seqPc'[m] = "update"
               PROVE  /\ MappingIsOrdered(seqMap'[m])
                      /\ MappingIsContiguous(seqMap'[m], serving')
                      /\ seqHandle'[m] => KeepsUnserved(seqMap[m])'
    BY Zenon DEF UpdateIsSound, MappingIsOrdered, MappingIsContiguous, Mapped,
           KeepsUnserved
  <1>0. /\ TypeInv /\ TypeOK /\ CacheBehind /\ HandleIsCurrent /\ UpdateIsSound
        /\ serving \in Int /\ serving' \in Int /\ serving <= serving'
        /\ cached[n] \in Int /\ \A h \in Hash : mapping[h] \in Int
    BY ZenonT(60), TypeOKStep DEF SafeInv, TypeInv
  <1>1. CASE /\ seqPc[m] = "update" /\ seqMap'[m] = seqMap[m]
             /\ seqHandle'[m] => seqHandle[m] /\ mapping' = mapping
    <2>1. MappingIsOrdered(seqMap[m]) /\ MappingIsContiguous(seqMap[m], serving)
      BY Zenon, <1>0, <1>1 DEF UpdateIsSound
    <2>2. MappingIsContiguous(seqMap[m], serving')
      <3>1. seqMap[m] \in [Hash -> Number \cup {NoSeq}]
        BY Zenon, <1>0 DEF TypeOK
      <3> QED BY Zenon, <1>0, <2>1, <3>1, ContiguousMonotone
    <2>3. ASSUME seqHandle'[m], NEW h \in Hash, mapping'[h] >= serving'
          PROVE  seqMap'[m][h] = mapping'[h]
      <3>1. seqHandle[m] /\ KeepsUnserved(seqMap[m])
        BY ZenonT(60), <1>0, <1>1, <2>3 DEF UpdateIsSound
      <3>2. mapping[h] >= serving
        <4>1. mapping' = mapping
          BY Zenon, <1>1, <2>3
        <4>2. /\ serving \in Int /\ serving' \in Int /\ serving <= serving'
              /\ mapping[h] \in Int
          BY Zenon, <1>0
        <4> QED BY <2>3, <4>1, <4>2
      <3>3. seqMap[m][h] = mapping[h]
        BY Zenon, <3>1, <3>2 DEF KeepsUnserved
      <3> QED BY Zenon, <1>1, <2>3, <3>3
    <2>4. seqHandle'[m] => KeepsUnserved(seqMap[m])'
      BY Zenon, <2>3 DEF KeepsUnserved
    <2> QED BY Zenon, <1>1, <2>1, <2>2, <2>4
  <1>2. CASE m # n
    BY Zenon, <1>1, <1>2, <1>0, OthersSequencer DEF StepOf
  <1>3. CASE m = n /\ \E cutoff \in 0 .. MaxSct, new \in [Hash -> Number \cup {NoSeq}] :
                 /\ seqPc[n] = "mapped" /\ seqPc'[n] = "update"
                 /\ NewMapping(seqMap[n], seqNext[n], OldEnough(cutoff), new)
                 /\ SanityChecks(n, new) /\ MappingChecks(n, new)
                 /\ seqMap'[n] = new /\ seqHandle'[n] = seqHandle[n]
                 /\ mapping' = mapping /\ serving' = serving
    <2>1. PICK cutoff \in 0 .. MaxSct, new \in [Hash -> Number \cup {NoSeq}] :
                 /\ seqPc[n] = "mapped" /\ seqPc'[n] = "update"
                 /\ NewMapping(seqMap[n], seqNext[n], OldEnough(cutoff), new)
                 /\ SanityChecks(n, new) /\ MappingChecks(n, new)
                 /\ seqMap'[n] = new /\ seqHandle'[n] = seqHandle[n]
                 /\ mapping' = mapping /\ serving' = serving
      BY Zenon, <1>3
    <2>2. MappingIsOrdered(new) /\ MappingIsContiguous(new, serving)
      <3>1. cached[n] <= serving
        BY Zenon, <1>0 DEF CacheBehind
      <3> QED BY Zenon, <1>0, <2>1, <3>1, ContiguousMonotone DEF MappingChecks
    <2>3. seqHandle[n] => KeepsUnserved(new)
      BY Zenon, <1>0, <2>1, NewMappingKeepsUnserved DEF HandleIsCurrent
    <2> QED BY Zenon, <1>3, <2>1, <2>2, <2>3 DEF KeepsUnserved
  <1>4. CASE m = n
    BY Zenon, <1>1, <1>3, <1>4, <1>0, OwnSequencer
  <1> QED BY ZenonT(60), <1>2, <1>4

(* The stored mapping passes the CHECKs after every step. *)
LEMMA MappingIsSoundStep ==
    ASSUME SafeInv, NEW n \in Node, StepOf(n)
    PROVE  MappingIsSound'
  <1>0. /\ TypeInv /\ TypeOK /\ UpdateIsSound /\ MappingIsSound
        /\ serving \in Int /\ serving' \in Int /\ serving <= serving'
    BY Zenon, TypeOKStep DEF SafeInv, TypeInv
  <1>1. CASE mapping' = mapping
    <2>1. MappingIsContiguous(mapping, serving')
      <3>1. mapping \in [Hash -> Number \cup {NoSeq}]
        BY Zenon, <1>0 DEF TypeOK
      <3> QED BY Zenon, <1>0, <3>1, ContiguousMonotone DEF MappingIsSound
    <2>2. MappingIsOrdered(mapping)' /\ MappingIsContiguous(mapping, serving)'
      BY Zenon, <1>0, <1>1, <2>1
         DEF MappingIsSound, MappingIsOrdered, MappingIsContiguous, Mapped
    <2> QED BY Zenon, <2>2 DEF MappingIsSound
  <1>2. CASE seqPc[n] = "update" /\ mapping' = seqMap[n] /\ serving' = serving
    <2>1. MappingIsOrdered(seqMap[n]) /\ MappingIsContiguous(seqMap[n], serving)
      BY Zenon, <1>0, <1>2 DEF UpdateIsSound
    <2>2. MappingIsOrdered(mapping)'
      BY Zenon, <1>2, <2>1 DEF MappingIsOrdered, Mapped
    <2>3. MappingIsContiguous(mapping, serving)'
      BY Zenon, <1>2, <2>1 DEF MappingIsContiguous, Mapped
    <2> QED BY Zenon, <2>2, <2>3 DEF MappingIsSound
  <1> QED BY ZenonT(60), <1>0, <1>1, <1>2, MappingChanges

(* A tree that a node has announced stays in its database. *)
LEMMA SignedIsStoredStep ==
    ASSUME SafeInv, NEW n \in Node, StepOf(n)
    PROVE  SignedIsStored'
  <1> USE DEF seqVars, cleanVars, history
  <1>0. /\ TypeInv /\ TypeOK /\ SignedIsStored
        /\ \A m \in Node, i \in Number : db[m][i] # NoLeaf => db'[m][i] # NoLeaf
    BY Zenon, Growth DEF SafeInv, TypeInv
  <1>1. CASE UNCHANGED signed
    BY Zenon, <1>0, <1>1 DEF SignedIsStored
  <1>2. CASE Restart(n)
    <2>1. signed' = [signed EXCEPT ![n] = 0]
      BY Zenon, <1>2 DEF Restart
    <2>2. \A i \in Number : ~(i < 0)
      BY BoundAssumption DEF Number
    <2>3. signed'[n] = 0 /\ \A m \in Node \ {n} : signed'[m] = signed[m]
      BY Zenon, <1>0, <2>1 DEF TypeOK
    <2> QED BY Zenon, <1>0, <2>2, <2>3 DEF SignedIsStored
  <1>3. CASE Crash(n) \/ BecomeMaster(n) \/ LoseMaster(n)
    BY Zenon, <1>1, <1>2, <1>3 DEF Crash, BecomeMaster, LoseMaster
  <1>4. CASE FrontendNext(n)
    BY Zenon, <1>1, <1>4
       DEF FrontendNext, FeDuplicate, FeSign, FeCreate, FeExists,
                FeGet, FeReject, feFrame
  <1>5. CASE CleanupNext(n)
    BY Zenon, <1>1, <1>2, <1>5
       DEF CleanupNext, CleanStart, CleanRead, CleanDelete,
                CleanFail, Die, cleanFrame
  <1>6. CASE TreeNext(n)
    <2>1. CASE UpdateTree(n)
      <3>1. PICK size \in 0 .. MaxLog :
               IsTreeSize(db[n], size) /\ signed' = [signed EXCEPT ![n] = size]
        BY ZenonT(60), <2>1 DEF UpdateTree
      <3>2. \A i \in Number : i < size => db[n][i] # NoLeaf
        BY <3>1, BoundAssumption DEF IsTreeSize, Number
      <3> QED BY Zenon, <1>0, <3>1, <3>2 DEF SignedIsStored, TypeOK
    <2>2. CASE ~UpdateTree(n)
      BY Zenon, <1>1, <1>6, <2>2
         DEF TreeNext, Fetch, SetServingSTH, ServingSTHUpdated
    <2> QED BY Zenon, <2>1, <2>2
  <1>7. CASE SequencerNext(n)
    BY Zenon, <1>1, <1>2, <1>7
       DEF SequencerNext, SeqStart, SeqReadMapping, SeqNumber,
                SeqUpdate, SeqUpdateLost, SeqStale, SeqWrite, Die, seqFrame
  <1> QED BY Zenon, <1>3, <1>4, <1>5, <1>6, <1>7 DEF StepOf



(* The nodes that announced the new serving tree are the ones that keep it. *)
LEMMA ServedIsReplicatedStep ==
    ASSUME SafeInv, NEW n \in Node, StepOf(n)
    PROVE  ServedIsReplicated'
  <1>0. /\ TypeInv /\ TypeOK /\ SignedIsStored /\ ServedIsReplicated
        /\ \A m \in Node, i \in Number : db[m][i] # NoLeaf => db'[m][i] # NoLeaf
    BY Zenon, Growth DEF SafeInv, TypeInv
  <1>1. CASE serving' = serving
    <2>1. PICK Q \in SUBSET Node :
             /\ Cardinality(Q) >= MinServingNodes \/ serving = 0
             /\ \A m \in Q, i \in Number : i < serving => db[m][i] # NoLeaf
      BY Zenon, <1>0 DEF ServedIsReplicated
    <2>2. \A m \in Q, i \in Number : i < serving' => db'[m][i] # NoLeaf
      BY Zenon, <1>0, <1>1, <2>1
    <2> QED BY Zenon, <1>1, <2>1, <2>2 DEF ServedIsReplicated
  <1>2. CASE SetServingSTH(n)
    <2>1. PICK m \in Node : CanServe(signed[m]) /\ serving' = signed[m]
      BY Zenon, <1>2 DEF SetServingSTH
    <2> DEFINE Q == {k \in Node : signed[k] >= serving'}
    <2>2. Cardinality(Q) >= MinServingNodes
      BY Zenon, <2>1 DEF CanServe
    <2>3. ASSUME NEW k \in Q, NEW i \in Number, i < serving'
          PROVE  db'[k][i] # NoLeaf
      <3>1. i < signed[k]
        <4>1. k \in Node /\ signed[k] >= serving'
          OBVIOUS
        <4>2. signed \in [Node -> 0 .. MaxLog]
          BY Zenon, <1>0 DEF TypeOK
        <4>3. signed[k] \in Int /\ serving' \in Int
          BY <2>1, <4>1, <4>2
        <4>4. i \in Int
          BY DEF Number
        <4> QED BY <2>3, <4>1, <4>3, <4>4
      <3> QED BY Zenon, <1>0, <3>1 DEF SignedIsStored
    <2>4. Q \in SUBSET Node
      OBVIOUS
    <2> HIDE DEF Q
    <2> QED BY Zenon, <2>2, <2>3, <2>4 DEF ServedIsReplicated
  <1> QED BY Zenon, <1>0, <1>1, <1>2, ServingChanges

(* The initial state satisfies the invariant: no tree, no numbers. *)
LEMMA InitSafe == Init => SafeInv
  <1> SUFFICES ASSUME Init PROVE SafeInv
    OBVIOUS
  <1>1. TypeInv
    BY Zenon, InitType DEF TypeInv, PendingKnown, Init
  <1>2. CacheBehind /\ HandleIsCurrent /\ UpdateIsSound
    BY DEF Init, CacheBehind, HandleIsCurrent, UpdateIsSound
  <1>3. MappingIsSound
    <2>1. Mapped(mapping) = {}
      BY Zenon DEF Init, Mapped, EmptyMapping
    <2> QED BY Zenon, <2>1
               DEF MappingIsSound, MappingIsOrdered, MappingIsContiguous
  <1>4. SignedIsStored
    BY BoundAssumption DEF Init, SignedIsStored, Number
  <1>5. ServedIsReplicated
    <2>1. serving = 0 /\ {} \in SUBSET Node
      BY Zenon DEF Init
    <2> QED BY Zenon, <2>1 DEF ServedIsReplicated
  <1> QED BY Zenon, <1>1, <1>2, <1>3, <1>4, <1>5 DEF SafeInv

(* Every step keeps the invariant. *)
LEMMA SafeStep == SafeInv /\ TypeInv' /\ [Next]_vars => SafeInv'
  <1> SUFFICES ASSUME SafeInv, TypeInv', [Next]_vars PROVE SafeInv'
    OBVIOUS
  <1>1. CASE UNCHANGED vars
    <2>1. UNCHANGED <<mapping, serving, signed, cached, db, seqPc, seqMap, seqHandle>>
      BY Zenon, <1>1 DEF vars, seqVars
    <2>2. CacheBehind' /\ HandleIsCurrent' /\ SignedIsStored'
      BY Zenon, <2>1 DEF SafeInv, CacheBehind, HandleIsCurrent, SignedIsStored
    <2>3. MappingIsSound'
      BY Zenon, <2>1 DEF SafeInv, MappingIsSound, MappingIsOrdered,
                         MappingIsContiguous, Mapped
    <2>4. ASSUME NEW n \in Node, seqPc'[n] = "update"
          PROVE  /\ MappingIsOrdered(seqMap[n])'
                 /\ MappingIsContiguous(seqMap[n], serving)'
                 /\ seqHandle'[n] => KeepsUnserved(seqMap[n])'
      <3>1. /\ MappingIsOrdered(seqMap[n])
            /\ MappingIsContiguous(seqMap[n], serving)
            /\ seqHandle[n] => KeepsUnserved(seqMap[n])
        BY Zenon, <2>1, <2>4 DEF SafeInv, UpdateIsSound
      <3>2. MappingIsOrdered(seqMap[n])'
        BY Zenon, <2>1, <3>1 DEF MappingIsOrdered, Mapped
      <3>3. MappingIsContiguous(seqMap[n], serving)'
        BY Zenon, <2>1, <3>1 DEF MappingIsContiguous, Mapped
      <3>4. seqHandle'[n] => KeepsUnserved(seqMap[n])'
        BY Zenon, <2>1, <3>1 DEF KeepsUnserved
      <3> QED BY Zenon, <3>2, <3>3, <3>4
    <2>5. ServedIsReplicated'
      BY Zenon, <2>1 DEF SafeInv, ServedIsReplicated
    <2> QED BY Zenon, <2>2, <2>3, <2>4, <2>5 DEF SafeInv, UpdateIsSound
  <1>2. ASSUME NEW n \in Node, StepOf(n) PROVE SafeInv'
    <2>1. TypeInv /\ CacheBehind /\ HandleIsCurrent
      BY Zenon DEF SafeInv
    <2> QED BY Zenon, <1>2, <2>1, CacheBehindStep, MappingIsSoundStep,
               HandleIsCurrentStep, UpdateIsSoundStep, SignedIsStoredStep,
               ServedIsReplicatedStep DEF SafeInv
  <1> QED BY Zenon, <1>1, <1>2 DEF Next, StepOf

(***************************************************************************)
(* The invariant of SequenceNewEntries, SetServingSTH and UpdateTree holds *)
(* in every reachable state of every environment.                          *)
(***************************************************************************)
THEOREM Safe == Spec => []SafeInv
  BY TypeCorrect, InitSafe, SafeStep, PTL DEF Spec

(***************************************************************************)
(* The mapping stored in etcd passes the CHECKs of EtcdConsistentStore     *)
(* against the real serving STH.                                           *)
(***************************************************************************)
THEOREM MappingSound == Spec => []MappingIsSound
  <1>1. SafeInv => MappingIsSound
    BY DEF SafeInv
  <1> QED BY <1>1, Safe, PTL

(***************************************************************************)
(* What SetServingSTH has made the cluster serve is in the databases of    *)
(* MinServingNodes nodes.                                                  *)
(***************************************************************************)
THEOREM ServedReplicated == Spec => []ServedIsReplicated
  <1>1. SafeInv => ServedIsReplicated
    BY DEF SafeInv
  <1> QED BY <1>1, Safe, PTL

(* A write of the mapping keeps every number above the serving tree. *)
LEMMA UnservedStep ==
    ASSUME SafeInv, [Next]_vars
    PROVE  [\A h \in Hash : mapping[h] >= serving => mapping'[h] = mapping[h]]_vars
  <1>1. CASE UNCHANGED vars
    BY Zenon, <1>1
  <1>2. ASSUME NEW n \in Node, StepOf(n)
        PROVE  \A h \in Hash : mapping[h] >= serving => mapping'[h] = mapping[h]
    <2>1. TypeInv /\ UpdateIsSound
      BY Zenon DEF SafeInv
    <2>2. \/ mapping' = mapping
          \/ seqPc[n] = "update" /\ seqHandle[n] /\ mapping' = seqMap[n]
      BY Zenon, <1>2, <2>1, MappingChanges
    <2> QED BY Zenon, <2>1, <2>2 DEF UpdateIsSound, KeepsUnserved
  <1> QED BY Zenon, <1>1, <1>2 DEF Next, StepOf

(***************************************************************************)
(* Whatever masters overlap and however late their watches are, no         *)
(* UpdateSequenceMapping takes away or changes a number above the tree     *)
(* that is served.                                                         *)
(***************************************************************************)
THEOREM UnservedStay == Spec => UnservedNumbersStay
  BY Safe, UnservedStep, PTL DEF Spec, UnservedNumbersStay

(* A new log satisfies the invariant. *)
LEMMA InitIdeal == Init => IdealInv
  <1> SUFFICES ASSUME Init PROVE IdealInv
    OBVIOUS
  <1>0. /\ \A h \in Hash : entries[h] = NoSct /\ mapping[h] = NoSeq
        /\ Mapped(mapping) = {} /\ serving = 0
        /\ \A n \in Node : /\ ~master[n] /\ seqPc[n] = "idle" /\ cleanPc[n] = "idle"
                           /\ cached[n] = 0 /\ cleanUpTo[n] = 0 /\ cleanKeys[n] = {}
                           /\ fe[n] = Idle
        /\ \A i \in Number : assigned[i] = {}
        /\ \A n \in Node, i \in Number : db[n][i] = NoLeaf
        /\ issued = {} /\ checkFailed = FALSE /\ clock = 0
    BY Zenon DEF Init, NoEntries, EmptyMapping, Mapped
  <1>1. OneActive /\ CacheIsCurrent /\ HandleIsHeld /\ NextIsFree
        /\ UpdatesAreNext /\ WriteIsAssigned
    BY <1>0 DEF OneActive, Active, CacheIsCurrent, HandleIsHeld, NextIsFree,
                UpdatesAreNext, WriteIsAssigned
  <1>2. SctsAreUnique
    BY <1>0 DEF SctsAreUnique, Idle, NoSct
  <1>3. LogInv
    <2>1. \A i \in Number : ~(i < serving)
      BY <1>0, BoundAssumption DEF Number
    <2>2. NumbersAreStable /\ HashesAreOnce /\ PendingIsMapped /\ UnservedIsPending
      BY Zenon, <1>0 DEF NumbersAreStable, HashesAreOnce, PendingIsMapped,
                         UnservedIsPending
    <2>3. MappedIsAssigned /\ AssignedIsInitial /\ MappingReaches /\ DeletedInOrder
      BY Zenon, <1>0, <2>1 DEF MappedIsAssigned, AssignedIsInitial,
                               MappingReaches, DeletedInOrder
    <2> QED BY Zenon, <2>2, <2>3 DEF LogInv
  <1>4. StoredIsAssigned /\ CleanKeysAreServed /\ IssuedIsLogged /\ NoCheckFails
    BY Zenon, <1>0 DEF StoredIsAssigned, CleanKeysAreServed, IssuedIsLogged,
                       NoCheckFails
  <1>5. CleanUpToServed /\ ServedIsStored
    BY <1>0, BoundAssumption DEF CleanUpToServed, ServedIsStored, Number
  <1> QED BY Zenon, <1>1, <1>2, <1>3, <1>4, <1>5, InitSafe DEF IdealInv

(***************************************************************************)
(* The invariant of the whole pipeline, from AddPendingEntry to            *)
(* CleanupOldEntries, if the environment keeps its promises.               *)
(***************************************************************************)
THEOREM IdealSafe == ASSUME Ideal PROVE Spec => []IdealInv
  BY Safe, InitIdeal, IdealStep, PTL DEF Spec

(***************************************************************************)
(* No sequence number is ever committed by UpdateSequenceMapping for two   *)
(* leaves, whoever crashes and whatever answer is lost.                    *)
(***************************************************************************)
THEOREM NumbersStable == ASSUME Ideal PROVE Spec => []NumbersAreStable
  <1>1. IdealInv => NumbersAreStable
    BY DEF IdealInv, LogInv
  <1> QED BY <1>1, IdealSafe, PTL

(***************************************************************************)
(* SequenceNewEntries and the fetchers never give two databases different  *)
(* entries under one number.                                               *)
(***************************************************************************)
THEOREM DatabasesAgreeAlways == ASSUME Ideal PROVE Spec => []DatabasesAgree
  <1>1. IdealInv => DatabasesAgree
    BY Zenon DEF IdealInv, LogInv, NumbersAreStable, StoredIsAssigned,
                 DatabasesAgree
  <1> QED BY <1>1, IdealSafe, PTL

(***************************************************************************)
(* No CHECK of SequenceNewEntries, GetSequenceMapping, CleanupOldEntries   *)
(* or of the write to the local database ever fails.                       *)
(***************************************************************************)
THEOREM ChecksHold == ASSUME Ideal PROVE Spec => []NoCheckFails
  <1>1. IdealInv => NoCheckFails
    BY DEF IdealInv
  <1> QED BY <1>1, IdealSafe, PTL

(* A write of the mapping keeps the number of every pending entry. *)
LEMMA SequencedStep ==
    ASSUME IdealInv, [Next]_vars
    PROVE  [\A h \in Hash : mapping[h] # NoSeq /\ entries[h] # NoSct
                              => mapping'[h] = mapping[h]]_vars
  <1>1. CASE UNCHANGED vars
    BY Zenon, <1>1
  <1>2. ASSUME NEW n \in Node, StepOf(n), NEW h \in Hash,
               mapping[h] # NoSeq, entries[h] # NoSct
        PROVE  mapping'[h] = mapping[h]
    <2>0. TypeInv /\ UpdatesAreNext
      BY Zenon DEF IdealInv, SafeInv
    <2>1. CASE mapping' = mapping
      BY Zenon, <2>1
    <2>2. CASE seqPc[n] = "update" /\ mapping' = seqMap[n]
      <3>1. UpdateIsNext(n) /\ h \in Mapped(mapping)
        BY Zenon, <1>2, <2>0, <2>2 DEF UpdatesAreNext, Mapped
      <3>2. h \in Mapped(seqMap[n])
        BY Zenon, <1>2, <3>1 DEF UpdateIsNext
      <3>3. Kept(n, h)
        BY Zenon, <1>2, <3>1, <3>2 DEF UpdateIsNext, Fresh
      <3> QED BY Zenon, <2>2, <3>3 DEF Kept
    <2> QED BY Zenon, <1>2, <2>0, <2>1, <2>2, MappingChanges
  <1> QED BY Zenon, <1>1, <1>2 DEF Next, StepOf

(***************************************************************************)
(* Rule 1 of SequenceNewEntries: while its entry is pending, a number in   *)
(* the sequence mapping is neither dropped nor changed.                    *)
(***************************************************************************)
THEOREM SequencedStay == ASSUME Ideal PROVE Spec => SequencedStays
  BY IdealSafe, SequencedStep, PTL DEF Spec, SequencedStays

-----------------------------------------------------------------------------
(* The public log. *)

(* The accepted submissions are the leaves that are pending or stored. *)
LEMMA AcceptedIs ==
    ASSUME NEW l
    PROVE  /\ l \in Accepted <=>
                 \/ \E h \in Hash : /\ entries[h] # NoSct
                                    /\ l = [hash |-> h, sct |-> entries[h]]
                 \/ \E n \in Node, i \in Number : l = db[n][i] /\ l # NoLeaf
           /\ l \in Accepted' <=>
                 \/ \E h \in Hash : /\ entries'[h] # NoSct
                                    /\ l = [hash |-> h, sct |-> entries'[h]]
                 \/ \E n \in Node, i \in Number : l = db'[n][i] /\ l # NoLeaf
  BY DEF Accepted

(* What has a number is accepted: it is pending or stored. *)
LEMMA AssignedIsAccepted ==
    ASSUME IdealInv, NEW i \in Number, NEW l \in assigned[i]
    PROVE  l \in Accepted
  <1>0. /\ TypeInv /\ ServedIsStored /\ LogInv /\ NumbersAreStable
        /\ StoredIsAssigned
    BY Zenon DEF IdealInv, SafeInv, LogInv
  <1>1. l \in Leaf /\ l.hash \in Hash /\ i \in Int /\ serving \in Int
    BY Zenon, <1>0, IdealTypes
  <1>2. CASE i < serving
    <2>1. PICK n \in Node : db[n][i] = l
      BY Zenon, <1>0, <1>2, LeafIsStored
    <2> QED BY <1>1, <2>1, AcceptedIs, Constants
  <1>3. CASE i >= serving
    <2>1. entries[l.hash] # NoSct /\ entries[l.hash] = l.sct
      BY Zenon, <1>0, <1>3 DEF LogInv, UnservedIsPending, PendingIsMapped
    <2>2. l = [hash |-> l.hash, sct |-> entries[l.hash]]
      BY <1>1, <2>1 DEF Leaf
    <2> QED BY <1>1, <2>1, <2>2, AcceptedIs
  <1> QED BY <1>1, <1>2, <1>3

(* The leaf that is served at a position is the one numbered for it. *)
LEMMA ServedLeaf ==
    ASSUME IdealInv, NEW k \in 1 .. serving
    PROVE  /\ k - 1 \in Number
           /\ Served[k] \in assigned[k - 1]
           /\ Served[k] \in Leaf /\ Served[k] \in Accepted
  <1>0. /\ TypeInv /\ ServedIsStored /\ LogInv /\ NumbersAreStable
        /\ StoredIsAssigned
    BY Zenon DEF IdealInv, SafeInv, LogInv
  <1>1. k - 1 \in Number /\ k - 1 < serving
    BY <1>0, IdealTypes, BoundAssumption DEF Number
  <1> DEFINE i == k - 1
  <1> DEFINE S == {db[n][i] : n \in Node}
  <1>2. Served[k] = CHOOSE l \in S : l # NoLeaf
    BY Zenon DEF Served
  <1> HIDE DEF i
  <1>3. i \in Number /\ i < serving
    BY Zenon, <1>1 DEF i
  <1>4. PICK l \in assigned[i] : TRUE
    BY Zenon, <1>0, <1>3 DEF LogInv, AssignedIsInitial
  <1>5. PICK n \in Node : db[n][i] = l
    BY Zenon, <1>0, <1>3, LeafIsStored
  <1>6. l \in Leaf /\ l # NoLeaf
    BY Zenon, <1>0, <1>3, IdealTypes, Constants
  <1>7. l \in S
    BY Zenon, <1>5
  <1> HIDE DEF S
  <1>8. Served[k] \in S /\ Served[k] # NoLeaf
    BY Zenon, <1>2, <1>6, <1>7
  <1>9. PICK m \in Node : Served[k] = db[m][i]
    BY Zenon, <1>8 DEF S
  <1>10. db[m][i] # NoLeaf
    BY <1>8, <1>9
  <1>11. db[m][i] \in assigned[i]
    BY Zenon, <1>0, <1>3, <1>10 DEF StoredIsAssigned
  <1>12. Served[k] \in assigned[i]
    BY <1>9, <1>11
  <1>13. Served[k] \in Leaf /\ Served[k] \in Accepted
    BY Zenon, <1>0, <1>3, <1>12, IdealTypes, AssignedIsAccepted
  <1> QED BY Zenon, <1>3, <1>12, <1>13 DEF i

(* The served leaves are the sequence of those numbered 0 .. serving - 1. *)
ServedIsNumbered ==
    /\ Served \in Seq(Leaf) /\ Len(Served) = serving
    /\ DOMAIN Served = 1 .. serving
    /\ \A k \in 1 .. serving : /\ k - 1 \in Number
                               /\ Served[k] \in assigned[k - 1]
                               /\ Served[k] \in Accepted

(* The invariant gives it. *)
LEMMA ServedNumbered == IdealInv => ServedIsNumbered
  <1> SUFFICES ASSUME IdealInv PROVE ServedIsNumbered
    OBVIOUS
  <1>1. serving \in Nat
    BY IdealTypes DEF IdealInv, SafeInv
  <1>2. \A k \in 1 .. serving : /\ k - 1 \in Number
                                /\ Served[k] \in assigned[k - 1]
                                /\ Served[k] \in Leaf /\ Served[k] \in Accepted
    BY Zenon, ServedLeaf
  <1>3. /\ DOMAIN Served = 1 .. serving
        /\ Served = [k \in DOMAIN Served |-> Served[k]]
    BY DEF Served
  <1>4. Served \in [1 .. serving -> Leaf]
    BY Zenon, <1>2, <1>3
  <1> HIDE DEF Served
  <1>5. Served \in Seq(Leaf)
    BY <1>1, <1>4
  <1>6. Len(Served) = serving
    BY <1>1, <1>3, <1>5
  <1> QED BY Zenon, <1>2, <1>3, <1>5, <1>6 DEF ServedIsNumbered

(* ... before a step and after it. *)
LEMMA ServedNumberedNext == IdealInv' => ServedIsNumbered'
  BY ServedNumbered, PTL

(* A leaf once stored under a number stays there. *)
LEMMA StoredStays ==
    ASSUME IdealInv, IdealInv', NEW n \in Node, StepOf(n),
           NEW m \in Node, NEW i \in Number, db[m][i] # NoLeaf
    PROVE  db'[m][i] = db[m][i]
  <1>0. /\ TypeInv /\ StoredIsAssigned /\ StoredIsAssigned' /\ NumbersAreStable'
    BY Zenon DEF IdealInv, SafeInv, LogInv
  <1>1. db'[m][i] # NoLeaf
    BY Zenon, <1>0, Growth
  <1>2. db'[m][i] \in assigned'[i]
    BY Zenon, <1>0, <1>1 DEF StoredIsAssigned
  <1>3. db[m][i] \in assigned'[i]
    BY Zenon, <1>0, AssignedGrows DEF StoredIsAssigned
  <1> QED BY Zenon, <1>0, <1>2, <1>3 DEF NumbersAreStable

(* No accepted submission is lost. *)
LEMMA AcceptedGrows ==
    ASSUME IdealInv, IdealInv', NEW n \in Node, StepOf(n), NEW l \in Accepted
    PROVE  l \in Accepted'
  <1>0. /\ TypeInv /\ ServedIsStored /\ LogInv /\ NumbersAreStable
        /\ StoredIsAssigned /\ CleanKeysAreServed
    BY Zenon DEF IdealInv, SafeInv, LogInv
  <1>1. ASSUME NEW m \in Node, NEW i \in Number, l = db[m][i], l # NoLeaf
        PROVE  l \in Accepted'
    <2>1. db'[m][i] = db[m][i]
      BY Zenon, <1>1, StoredStays
    <2>2. l = db'[m][i]
      BY <1>1, <2>1
    <2> QED BY <1>1, <2>2, AcceptedIs
  <1>2. ASSUME NEW h \in Hash, entries[h] # NoSct,
               l = [hash |-> h, sct |-> entries[h]]
        PROVE  l \in Accepted'
    <2>1. CASE entries'[h] = entries[h]
      BY <1>2, <2>1, AcceptedIs
    <2>2. CASE FeCreate(n)
      <3>1. /\ entries[fe[n].hash] = NoSct
            /\ entries' = [entries EXCEPT ![fe[n].hash] = fe[n].sct]
        BY Zenon, <2>2 DEF FeCreate
      <3>2. h # fe[n].hash
        BY Zenon, <1>2, <3>1
      <3> QED BY Zenon, <1>0, <2>1, <3>1, <3>2 DEF TypeInv, TypeOK
    <2>3. CASE \E k \in Hash : CleanDelete(n, k)
      <3>1. PICK k \in Hash : /\ k \in cleanKeys[n]
                              /\ entries' = [entries EXCEPT ![k] = NoSct]
        BY Zenon, <2>3 DEF CleanDelete
      <3>2. CASE h # k
        BY Zenon, <1>0, <2>1, <3>1, <3>2 DEF TypeInv, TypeOK
      <3>3. CASE h = k
        <4>1. PICK i \in Number : i < serving /\ \E g \in assigned[i] : g.hash = k
          BY Zenon, <1>0, <3>1 DEF CleanKeysAreServed
        <4>2. PICK g \in assigned[i] : g.hash = k
          BY Zenon, <4>1
        <4>3. g \in Leaf
          BY Zenon, <1>0, IdealTypes
        <4>4. entries[g.hash] # NoSct
          BY Zenon, <1>2, <3>3, <4>2
        <4>5. entries[g.hash] = g.sct
          BY Zenon, <1>0, <4>4 DEF LogInv, PendingIsMapped
        <4>6. l = g
          BY <1>2, <3>3, <4>2, <4>3, <4>5 DEF Leaf
        <4>7. PICK m \in Node : db[m][i] = g
          BY Zenon, <1>0, <4>1, LeafIsStored
        <4>8. l = db[m][i] /\ l # NoLeaf
          BY <4>3, <4>6, <4>7, Constants
        <4> QED BY Zenon, <1>1, <4>8
      <3> QED BY Zenon, <3>2, <3>3
    <2>4. CASE entries' = entries
      BY Zenon, <2>1, <2>4
    <2> QED BY Zenon, <2>2, <2>3, <2>4, EntriesChange
  <1> QED BY Zenon, <1>1, <1>2, AcceptedIs

(* A submission is accepted by the creation of its entry, and only there. *)
LEMMA AcceptedChanges ==
    ASSUME IdealInv, IdealInv', NEW n \in Node, StepOf(n), NEW l \in Accepted',
           l \notin Accepted
    PROVE  /\ FeCreate(n) /\ l \in Leaf
           /\ l = [hash |-> fe[n].hash, sct |-> fe[n].sct]
  <1>0. TypeInv /\ TypeInv' /\ StoredIsAssigned'
    BY Zenon DEF IdealInv, SafeInv
  <1>1. ASSUME NEW m \in Node, NEW i \in Number, l = db'[m][i], l # NoLeaf
        PROVE  FALSE
    <2>1. CASE db' = db
      BY <1>1, <2>1, AcceptedIs
    <2>2. CASE assigned' = assigned
      <3>1. db'[m][i] \in assigned'[i]
        BY <1>0, <1>1 DEF StoredIsAssigned
      <3>2. l \in assigned[i]
        BY <1>1, <2>2, <3>1
      <3> QED BY Zenon, <3>2, AssignedIsAccepted
    <2>3. CASE \E k \in Node, j \in Number : Fetch(n, k, j)
      BY Zenon, <2>2, <2>3 DEF Fetch, treeFrame, history
    <2>4. CASE SeqWrite(n) /\ ~Die(n)
      BY Zenon, <2>2, <2>4 DEF SeqWrite
    <2> QED BY Zenon, <2>1, <2>3, <2>4, DatabaseChanges
  <1>2. PICK h \in Hash : /\ entries'[h] # NoSct
                          /\ l = [hash |-> h, sct |-> entries'[h]]
    BY <1>1, AcceptedIs
  <1>3. entries'[h] # entries[h]
    BY <1>2, AcceptedIs
  <1>4. CASE FeCreate(n)
    <2>1. entries' = [entries EXCEPT ![fe[n].hash] = fe[n].sct]
      BY Zenon, <1>4 DEF FeCreate
    <2>0. DOMAIN entries = Hash
      BY Zenon, <1>0 DEF TypeInv, TypeOK
    <2>2. h = fe[n].hash /\ entries'[h] = fe[n].sct
      BY <1>3, <2>0, <2>1
    <2>3. entries'[h] \in Sct
      BY Zenon, <1>0, <1>2 DEF TypeInv, TypeOK
    <2> QED BY <1>2, <1>4, <2>2, <2>3 DEF Leaf
  <1>5. CASE \E k \in Hash : CleanDelete(n, k)
    <2>1. PICK k \in Hash : entries' = [entries EXCEPT ![k] = NoSct]
      BY Zenon, <1>5 DEF CleanDelete
    <2>2. DOMAIN entries = Hash
      BY Zenon, <1>0 DEF TypeInv, TypeOK
    <2> QED BY <1>2, <1>3, <2>1, <2>2
  <1> QED BY Zenon, <1>3, <1>4, <1>5, EntriesChange

(* What has been served stays where it is. *)
LEMMA ServedStays ==
    ASSUME IdealInv, IdealInv', NEW n \in Node, StepOf(n), NEW k \in 1 .. serving
    PROVE  k \in 1 .. serving' /\ Served'[k] = Served[k]
  <1>0. /\ TypeInv /\ TypeInv' /\ NumbersAreStable'
    BY Zenon DEF IdealInv, SafeInv, LogInv
  <1>1. k \in 1 .. serving'
    BY <1>0, TreeSizes
  <1>2. k - 1 \in Number /\ Served[k] \in assigned[k - 1]
    BY Zenon, ServedLeaf
  <1>3. Served[k] \in assigned'[k - 1]
    BY Zenon, <1>0, <1>2, AssignedGrows
  <1>4. \A j \in 1 .. serving' : Served'[j] \in assigned'[j - 1]
    BY Zenon, ServedNumberedNext DEF ServedIsNumbered
  <1>5. Served'[k] \in assigned'[k - 1]
    BY Zenon, <1>1, <1>4
  <1> QED BY Zenon, <1>0, <1>1, <1>2, <1>3, <1>5 DEF NumbersAreStable

(* A new log is the empty public log. *)
LEMMA PublicInit == Init => Public!Init
  <1> SUFFICES ASSUME Init PROVE Accepted = {} /\ Served = << >>
    BY Zenon DEF Public!Init
  <1>1. ASSUME NEW l PROVE l \notin Accepted
    <2>0. entries = NoEntries /\ db = [n \in Node |-> [i \in Number |-> NoLeaf]]
      BY Zenon DEF Init
    <2>1. /\ \A h \in Hash : entries[h] = NoSct
          /\ \A n \in Node, i \in Number : db[n][i] = NoLeaf
      BY <2>0 DEF NoEntries
    <2> QED BY <2>1, AcceptedIs
  <1>2. /\ ServedIsNumbered /\ serving = 0
    BY Zenon, InitIdeal, ServedNumbered DEF Init
  <1>3. Served = << >>
    <2>1. Served \in Seq(Leaf) /\ Len(Served) = 0
      BY <1>2 DEF ServedIsNumbered
    <2> HIDE DEF Served
    <2> QED BY <2>1
  <1> QED BY Zenon, <1>1, <1>3

(* The public log grows when the serving STH does. *)
LEMMA PublicGrows ==
    ASSUME IdealInv, IdealInv', NEW n \in Node, StepOf(n), SetServingSTH(n),
           Accepted' = Accepted
    PROVE  Public!Publish
  <1>0. /\ TypeInv /\ TypeInv' /\ SignedIsStored /\ LogInv /\ HashesAreOnce'
        /\ StoredIsAssigned
    BY Zenon DEF IdealInv, SafeInv, LogInv
  <1>1. serving < serving' /\ serving \in Nat /\ serving' \in Nat
    <2>1. serving < serving'
      BY Zenon, <1>0, LogServe
    <2>2. serving \in Nat /\ serving' \in Nat
      BY Zenon, <1>0, TreeSizes
    <2> QED BY Zenon, <2>1, <2>2
  <1>2. ServedIsNumbered /\ ServedIsNumbered'
    BY Zenon, ServedNumbered, ServedNumberedNext
  <1>3. /\ Served \in Seq(Leaf) /\ Len(Served) = serving
        /\ Served' \in Seq(Leaf) /\ Len(Served') = serving'
        /\ DOMAIN Served' = 1 .. serving'
    BY Zenon, <1>2 DEF ServedIsNumbered
  <1>4. \A k \in 1 .. serving : Served'[k] = Served[k]
    BY Zenon, ServedStays
  <1>5. \A k \in 1 .. serving' : /\ k - 1 \in Number
                                 /\ Served'[k] \in assigned'[k - 1]
                                 /\ Served'[k] \in Accepted'
    BY Zenon, <1>2 DEF ServedIsNumbered
  <1>6. \A i, j \in 1 .. serving' : Served'[i] = Served'[j] => i = j
    <2> SUFFICES ASSUME NEW i \in 1 .. serving', NEW j \in 1 .. serving',
                        Served'[i] = Served'[j]
                 PROVE  i = j
      BY Zenon
    <2>1. i - 1 = j - 1
      BY Zenon, <1>0, <1>5 DEF HashesAreOnce
    <2> QED BY <1>1, <2>1
  <1> HIDE DEF Served
  <1>7. SubSeq(Served', 1, Len(Served)) = Served
    BY <1>1, <1>3, <1>4
  <1>8. Public!Leaves(Served') \subseteq Accepted
    BY Zenon, <1>3, <1>5 DEF Public!Leaves
  <1> QED BY <1>1, <1>3, <1>6, <1>7, <1>8 DEF Public!Publish

(* Every step of the cluster is a step of the public log or leaves it. *)
LEMMA PublicStep ==
    ASSUME IdealInv, IdealInv', [Next]_vars
    PROVE  [Public!Next]_(Public!vars)
  <1>1. CASE UNCHANGED vars
    <2>1. UNCHANGED <<entries, db, serving>>
      BY Zenon, <1>1 DEF vars
    <2> QED BY <2>1 DEF Public!vars, Accepted, Served
  <1>2. ASSUME NEW n \in Node, StepOf(n) PROVE Public!Next \/ UNCHANGED Public!vars
    <2>0. TypeInv
      BY Zenon DEF IdealInv, SafeInv
    <2>1. Accepted \subseteq Accepted'
      BY Zenon, <1>2, AcceptedGrows
    <2>2. CASE serving' = serving
      <3>1. Served' = Served
        <4>1. \A k \in 1 .. serving : Served'[k] = Served[k]
          BY Zenon, <1>2, ServedStays
        <4>2. /\ Served = [k \in 1 .. serving |-> Served[k]]
              /\ Served' = [k \in 1 .. serving' |-> Served'[k]]
          BY DEF Served
        <4> HIDE DEF Served
        <4> QED BY <2>2, <4>1, <4>2
      <3>2. CASE Accepted' = Accepted
        BY Zenon, <3>1, <3>2 DEF Public!vars
      <3>3. CASE Accepted' # Accepted
        <4>1. PICK l \in Accepted' : l \notin Accepted
          BY Zenon, <2>1, <3>3
        <4>2. \A k \in Accepted' : k \notin Accepted => k = l /\ k \in Leaf
          BY Zenon, <1>2, <4>1, AcceptedChanges
        <4>3. l \in Leaf \ Accepted /\ Accepted' = Accepted \cup {l}
          BY Zenon, <2>1, <4>1, <4>2
        <4> QED BY Zenon, <3>1, <4>3 DEF Public!Next, Public!Accept
      <3> QED BY Zenon, <3>2, <3>3
    <2>3. CASE serving' # serving
      <3>1. SetServingSTH(n)
        BY Zenon, <1>2, <2>0, <2>3, ServingChanges
      <3>2. UNCHANGED <<entries, db>>
        BY Zenon, <3>1 DEF SetServingSTH, treeFrame
      <3>3. Accepted' = Accepted
        BY <3>2 DEF Accepted
      <3> QED BY Zenon, <1>2, <3>1, <3>3, PublicGrows DEF Public!Next
    <2> QED BY Zenon, <2>2, <2>3
  <1> QED BY Zenon, <1>1, <1>2 DEF Next, StepOf

(***************************************************************************)
(* The cluster is one public log: AddPendingEntry adds to what it has      *)
(* accepted, SetServingSTH appends to what it shows, and nothing that      *)
(* SequenceNewEntries, a fetcher, CleanupOldEntries or a crash does        *)
(* loses, repeats or reorders a submission.                                *)
(***************************************************************************)
THEOREM IsPublicLog == ASSUME Ideal PROVE Spec => ImplementsPublicLog
  BY IdealSafe, PublicInit, PublicStep, PTL DEF Spec, ImplementsPublicLog, Public!Spec

-----------------------------------------------------------------------------
(* Counting the databases. *)
Fin == INSTANCE FiniteSetTheorems

(* Of two subsets of a finite set, the smaller has no more elements. *)
LEMMA FewerElements ==
    ASSUME NEW S, IsFiniteSet(S), NEW T \in SUBSET S, NEW Q \in SUBSET T
    PROVE  /\ Cardinality(T) \in Nat /\ Cardinality(Q) \in Nat
           /\ Cardinality(Q) <= Cardinality(T)
  <1>1. \A U : Cardinality(U) = Fin!Cardinality(U)
    BY DEF Cardinality, Fin!Cardinality
  <1>2. Fin!IsFiniteSet(S)
    BY DEF IsFiniteSet, Fin!IsFiniteSet
  <1>3. Fin!IsFiniteSet(T)
    BY Zenon, <1>2, Fin!FS_Subset
  <1>4. Fin!IsFiniteSet(Q) /\ Fin!Cardinality(Q) <= Fin!Cardinality(T)
    BY Zenon, <1>3, Fin!FS_Subset
  <1>5. Fin!Cardinality(Q) \in Nat /\ Fin!Cardinality(T) \in Nat
    BY Zenon, <1>3, <1>4, Fin!FS_CardinalityType
  <1> QED BY <1>1, <1>4, <1>5

(* A leaf of the served tree is in MinServingNodes databases. *)
LEMMA LeafIsReplicated ==
    ASSUME ServedIsReplicated, NumbersAreStable, StoredIsAssigned,
           serving \in Nat, NEW i \in Number, i < serving, NEW l \in assigned[i]
    PROVE  Cardinality({n \in Node : db[n][i] = l}) >= MinServingNodes
  <1>1. PICK Q \in SUBSET Node :
             /\ Cardinality(Q) >= MinServingNodes \/ serving = 0
             /\ \A n \in Q, j \in Number : j < serving => db[n][j] # NoLeaf
    BY Zenon DEF ServedIsReplicated
  <1>2. serving # 0 /\ MinServingNodes \in Nat
    BY BoundAssumption DEF Number
  <1> DEFINE S == {n \in Node : db[n][i] = l}
  <1>3. Q \in SUBSET S /\ S \in SUBSET Node
    BY Zenon, <1>1 DEF StoredIsAssigned, NumbersAreStable
  <1> HIDE DEF S
  <1>4. /\ Cardinality(S) \in Nat /\ Cardinality(Q) \in Nat
        /\ Cardinality(Q) <= Cardinality(S)
    BY Zenon, <1>3, NodeAssumption, FewerElements
  <1>5. Cardinality(S) >= MinServingNodes
    BY <1>1, <1>2, <1>4
  <1> QED BY Zenon, <1>5 DEF S

(***************************************************************************)
(* CleanupOldEntries deletes no entry before MinServingNodes databases     *)
(* hold its leaf in the served tree: no certificate whose SCT              *)
(* QueueEntry has returned is lost.                                        *)
(***************************************************************************)
THEOREM PromiseAlwaysKept == ASSUME Ideal PROVE Spec => []PromiseKept
  <1>1. IdealInv => PromiseKept
    <2> SUFFICES ASSUME IdealInv, NEW l \in issued, entries[l.hash] # l.sct
                 PROVE  \E i \in Number :
                           /\ i < serving
                           /\ Cardinality({n \in Node : db[n][i] = l})
                                 >= MinServingNodes
      BY Zenon DEF PromiseKept
    <2>1. /\ TypeInv /\ ServedIsReplicated /\ NumbersAreStable
          /\ StoredIsAssigned /\ IssuedIsLogged
      BY Zenon DEF IdealInv, SafeInv, LogInv
    <2>2. PICK i \in Number : i < serving /\ l \in assigned[i]
      BY Zenon, <2>1 DEF IssuedIsLogged
    <2>3. serving \in Nat
      <3>1. serving \in 0 .. MaxLog
        BY Zenon, <2>1 DEF TypeInv, TypeOK
      <3> QED BY <3>1, BoundAssumption
    <2> QED BY Zenon, <2>1, <2>2, <2>3, LeafIsReplicated
  <1> QED BY <1>1, IdealSafe, PTL
=============================================================================
