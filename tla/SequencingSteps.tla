-------------------------- MODULE SequencingSteps --------------------------
(***************************************************************************)
(* What the steps of Sequencing do, for all nodes, hashes and bounds: the  *)
(* two inductive invariants, SafeInv of every environment and IdealInv of  *)
(* one that keeps its promises, and lemmas that end in IdealStep, every    *)
(* step keeps IdealInv. SequencingProofs has the theorems.                 *)
(***************************************************************************)
EXTENDS Sequencing, TLAPS

\* Leaves that name no prover are given to SMT and then to Zenon, with time
\* enough for a busy machine.
USE SMTT(15), ZenonT(25)

(* The invariant of every environment. *)

(* What the sequencer is about to write has an SCT. *)
PendingKnown ==
    \A n \in Node : seqPc[n] \in {"update", "write"} =>
        \A h \in Mapped(seqMap[n]) : seqPend[n][h] \in Sct

TypeInv == TypeOK /\ PendingKnown

(***************************************************************************)
(* Properties that hold in every environment. A node checks a mapping      *)
(* against its cached serving STH; because the cache is never ahead of     *)
(* etcd, a check passed against the cache is passed against etcd as well.  *)
(***************************************************************************)
StepOf(n) ==
    \/ Crash(n) \/ BecomeMaster(n) \/ LoseMaster(n) \/ FrontendNext(n)
    \/ SequencerNext(n) \/ TreeNext(n) \/ CleanupNext(n)

CacheBehind == \A n \in Node : cached[n] <= serving

HandleIsCurrent ==
    \A n \in Node : seqHandle[n] /\ seqPc[n] = "mapped" => seqMap[n] = mapping

KeepsUnserved(m) == \A h \in Hash : mapping[h] >= serving => m[h] = mapping[h]

UpdateIsSound ==
    \A n \in Node : seqPc[n] = "update" =>
        /\ MappingIsOrdered(seqMap[n])
        /\ MappingIsContiguous(seqMap[n], serving)
        /\ seqHandle[n] => KeepsUnserved(seqMap[n])

SignedIsStored ==
    \A n \in Node, i \in Number : i < signed[n] => db[n][i] # NoLeaf

SafeInv ==
    /\ TypeInv
    /\ CacheBehind
    /\ MappingIsSound
    /\ HandleIsCurrent
    /\ UpdateIsSound
    /\ SignedIsStored
    /\ ServedIsReplicated

-----------------------------------------------------------------------------
(***************************************************************************)
(* Properties that hold if the environment keeps its promises: one master  *)
(* at a time, watches that deliver at once, frontends that know what is    *)
(* served, clocks that agree, deletions in the order of the numbers.       *)
(***************************************************************************)
Ideal ==
    /\ ~UnorderedCleanup /\ ~OverlappingMasters /\ ~LaggingWatch
    /\ ~StaleFrontend /\ ~ClockSkew

(* One node at a time numbers entries, serves trees and cleans up. *)
Active(n) == master[n] \/ seqPc[n] # "idle" \/ cleanPc[n] # "idle"

OneActive == \A n, m \in Node : Active(n) /\ Active(m) => n = m

CacheIsCurrent == \A n \in Node : cached[n] = serving

(* Nobody else writes the mapping between a sequencer's read and its write. *)
HandleIsHeld == \A n \in Node : seqPc[n] \in {"mapped", "update"} => seqHandle[n]

(* No two entries, pending or about to be created, share a timestamp. *)
SctsAreUnique ==
    /\ \A h \in Hash : entries[h] <= clock
    /\ \A n \in Node : fe[n].pc = "create" => fe[n].sct <= clock
    /\ \A g, h \in Hash : entries[g] = entries[h] /\ entries[g] # NoSct => g = h
    /\ \A n \in Node, h \in Hash : fe[n].pc = "create" => entries[h] # fe[n].sct
    /\ \A n, m \in Node : (fe[n].pc = "create" /\ fe[m].pc = "create"
                             /\ fe[n].sct = fe[m].sct) => n = m

(***************************************************************************)
(* The log that etcd holds: the numbers given out so far are 0 .. top - 1, *)
(* each for one leaf and each leaf once. What is above the served tree is  *)
(* pending and mapped, what is pending and numbered is mapped to its       *)
(* number, and clean-up has taken the entries away from below.             *)
(***************************************************************************)
HashesAreOnce ==
    \A i, j \in Number : \A k \in assigned[i], l \in assigned[j] :
        k.hash = l.hash => i = j

MappedIsAssigned ==
    \A h \in Mapped(mapping) : \E l \in assigned[mapping[h]] : l.hash = h

PendingIsMapped ==
    \A i \in Number : \A l \in assigned[i] :
        entries[l.hash] # NoSct => entries[l.hash] = l.sct /\ mapping[l.hash] = i

UnservedIsPending ==
    \A i \in Number : \A l \in assigned[i] :
        i >= serving => entries[l.hash] # NoSct

AssignedIsInitial ==
    \A i \in Number :
        assigned[i] # {}
          <=> i < serving \/ \E h \in Mapped(mapping) : i <= mapping[h]

MappingReaches ==
    \A h \in Mapped(mapping), i \in Number :
        i < serving => \E g \in Mapped(mapping) : i <= mapping[g]

DeletedInOrder ==
    \A g, h \in Mapped(mapping) :
        mapping[g] <= mapping[h] /\ entries[g] # NoSct => entries[h] # NoSct

LogInv ==
    /\ NumbersAreStable /\ HashesAreOnce /\ MappedIsAssigned /\ PendingIsMapped
    /\ UnservedIsPending /\ AssignedIsInitial /\ MappingReaches /\ DeletedInOrder

(* The databases hold what the log holds. *)
StoredIsAssigned ==
    \A n \in Node, i \in Number : db[n][i] # NoLeaf => db[n][i] \in assigned[i]

(* Every number of the served tree is in some database. *)
ServedIsStored ==
    \A i \in Number : i < serving => \E n \in Node : db[n][i] # NoLeaf

(* The keys of a clean-up are served, and nothing pending below is left out. *)
CleanKeysAreServed ==
    \A n \in Node : \A h \in cleanKeys[n] :
        /\ \E i \in Number : i < serving /\ \E l \in assigned[i] : l.hash = h
        /\ \A f \in Mapped(mapping) :
              mapping[f] <= mapping[h] /\ entries[f] # NoSct => f \in cleanKeys[n]

CleanUpToServed == \A n \in Node : cleanUpTo[n] <= serving

(* The number a sequencer starts from is the first free one. *)
NextIsFree ==
    \A n \in Node : seqPc[n] \in {"next", "mapped"} =>
        \A i \in Number : assigned[i] # {} <=> i < seqNext[n]

(* A mapping about to be stored keeps a number or gives out a free one. *)
Kept(n, h) ==
    /\ seqMap[n][h] = mapping[h]
    /\ LeafOf(n, h) \in assigned[mapping[h]]

Fresh(n, h) ==
    /\ mapping[h] = NoSeq
    /\ assigned[seqMap[n][h]] = {}
    /\ \A i \in Number : \A l \in assigned[i] : l.hash # h
    /\ entries[h] = seqPend[n][h]

UpdateIsNext(n) ==
    /\ \A h \in Mapped(seqMap[n]) : Kept(n, h) \/ Fresh(n, h)
    /\ \A g \in Mapped(mapping) \ Mapped(seqMap[n]) :
          /\ entries[g] = NoSct
          /\ \A h \in Mapped(seqMap[n]) : mapping[g] < seqMap[n][h]
    /\ \A h \in Mapped(seqMap[n]), i \in Number : i <= seqMap[n][h] =>
          assigned[i] # {} \/ \E g \in Mapped(seqMap[n]) : seqMap[n][g] = i

UpdatesAreNext == \A n \in Node : seqPc[n] = "update" => UpdateIsNext(n)

(* What a sequencer writes to its database is what it has committed. *)
WriteIsAssigned ==
    \A n \in Node : seqPc[n] = "write" =>
        \A h \in Mapped(seqMap[n]) : LeafOf(n, h) \in assigned[seqMap[n][h]]

(* The leaves promised to clients are pending or below the served tree. *)
IssuedIsLogged ==
    \A l \in issued : \/ entries[l.hash] = l.sct
                      \/ \E i \in Number : i < serving /\ l \in assigned[i]

IdealInv ==
    /\ SafeInv /\ OneActive /\ CacheIsCurrent /\ HandleIsHeld /\ SctsAreUnique
    /\ LogInv /\ StoredIsAssigned /\ ServedIsStored /\ CleanKeysAreServed
    /\ CleanUpToServed /\ NextIsFree /\ UpdatesAreNext /\ WriteIsAssigned
    /\ IssuedIsLogged /\ NoCheckFails

-----------------------------------------------------------------------------
(* What holds in every environment. *)

(* The constants of the module are in the types that use them. *)
LEMMA Constants ==
    /\ NoLeaf \notin Leaf
    /\ EmptyMapping \in [Hash -> Number \cup {NoSeq}]
    /\ NoEntries \in [Hash -> Sct \cup {NoSct}]
    /\ 0 \in 0 .. MaxLog
  <1>1. NoLeaf \notin Leaf
    BY DEF NoLeaf, Leaf, Sct, NoSct
  <1>2. 0 \in 0 .. MaxLog
    BY BoundAssumption
  <1> QED BY Zenon, <1>1, <1>2 DEF EmptyMapping, NoEntries

(* What no step undoes: the serving tree, and entries of a database. *)
LEMMA Growth ==
    ASSUME TypeInv, NEW n \in Node, StepOf(n)
    PROVE  /\ serving' >= serving
           /\ \A m \in Node, i \in Number : db[m][i] # NoLeaf => db'[m][i] # NoLeaf
  <1> USE DEF seqVars, cleanVars, history
  <1>0. TypeOK /\ serving \in Int
    BY BoundAssumption DEF TypeInv, TypeOK
  <1>1. CASE UNCHANGED <<serving, db>>
    BY <1>0, <1>1
  <1>2. CASE Crash(n) \/ BecomeMaster(n) \/ LoseMaster(n)
    BY Zenon, <1>1, <1>2 DEF Crash, Restart, BecomeMaster, LoseMaster
  <1>3. CASE FrontendNext(n)
    BY Zenon, <1>1, <1>3
       DEF FrontendNext, FeDuplicate, FeSign, FeCreate, FeExists,
                FeGet, FeReject, feFrame
  <1>4. CASE CleanupNext(n)
    BY Zenon, <1>1, <1>4
       DEF CleanupNext, CleanStart, CleanRead, CleanDelete, CleanFail,
                Die, Restart, cleanFrame
  <1>5. CASE TreeNext(n)
    <2>1. CASE UpdateTree(n) \/ ServingSTHUpdated(n)
      BY Zenon, <1>1, <2>1 DEF UpdateTree, ServingSTHUpdated
    <2>2. CASE \E m \in Node, i \in Number : Fetch(n, m, i)
      BY <1>0, <2>2 DEF Fetch, TypeOK
    <2>3. CASE SetServingSTH(n)
      BY <1>0, <2>3 DEF SetServingSTH, TypeOK
    <2> QED BY Zenon, <1>5, <2>1, <2>2, <2>3 DEF TreeNext
  <1>6. CASE SequencerNext(n)
    <2>1. CASE SeqWrite(n)
      <3>1. PICK h \in Mapped(seqMap[n]) :
               /\ seqMap[n][h] = seqAt[n]
               /\ \/ Die(n)
                  \/ /\ db' = [db EXCEPT ![n][seqAt[n]] = LeafOf(n, h)]
                     /\ UNCHANGED <<entries, mapping, seqHandle, faults,
                                    assigned, seqFrame>>
        BY <2>1, Zenon DEF SeqWrite
      <3>2. LeafOf(n, h) \in Leaf
        BY Zenon, <2>1 DEF TypeInv, PendingKnown, SeqWrite, LeafOf, Leaf, Mapped
      <3>3. CASE Die(n)
        BY Zenon, <1>1, <3>3 DEF Die, Restart
      <3>4. CASE ~Die(n)
        <4>1. /\ db' = [db EXCEPT ![n] = [db[n] EXCEPT ![seqAt[n]] = LeafOf(n, h)]]
              /\ serving' = serving
          BY Zenon, <3>1, <3>4 DEF seqFrame
        <4>2. LeafOf(n, h) # NoLeaf
          BY Zenon, <3>2, Constants
        <4>3. ASSUME NEW m \in Node, NEW i \in Number, db[m][i] # NoLeaf
              PROVE  db'[m][i] # NoLeaf
          BY Zenon, <1>0, <4>1, <4>2, <4>3 DEF TypeOK
        <4> QED BY <1>0, <4>1, <4>3
      <3> QED BY Zenon, <3>3, <3>4
    <2>2. CASE ~SeqWrite(n)
      BY Zenon, <1>1, <1>6, <2>2
         DEF SequencerNext, SeqStart, SeqReadMapping, SeqNumber,
                  SeqUpdate, SeqUpdateLost, SeqStale, Die, Restart, seqFrame
    <2> QED BY Zenon, <2>1, <2>2
  <1> QED BY Zenon, <1>2, <1>3, <1>4, <1>5, <1>6 DEF StepOf

(* The serving tree size changes only in SetServingSTH. *)
LEMMA ServingChanges ==
    ASSUME TypeInv, NEW n \in Node, StepOf(n)
    PROVE  serving' = serving \/ SetServingSTH(n)
  <1> USE DEF seqVars, cleanVars, history
  <1>1. CASE Crash(n) \/ BecomeMaster(n) \/ LoseMaster(n)
    BY Zenon, <1>1 DEF Crash, Restart, BecomeMaster, LoseMaster
  <1>2. CASE FrontendNext(n)
    BY Zenon, <1>2 DEF FrontendNext, FeDuplicate, FeSign, FeCreate, FeExists,
                FeGet, FeReject, feFrame
  <1>3. CASE CleanupNext(n)
    BY Zenon, <1>3
       DEF CleanupNext, CleanStart, CleanRead, CleanDelete, CleanFail,
                Die, Restart, cleanFrame
  <1>4. CASE TreeNext(n)
    BY Zenon, <1>4 DEF TreeNext, UpdateTree, Fetch, ServingSTHUpdated
  <1>5. CASE SequencerNext(n)
    BY Zenon, <1>5 DEF SequencerNext, SeqStart, SeqReadMapping, SeqNumber,
                SeqUpdate, SeqUpdateLost, SeqStale, SeqWrite, Die, Restart,
                seqFrame
  <1> QED BY Zenon, <1>1, <1>2, <1>3, <1>4, <1>5 DEF StepOf

-----------------------------------------------------------------------------
(* The types that the arguments about numbers use. *)
LEMMA IdealTypes ==
    ASSUME TypeInv
    PROVE  /\ serving \in Int /\ serving <= MaxLog /\ 0 <= serving
           /\ \A i \in Number : i \in Int /\ 0 <= i /\ i < MaxLog
           /\ \A h \in Mapped(mapping) : h \in Hash /\ mapping[h] \in Number
           /\ \A n \in Node : \A h \in Mapped(seqMap[n]) :
                 h \in Hash /\ seqMap[n][h] \in Number
           /\ \A h \in Hash : entries[h] \in Sct \cup {NoSct}
           /\ \A i \in Number : \A l \in assigned[i] :
                 l \in Leaf /\ l.hash \in Hash /\ l.sct \in Sct
           /\ \A n \in Node, i \in Number :
                 db[n][i] # NoLeaf => db[n][i] \in Leaf
  <1>0. TypeOK
    BY Zenon DEF TypeInv
  <1>1. serving \in Int /\ serving <= MaxLog /\ 0 <= serving
    BY <1>0, BoundAssumption DEF TypeOK
  <1>2. \A i \in Number : i \in Int /\ 0 <= i /\ i < MaxLog
    BY BoundAssumption DEF Number
  <1>3. \A h \in Mapped(mapping) : h \in Hash /\ mapping[h] \in Number
    BY Zenon, <1>0 DEF Mapped, TypeOK
  <1>4. \A n \in Node : \A h \in Mapped(seqMap[n]) :
                 h \in Hash /\ seqMap[n][h] \in Number
    <2>1. \A n \in Node : seqMap[n] \in [Hash -> Number \cup {NoSeq}]
      BY Zenon, <1>0 DEF TypeOK
    <2> QED BY Zenon, <2>1 DEF Mapped
  <1>5. \A h \in Hash : entries[h] \in Sct \cup {NoSct}
    BY Zenon, <1>0 DEF TypeOK
  <1>6. \A i \in Number : \A l \in assigned[i] :
                 l \in Leaf /\ l.hash \in Hash /\ l.sct \in Sct
    BY <1>0 DEF TypeOK, Leaf
  <1>7. \A n \in Node, i \in Number : db[n][i] # NoLeaf => db[n][i] \in Leaf
    <2>1. \A n \in Node : db[n] \in [Number -> Leaf \cup {NoLeaf}]
      BY Zenon, <1>0 DEF TypeOK
    <2> QED BY Zenon, <2>1
  <1> QED BY Zenon, <1>1, <1>2, <1>3, <1>4, <1>5, <1>6, <1>7

(* The serving tree only grows; the sizes of trees are numbers. *)
LEMMA TreeSizes ==
    ASSUME TypeInv, TypeInv', NEW n \in Node, StepOf(n)
    PROVE  /\ serving \in Nat /\ serving' \in Nat /\ serving <= serving'
           /\ \A i \in Number : i \in Nat
           /\ \A m \in Node : cleanUpTo[m] \in Nat
  <1>1. /\ serving \in 0 .. MaxLog /\ serving' \in 0 .. MaxLog
        /\ \A m \in Node : cleanUpTo[m] \in 0 .. MaxLog
    BY Zenon DEF TypeInv, TypeOK
  <1>2. serving' >= serving
    BY Zenon, Growth
  <1> QED BY <1>1, <1>2, BoundAssumption DEF Number

(* A leaf of the served tree is in some database. *)
LEMMA LeafIsStored ==
    ASSUME ServedIsStored, NumbersAreStable, StoredIsAssigned,
           NEW i \in Number, i < serving, NEW l \in assigned[i]
    PROVE  \E n \in Node : db[n][i] = l
  <1>1. PICK n \in Node : db[n][i] # NoLeaf
    BY Zenon DEF ServedIsStored
  <1>2. db[n][i] \in assigned[i]
    BY Zenon, <1>1 DEF StoredIsAssigned
  <1> QED BY Zenon, <1>2 DEF NumbersAreStable

-----------------------------------------------------------------------------
(* Which steps change what is shared. *)

(* Pending entries are created by frontends and deleted by clean-ups. *)
LEMMA EntriesChange ==
    ASSUME NEW n \in Node, StepOf(n)
    PROVE  entries' = entries \/ FeCreate(n) \/ \E h \in Hash : CleanDelete(n, h)
  <1> USE DEF seqVars, cleanVars, history
  <1>1. CASE Crash(n) \/ BecomeMaster(n) \/ LoseMaster(n)
    BY Zenon, <1>1 DEF Crash, Restart, BecomeMaster, LoseMaster
  <1>2. CASE FrontendNext(n)
    BY Zenon, <1>2 DEF FrontendNext, FeDuplicate, FeSign, FeExists, FeGet, FeReject
  <1>3. CASE CleanupNext(n)
    BY Zenon, <1>3 DEF CleanupNext, CleanStart, CleanRead, CleanFail, Die, Restart
  <1>4. CASE TreeNext(n)
    BY Zenon, <1>4 DEF TreeNext, UpdateTree, Fetch, SetServingSTH,
                       ServingSTHUpdated, treeFrame
  <1>5. CASE SequencerNext(n)
    BY Zenon, <1>5 DEF SequencerNext, SeqStart, SeqReadMapping, SeqNumber,
                SeqUpdate, SeqUpdateLost, SeqStale, SeqWrite, Die, Restart
  <1> QED BY Zenon, <1>1, <1>2, <1>3, <1>4, <1>5 DEF StepOf

(* Numbers are given out by the write of a sequence mapping, and only there. *)
LEMMA AssignedChanges ==
    ASSUME NEW n \in Node, StepOf(n)
    PROVE  \/ UNCHANGED <<mapping, assigned>>
           \/ SeqUpdate(n) \/ SeqUpdateLost(n)
  <1> USE DEF seqVars, cleanVars, history
  <1>1. CASE Crash(n) \/ BecomeMaster(n) \/ LoseMaster(n)
    BY Zenon, <1>1 DEF Crash, Restart, BecomeMaster, LoseMaster
  <1>2. CASE FrontendNext(n)
    BY Zenon, <1>2 DEF FrontendNext, FeDuplicate, FeSign, FeCreate, FeExists,
                       FeGet, FeReject, feFrame
  <1>3. CASE CleanupNext(n)
    BY Zenon, <1>3 DEF CleanupNext, CleanStart, CleanRead, CleanDelete,
                       CleanFail, Die, Restart, cleanFrame
  <1>4. CASE TreeNext(n)
    BY Zenon, <1>4 DEF TreeNext, UpdateTree, Fetch, SetServingSTH,
                       ServingSTHUpdated, treeFrame
  <1>5. CASE SequencerNext(n)
    BY Zenon, <1>5 DEF SequencerNext, SeqStart, SeqReadMapping, SeqNumber,
                       SeqStale, SeqWrite, Die, Restart
  <1> QED BY Zenon, <1>1, <1>2, <1>3, <1>4, <1>5 DEF StepOf

(* Databases are written by fetchers and by sequencers. *)
LEMMA DatabaseChanges ==
    ASSUME NEW n \in Node, StepOf(n)
    PROVE  \/ db' = db
           \/ \E m \in Node, i \in Number : Fetch(n, m, i)
           \/ SeqWrite(n) /\ ~Die(n)
  <1> USE DEF seqVars, cleanVars, history
  <1>1. CASE Crash(n) \/ BecomeMaster(n) \/ LoseMaster(n)
    BY Zenon, <1>1 DEF Crash, Restart, BecomeMaster, LoseMaster
  <1>2. CASE FrontendNext(n)
    BY Zenon, <1>2 DEF FrontendNext, FeDuplicate, FeSign, FeCreate, FeExists,
                       FeGet, FeReject, feFrame
  <1>3. CASE CleanupNext(n)
    BY Zenon, <1>3 DEF CleanupNext, CleanStart, CleanRead, CleanDelete,
                       CleanFail, Die, Restart, cleanFrame
  <1>4. CASE TreeNext(n)
    BY Zenon, <1>4 DEF TreeNext, UpdateTree, SetServingSTH, ServingSTHUpdated
  <1>5. CASE SequencerNext(n)
    BY Zenon, <1>5 DEF SequencerNext, SeqStart, SeqReadMapping, SeqNumber,
                       SeqUpdate, SeqUpdateLost, SeqStale, Die, Restart
  <1> QED BY Zenon, <1>1, <1>2, <1>3, <1>4, <1>5 DEF StepOf

(* SCTs are returned by frontends. *)
LEMMA IssuedChanges ==
    ASSUME NEW n \in Node, StepOf(n)
    PROVE  \/ issued' = issued
           \/ \E h \in Hash : FeDuplicate(n, h)
           \/ FeCreate(n) \/ FeGet(n)
  <1> USE DEF seqVars, cleanVars, history
  <1>1. CASE Crash(n) \/ BecomeMaster(n) \/ LoseMaster(n)
    BY Zenon, <1>1 DEF Crash, Restart, BecomeMaster, LoseMaster
  <1>2. CASE FrontendNext(n)
    BY Zenon, <1>2 DEF FrontendNext, FeSign, FeExists, FeReject
  <1>3. CASE CleanupNext(n)
    BY Zenon, <1>3 DEF CleanupNext, CleanStart, CleanRead, CleanDelete,
                       CleanFail, Die, Restart, cleanFrame
  <1>4. CASE TreeNext(n)
    BY Zenon, <1>4 DEF TreeNext, UpdateTree, Fetch, SetServingSTH,
                       ServingSTHUpdated, treeFrame
  <1>5. CASE SequencerNext(n)
    BY Zenon, <1>5 DEF SequencerNext, SeqStart, SeqReadMapping, SeqNumber,
                       SeqUpdate, SeqUpdateLost, SeqStale, SeqWrite, Die,
                       Restart, seqFrame
  <1> QED BY Zenon, <1>1, <1>2, <1>3, <1>4, <1>5 DEF StepOf

(* What a frontend and the time share changes with frontend steps only. *)
LEMMA RequestsChange ==
    ASSUME NEW n \in Node, StepOf(n)
    PROVE  \/ UNCHANGED <<fe, clock>>
           \/ fe' = [fe EXCEPT ![n] = Idle] /\ clock' = clock
           \/ FrontendNext(n)
  <1> USE DEF seqVars, cleanVars, history
  <1>1. CASE Crash(n) \/ BecomeMaster(n) \/ LoseMaster(n)
    BY Zenon, <1>1 DEF Crash, Restart, BecomeMaster, LoseMaster
  <1>3. CASE CleanupNext(n)
    BY Zenon, <1>3 DEF CleanupNext, CleanStart, CleanRead, CleanDelete,
                       CleanFail, Die, Restart, cleanFrame
  <1>4. CASE TreeNext(n)
    BY Zenon, <1>4 DEF TreeNext, UpdateTree, Fetch, SetServingSTH,
                       ServingSTHUpdated, treeFrame
  <1>5. CASE SequencerNext(n)
    BY Zenon, <1>5 DEF SequencerNext, SeqStart, SeqReadMapping, SeqNumber,
                       SeqUpdate, SeqUpdateLost, SeqStale, SeqWrite, Die,
                       Restart, seqFrame
  <1> QED BY Zenon, <1>1, <1>3, <1>4, <1>5 DEF StepOf

-----------------------------------------------------------------------------
(* The log in etcd. *)

(* A step that changes none of it. *)
LEMMA LogStutter ==
    ASSUME LogInv, UNCHANGED <<entries, mapping, serving, assigned>>
    PROVE  LogInv'
  <1>1. (NumbersAreStable /\ HashesAreOnce)'
    BY Zenon DEF LogInv, NumbersAreStable, HashesAreOnce
  <1>2. (PendingIsMapped /\ UnservedIsPending)'
    BY Zenon DEF LogInv, PendingIsMapped, UnservedIsPending
  <1>3. (MappedIsAssigned /\ AssignedIsInitial)'
    BY Zenon DEF LogInv, MappedIsAssigned, AssignedIsInitial, Mapped
  <1>4. (MappingReaches /\ DeletedInOrder)'
    BY Zenon DEF LogInv, MappingReaches, DeletedInOrder, Mapped
  <1> QED BY Zenon, <1>1, <1>2, <1>3, <1>4 DEF LogInv

(* A hash that has a number and no entry is a leaf of the served tree. *)
LEMMA GoneIsServed ==
    ASSUME TypeInv, ServedIsStored, LogInv, StoredIsAssigned,
           NEW i \in Number, NEW l \in assigned[i], entries[l.hash] = NoSct
    PROVE  IsServed(l.hash)
  <1>1. i < serving
    <2>1. i \in Int /\ serving \in Int
      BY IdealTypes
    <2>2. ~(i >= serving)
      BY Zenon DEF LogInv, UnservedIsPending
    <2> QED BY <2>1, <2>2
  <1>2. PICK m \in Node : db[m][i] = l
    BY Zenon, <1>1, LeafIsStored DEF LogInv
  <1>3. l \in Leaf
    BY Zenon, IdealTypes
  <1>4. db[m][i] # NoLeaf /\ db[m][i].hash = l.hash
    BY Zenon, <1>2, <1>3, Constants
  <1> QED BY Zenon, <1>1, <1>4 DEF IsServed

(* A frontend creates an entry for a hash that has no number. *)
LEMMA LogCreate ==
    ASSUME Ideal, TypeInv, ServedIsStored, LogInv, StoredIsAssigned,
           NEW n \in Node, FeCreate(n)
    PROVE  /\ LogInv'
           /\ \A i \in Number : \A l \in assigned[i] :
                 l.hash # fe[n].hash /\ entries'[l.hash] = entries[l.hash]
           /\ \A h \in Mapped(mapping) :
                 h # fe[n].hash /\ entries'[h] = entries[h]
  <1>1. /\ entries[fe[n].hash] = NoSct /\ ~IsServed(fe[n].hash)
        /\ entries' = [entries EXCEPT ![fe[n].hash] = fe[n].sct]
    BY Zenon DEF FeCreate, Ideal
  <1>0. UNCHANGED <<mapping, serving, assigned>>
    BY Zenon DEF FeCreate, feFrame
  <1>2. ASSUME NEW i \in Number, NEW l \in assigned[i]
        PROVE  l.hash # fe[n].hash /\ entries'[l.hash] = entries[l.hash]
    <2>1. l.hash # fe[n].hash
      BY Zenon, <1>1, GoneIsServed
    <2>2. entries \in [Hash -> Sct \cup {NoSct}] /\ l.hash \in Hash
      BY Zenon, IdealTypes DEF TypeInv, TypeOK
    <2> QED BY Zenon, <1>1, <2>1, <2>2
  <1>3. ASSUME NEW h \in Mapped(mapping)
        PROVE  h # fe[n].hash /\ entries'[h] = entries[h]
    <2>1. mapping[h] \in Number
      BY Zenon, IdealTypes
    <2>2. PICK l \in assigned[mapping[h]] : l.hash = h
      BY Zenon DEF LogInv, MappedIsAssigned
    <2> QED BY Zenon, <1>2, <2>1, <2>2
  <1>4. (NumbersAreStable /\ HashesAreOnce)'
    BY Zenon, <1>0 DEF LogInv, NumbersAreStable, HashesAreOnce
  <1>5. PendingIsMapped' /\ UnservedIsPending'
    <2>1. PendingIsMapped'
      BY Zenon, <1>0, <1>2 DEF LogInv, PendingIsMapped
    <2>2. UnservedIsPending'
      BY Zenon, <1>0, <1>2 DEF LogInv, UnservedIsPending
    <2> QED BY Zenon, <2>1, <2>2
  <1>6. (MappedIsAssigned /\ AssignedIsInitial /\ MappingReaches)'
    BY Zenon, <1>0 DEF LogInv, MappedIsAssigned, AssignedIsInitial,
                 MappingReaches, Mapped
  <1>7. DeletedInOrder'
    <2>1. Mapped(mapping)' = Mapped(mapping)
      BY Zenon, <1>0 DEF Mapped
    <2> QED BY Zenon, <1>0, <1>3, <2>1 DEF LogInv, DeletedInOrder
  <1> QED BY Zenon, <1>2, <1>3, <1>4, <1>5, <1>6, <1>7 DEF LogInv

(* A clean-up deletes the lowest entry that is left to it. *)
LEMMA LogDelete ==
    ASSUME Ideal, TypeInv, MappingIsSound, LogInv, CleanKeysAreServed,
           NEW n \in Node, NEW h \in Hash, CleanDelete(n, h)
    PROVE  LogInv'
  <1>1. /\ h \in cleanKeys[n] /\ DeleteOrder(n, h)
        /\ entries' = [entries EXCEPT ![h] = NoSct]
        /\ UNCHANGED <<mapping, serving, assigned>>
    BY Zenon DEF CleanDelete, cleanFrame, history
  <1>2. /\ entries \in [Hash -> Sct \cup {NoSct}]
        /\ entries'[h] = NoSct
        /\ \A g \in Hash \ {h} : entries'[g] = entries[g]
    BY Zenon, <1>1 DEF TypeInv, TypeOK
  <1>3. PICK i \in Number : i < serving /\ \E l \in assigned[i] : l.hash = h
    BY Zenon, <1>1 DEF CleanKeysAreServed
  <1>4. (NumbersAreStable /\ HashesAreOnce)'
    BY Zenon, <1>1 DEF LogInv, NumbersAreStable, HashesAreOnce
  <1>5. (MappedIsAssigned /\ AssignedIsInitial /\ MappingReaches)'
    BY Zenon, <1>1 DEF LogInv, MappedIsAssigned, AssignedIsInitial,
                 MappingReaches, Mapped
  <1>6. PendingIsMapped'
    <2> SUFFICES ASSUME NEW j \in Number, NEW l \in assigned[j],
                        entries'[l.hash] # NoSct
                 PROVE  entries'[l.hash] = l.sct /\ mapping[l.hash] = j
      BY Zenon, <1>1 DEF PendingIsMapped
    <2>1. l.hash \in Hash
      BY Zenon, IdealTypes
    <2> QED BY Zenon, <1>2, <2>1 DEF LogInv, PendingIsMapped
  <1>7. UnservedIsPending'
    <2> SUFFICES ASSUME NEW j \in Number, NEW l \in assigned[j], j >= serving
                 PROVE  entries'[l.hash] # NoSct
      BY Zenon, <1>1 DEF UnservedIsPending
    <2>1. l.hash \in Hash /\ i # j
      BY IdealTypes, <1>3
    <2>2. l.hash # h
      BY Zenon, <1>3, <2>1 DEF LogInv, HashesAreOnce
    <2> QED BY Zenon, <1>2, <2>1, <2>2 DEF LogInv, UnservedIsPending
  <1>8. DeletedInOrder'
    <2> SUFFICES ASSUME NEW f \in Mapped(mapping), NEW g \in Mapped(mapping),
                        mapping[f] <= mapping[g], entries'[f] # NoSct
                 PROVE  entries'[g] # NoSct
      BY Zenon, <1>1 DEF DeletedInOrder, Mapped
    <2>0. f \in Hash /\ g \in Hash /\ mapping[f] \in Int /\ mapping[g] \in Int
      BY Zenon, IdealTypes
    <2>1. f # h /\ entries[f] # NoSct /\ entries[g] # NoSct
      BY Zenon, <1>2, <2>0 DEF LogInv, DeletedInOrder
    <2>2. CASE g = h
      <3>1. f \in cleanKeys[n]
        BY Zenon, <1>1, <2>1, <2>2 DEF CleanKeysAreServed
      <3>2. mapping[h] <= mapping[f]
        BY Zenon, <1>1, <3>1 DEF DeleteOrder, Ideal, Mapped
      <3>3. mapping[f] = mapping[g]
        BY <2>0, <2>2, <3>2
      <3> QED BY Zenon, <2>1, <2>2, <3>3 DEF MappingIsSound, MappingIsOrdered
    <2> QED BY Zenon, <1>2, <2>0, <2>1, <2>2
  <1> QED BY Zenon, <1>4, <1>5, <1>6, <1>7, <1>8 DEF LogInv

(* The tree that the master serves has been numbered. *)
LEMMA LogServe ==
    ASSUME TypeInv, TypeInv', SignedIsStored, LogInv, StoredIsAssigned,
           NEW n \in Node, SetServingSTH(n)
    PROVE  LogInv' /\ serving < serving'
  <1>1. PICK m \in Node : signed[m] > serving /\ serving' = signed[m]
    BY Zenon DEF SetServingSTH
  <1>2. UNCHANGED <<entries, mapping, assigned>>
    BY Zenon DEF SetServingSTH, treeFrame, history
  <1>3. /\ serving \in Int /\ serving' \in Int /\ serving < serving'
        /\ \A i \in Number : i \in Int
    <2>1. serving \in Int /\ \A i \in Number : i \in Int
      BY Zenon, IdealTypes
    <2>2. signed[m] \in Int
      BY DEF TypeInv, TypeOK
    <2> QED BY <1>1, <2>1, <2>2
  <1>4. \A i \in Number : i < serving' => assigned[i] # {}
    BY Zenon, <1>1 DEF SignedIsStored, StoredIsAssigned
  <1>5. \A i \in Number : i < serving => i < serving'
    BY <1>3
  <1>6. (NumbersAreStable /\ HashesAreOnce)'
    BY Zenon, <1>2 DEF LogInv, NumbersAreStable, HashesAreOnce
  <1>7. PendingIsMapped' /\ (MappedIsAssigned /\ DeletedInOrder)'
    <2>1. PendingIsMapped'
      BY Zenon, <1>2 DEF LogInv, PendingIsMapped
    <2>2. (MappedIsAssigned /\ DeletedInOrder)'
      BY Zenon, <1>2 DEF LogInv, MappedIsAssigned, DeletedInOrder, Mapped
    <2> QED BY Zenon, <2>1, <2>2
  <1>8. UnservedIsPending'
    <2>1. \A i \in Number : i >= serving' => i >= serving
      BY <1>3
    <2> QED BY Zenon, <1>2, <2>1 DEF LogInv, UnservedIsPending
  <1>9. AssignedIsInitial'
    BY Zenon, <1>2, <1>4, <1>5 DEF LogInv, AssignedIsInitial, Mapped
  <1>10. MappingReaches'
    BY Zenon, <1>2, <1>4 DEF LogInv, AssignedIsInitial, MappingReaches, Mapped
  <1> QED BY Zenon, <1>3, <1>6, <1>7, <1>8, <1>9, <1>10 DEF LogInv

(* What a sequencer commits: the numbers that were there, and new ones. *)
LEMMA StoredNumbers ==
    ASSUME TypeInv, NEW n \in Node, StoreMapping(n), UpdateIsNext(n)
    PROVE  /\ \A i \in Number : assigned[i] \subseteq assigned'[i]
           /\ \A h \in Mapped(seqMap[n]) :
                 /\ LeafOf(n, h) \in assigned'[seqMap[n][h]]
                 /\ LeafOf(n, h).hash = h /\ LeafOf(n, h).sct = seqPend[n][h]
           /\ \A i \in Number : \A l \in assigned'[i] :
                 \/ l \in assigned[i]
                 \/ \E h \in Mapped(seqMap[n]) :
                       /\ Fresh(n, h) /\ seqMap[n][h] = i
                       /\ l = LeafOf(n, h) /\ l.hash = h /\ l.sct = seqPend[n][h]
  <1>1. \A i \in Number : assigned'[i] = assigned[i] \cup
          {LeafOf(n, h) : h \in {g \in Hash : seqMap[n][g] = i}}
    BY Zenon DEF StoreMapping
  <1>2. \A h \in Mapped(seqMap[n]) : h \in Hash /\ seqMap[n][h] \in Number
    BY Zenon, IdealTypes
  <1>3. \A h \in Mapped(seqMap[n]) :
                 /\ LeafOf(n, h) \in assigned'[seqMap[n][h]]
                 /\ LeafOf(n, h).hash = h /\ LeafOf(n, h).sct = seqPend[n][h]
    <2>1. ASSUME NEW h \in Mapped(seqMap[n])
          PROVE  LeafOf(n, h) \in assigned'[seqMap[n][h]]
      <3>1. assigned'[seqMap[n][h]] = assigned[seqMap[n][h]] \cup
               {LeafOf(n, g) : g \in {f \in Hash : seqMap[n][f] = seqMap[n][h]}}
        BY Zenon, <1>1, <1>2
      <3>2. h \in Hash
        BY Zenon, <1>2
      <3> QED BY Zenon, <3>1, <3>2
    <2>2. \A h \in Mapped(seqMap[n]) :
             LeafOf(n, h).hash = h /\ LeafOf(n, h).sct = seqPend[n][h]
      BY DEF LeafOf
    <2> QED BY Zenon, <2>1, <2>2
  <1>4. ASSUME NEW i \in Number, NEW l \in assigned'[i], l \notin assigned[i]
        PROVE  \E h \in Mapped(seqMap[n]) :
                       /\ Fresh(n, h) /\ seqMap[n][h] = i
                       /\ l = LeafOf(n, h) /\ l.hash = h /\ l.sct = seqPend[n][h]
    <2>1. PICK h \in Hash : seqMap[n][h] = i /\ l = LeafOf(n, h)
      BY <1>1, <1>4
    <2>2. i # NoSeq
      BY DEF Number, NoSeq
    <2>3. h \in Mapped(seqMap[n])
      BY Zenon, <2>1, <2>2 DEF Mapped
    <2>4. ~Kept(n, h)
      BY <1>4, <2>1 DEF Kept
    <2>5. l.hash = h /\ l.sct = seqPend[n][h]
      BY <1>3, <2>1, <2>3
    <2> QED BY Zenon, <2>1, <2>3, <2>4, <2>5 DEF UpdateIsNext
  <1>5. \A i \in Number : assigned[i] \subseteq assigned'[i]
    BY Zenon, <1>1
  <1> QED BY Zenon, <1>3, <1>4, <1>5

(* A sequencer commits its mapping. *)
LEMMA LogStore ==
    ASSUME TypeInv, LogInv, NEW n \in Node, StoreMapping(n),
           seqPc[n] = "update", UpdateIsNext(n), MappingIsOrdered(seqMap[n]),
           UNCHANGED <<entries, serving>>
    PROVE  LogInv'
  <1> DEFINE M == seqMap[n]
  <1>0. /\ mapping' = M /\ entries' = entries /\ serving' = serving
        /\ Mapped(mapping)' = Mapped(M)
    BY Zenon DEF StoreMapping, Mapped
  <1>1. /\ \A i \in Number : i \in Int /\ i # NoSeq
        /\ serving \in Int
        /\ \A h \in Mapped(M) : h \in Hash /\ M[h] \in Number /\ M[h] # NoSeq
        /\ \A h \in Mapped(mapping) :
              h \in Hash /\ mapping[h] \in Number /\ mapping[h] # NoSeq
    <2>1. \A i \in Number : i \in Int /\ i # NoSeq
      BY DEF Number, NoSeq
    <2> QED BY Zenon, <2>1, IdealTypes
  <1>2. \A h \in Mapped(M) : Kept(n, h) \/ Fresh(n, h)
    BY Zenon DEF UpdateIsNext
  <1>3. /\ \A i \in Number : assigned[i] \subseteq assigned'[i]
        /\ \A h \in Mapped(M) :
                 /\ LeafOf(n, h) \in assigned'[M[h]]
                 /\ LeafOf(n, h).hash = h /\ LeafOf(n, h).sct = seqPend[n][h]
    BY Zenon, StoredNumbers
  <1> DEFINE New(i, l) ==
                 \E h \in Mapped(M) :
                       /\ Fresh(n, h) /\ M[h] = i
                       /\ l = LeafOf(n, h) /\ l.hash = h /\ l.sct = seqPend[n][h]
  <1>33. \A i \in Number : \A l \in assigned'[i] : l \in assigned[i] \/ New(i, l)
    BY Zenon, StoredNumbers
  <1>4. \A h \in Mapped(M) : h \in Mapped(mapping) => M[h] = mapping[h] /\ Kept(n, h)
    BY Zenon, <1>1, <1>2 DEF Kept, Fresh
  <1>5. \A h \in Mapped(M) : h \notin Mapped(mapping) => Fresh(n, h)
    BY Zenon, <1>1, <1>2 DEF Kept, Mapped
  <1>6. \A h \in Mapped(M) : Fresh(n, h) => entries[h] # NoSct
    <2>1. NoSct \notin Sct
      BY DEF NoSct, Sct
    <2> QED BY Zenon, <2>1 DEF Fresh, TypeInv, PendingKnown
  <1> HIDE DEF M, New
  <1>7. NumbersAreStable'
    <2> SUFFICES ASSUME NEW i \in Number, NEW k \in assigned'[i],
                        NEW l \in assigned'[i]
                 PROVE  k = l
      BY Zenon DEF NumbersAreStable
    <2>1. CASE k \in assigned[i] /\ l \in assigned[i]
      BY Zenon, <2>1 DEF LogInv, NumbersAreStable
    <2>2. CASE k \notin assigned[i] /\ l \notin assigned[i]
      <3>1. PICK g \in Mapped(M) : M[g] = i /\ k = LeafOf(n, g)
        BY Zenon, <1>33, <2>2 DEF New
      <3>2. PICK h \in Mapped(M) : M[h] = i /\ l = LeafOf(n, h)
        BY Zenon, <1>33, <2>2 DEF New
      <3>3. M[g] = M[h]
        BY Zenon, <3>1, <3>2
      <3>4. g = h
        BY Zenon, <3>3 DEF MappingIsOrdered, M
      <3> QED BY Zenon, <3>1, <3>2, <3>4
    <2>3. CASE assigned[i] # {} /\ ~(k \in assigned[i] /\ l \in assigned[i])
      <3>1. \E h \in Mapped(M) : Fresh(n, h) /\ M[h] = i
        BY Zenon, <1>33, <2>3 DEF New
      <3>2. \E h \in Mapped(M) : assigned[M[h]] = {} /\ M[h] = i
        BY Zenon, <3>1 DEF Fresh, M
      <3> QED BY <2>3, <3>2
    <2> QED BY Zenon, <2>1, <2>2, <2>3
  <1>8. HashesAreOnce'
    <2> SUFFICES ASSUME NEW i \in Number, NEW j \in Number,
                        NEW k \in assigned'[i], NEW l \in assigned'[j],
                        k.hash = l.hash
                 PROVE  i = j
      BY Zenon DEF HashesAreOnce
    <2>1. CASE k \in assigned[i] /\ l \in assigned[j]
      BY Zenon, <2>1 DEF LogInv, HashesAreOnce
    <2>2. CASE k \in assigned[i] /\ l \notin assigned[j]
      <3>1. PICK h \in Mapped(M) : Fresh(n, h) /\ l = LeafOf(n, h)
        BY Zenon, <1>33, <2>2 DEF New
      <3>2. k.hash = h
        BY Zenon, <1>3, <3>1
      <3> QED BY Zenon, <2>2, <3>1, <3>2 DEF Fresh
    <2>3. CASE k \notin assigned[i] /\ l \in assigned[j]
      <3>1. PICK h \in Mapped(M) : Fresh(n, h) /\ k = LeafOf(n, h)
        BY Zenon, <1>33, <2>3 DEF New
      <3>2. l.hash = h
        BY Zenon, <1>3, <3>1
      <3> QED BY Zenon, <2>3, <3>1, <3>2 DEF Fresh
    <2>4. CASE k \notin assigned[i] /\ l \notin assigned[j]
      <3>1. PICK g \in Mapped(M) : M[g] = i /\ k = LeafOf(n, g)
        BY Zenon, <1>33, <2>4 DEF New
      <3>2. PICK h \in Mapped(M) : M[h] = j /\ l = LeafOf(n, h)
        BY Zenon, <1>33, <2>4 DEF New
      <3>3. LeafOf(n, g).hash = g /\ LeafOf(n, h).hash = h
        BY Zenon, <1>3
      <3>4. g = h
        BY Zenon, <3>1, <3>2, <3>3
      <3> QED BY Zenon, <3>1, <3>2, <3>4
    <2> QED BY Zenon, <2>1, <2>2, <2>3, <2>4
  <1>9. MappedIsAssigned'
    BY Zenon, <1>0, <1>3 DEF MappedIsAssigned
  <1>10. PendingIsMapped'
    <2> SUFFICES ASSUME NEW i \in Number, NEW l \in assigned'[i],
                        entries[l.hash] # NoSct
                 PROVE  entries[l.hash] = l.sct /\ M[l.hash] = i
      BY Zenon, <1>0 DEF PendingIsMapped
    <2>1. CASE l \in assigned[i]
      <3>1. entries[l.hash] = l.sct /\ mapping[l.hash] = i
        BY Zenon, <2>1 DEF LogInv, PendingIsMapped
      <3>2. l.hash \in Mapped(mapping)
        BY Zenon, <1>1, <2>1, <3>1, IdealTypes DEF Mapped
      <3>3. l.hash \in Mapped(M)
        BY Zenon, <3>2 DEF UpdateIsNext, M
      <3> QED BY Zenon, <1>4, <3>1, <3>2, <3>3
    <2>2. CASE l \notin assigned[i]
      <3>1. PICK h \in Mapped(M) : /\ Fresh(n, h) /\ M[h] = i
                                  /\ l.hash = h /\ l.sct = seqPend[n][h]
        BY Zenon, <1>33, <2>2 DEF New
      <3> QED BY <3>1 DEF Fresh
    <2> QED BY Zenon, <2>1, <2>2
  <1>11. UnservedIsPending'
    <2> SUFFICES ASSUME NEW i \in Number, NEW l \in assigned'[i], i >= serving
                 PROVE  entries[l.hash] # NoSct
      BY Zenon, <1>0 DEF UnservedIsPending
    <2>1. CASE l \in assigned[i]
      BY Zenon, <2>1 DEF LogInv, UnservedIsPending
    <2>2. CASE l \notin assigned[i]
      <3>1. New(i, l)
        BY Zenon, <1>33, <2>2
      <3>2. PICK h \in Mapped(M) : Fresh(n, h) /\ l.hash = h
        BY Zenon, <3>1 DEF New
      <3> QED BY Zenon, <1>6, <3>2
    <2> QED BY Zenon, <2>1, <2>2
  <1>12. AssignedIsInitial'
    <2> SUFFICES ASSUME NEW i \in Number
                 PROVE  assigned'[i] # {} <=>
                           i < serving \/ \E h \in Mapped(M) : i <= M[h]
      BY Zenon, <1>0 DEF AssignedIsInitial
    <2>1. ASSUME i < serving PROVE assigned'[i] # {}
      BY Zenon, <1>3, <2>1 DEF LogInv, AssignedIsInitial
    <2>2. ASSUME NEW h \in Mapped(M), i <= M[h] PROVE assigned'[i] # {}
      <3>1. assigned[i] # {} \/ \E g \in Mapped(M) : M[g] = i
        BY Zenon, <2>2 DEF UpdateIsNext, M
      <3> QED BY Zenon, <1>3, <3>1
    <2>3. ASSUME NEW l \in assigned'[i], ~(i < serving)
          PROVE  \E h \in Mapped(M) : i <= M[h]
      <3>1. i >= serving /\ i <= i
        BY <1>1, <2>3
      <3>2. entries'[l.hash] # NoSct
        BY Zenon, <1>0, <1>11, <3>1 DEF UnservedIsPending
      <3>3. mapping'[l.hash] = i
        BY Zenon, <1>10, <3>2 DEF PendingIsMapped
      <3>4. l.hash \in Hash
        <4>1. CASE l \in assigned[i]
          BY Zenon, <4>1, IdealTypes
        <4>2. CASE l \notin assigned[i]
          <5>1. PICK h \in Mapped(M) : l.hash = h
            BY Zenon, <1>33, <4>2 DEF New
          <5> QED BY Zenon, <1>1, <5>1
        <4> QED BY Zenon, <4>1, <4>2
      <3>5. l.hash \in Mapped(M)
        BY Zenon, <1>0, <1>1, <3>3, <3>4 DEF Mapped
      <3> QED BY Zenon, <1>0, <3>1, <3>3, <3>5
    <2> QED BY Zenon, <2>1, <2>2, <2>3
  <1>13. \A h \in Mapped(M) : Fresh(n, h) =>
            M[h] >= serving /\ \A g \in Mapped(mapping) : mapping[g] < M[h]
    <2> SUFFICES ASSUME NEW h \in Mapped(M), Fresh(n, h)
                 PROVE  /\ M[h] >= serving
                        /\ \A g \in Mapped(mapping) : mapping[g] < M[h]
      BY Zenon
    <2>1. assigned[M[h]] = {} /\ M[h] \in Number
      BY Zenon, <1>1 DEF Fresh, M
    <2>2. ~(M[h] < serving \/ \E g \in Mapped(mapping) : M[h] <= mapping[g])
      BY Zenon, <2>1 DEF LogInv, AssignedIsInitial
    <2> QED BY <1>1, <2>1, <2>2
  <1>14. MappingReaches'
    <2> SUFFICES ASSUME NEW h \in Mapped(M), NEW i \in Number, i < serving
                 PROVE  \E g \in Mapped(M) : i <= M[g]
      BY Zenon, <1>0 DEF MappingReaches
    <2>1. CASE Fresh(n, h)
      <3>1. i <= M[h]
        BY <1>1, <1>13, <2>1
      <3> QED BY Zenon, <3>1
    <2>2. CASE h \in Mapped(mapping)
      <3>1. PICK g \in Mapped(mapping) : i <= mapping[g]
        BY Zenon, <2>2 DEF LogInv, MappingReaches
      <3>2. CASE g \in Mapped(M)
        BY Zenon, <1>4, <3>1, <3>2
      <3>3. CASE g \notin Mapped(M)
        <4>1. mapping[g] < M[h]
          BY Zenon, <3>3 DEF UpdateIsNext, M
        <4>2. i <= M[h]
          BY <1>1, <3>1, <4>1
        <4> QED BY Zenon, <4>2
      <3> QED BY Zenon, <3>2, <3>3
    <2> QED BY Zenon, <1>5, <2>1, <2>2
  <1>15. DeletedInOrder'
    <2> SUFFICES ASSUME NEW g \in Mapped(M), NEW h \in Mapped(M),
                        M[g] <= M[h], entries[g] # NoSct
                 PROVE  entries[h] # NoSct
      BY <1>0 DEF DeletedInOrder
    <2>1. CASE h \notin Mapped(mapping)
      BY Zenon, <1>5, <1>6, <2>1
    <2>2. CASE g \in Mapped(mapping) /\ h \in Mapped(mapping)
      BY Zenon, <1>4, <2>2 DEF LogInv, DeletedInOrder
    <2>3. CASE g \notin Mapped(mapping) /\ h \in Mapped(mapping)
      <3>1. mapping[h] < M[g] /\ M[h] = mapping[h]
        BY Zenon, <1>4, <1>5, <1>13, <2>3
      <3> QED BY <1>1, <3>1
    <2> QED BY Zenon, <2>1, <2>2, <2>3
  <1> QED BY Zenon, <1>7, <1>8, <1>9, <1>10, <1>11, <1>12, <1>14, <1>15 DEF LogInv

-----------------------------------------------------------------------------
(* The threads of the nodes. *)

(* A step of n leaves the sequencers of the other nodes where they are. *)
LEMMA OthersSequence ==
    ASSUME TypeInv, NEW n \in Node, NEW m \in Node \ {n}, StepOf(n)
    PROVE  /\ seqPc'[m] = seqPc[m] /\ seqNext'[m] = seqNext[m]
           /\ seqMap'[m] = seqMap[m] /\ seqPend'[m] = seqPend[m]
           /\ \/ seqHandle'[m] = seqHandle[m]
              \/ SeqUpdate(n) \/ SeqUpdateLost(n)
  <1> USE DEF seqVars, cleanVars, history
  <1>0. /\ DOMAIN seqPc = Node /\ DOMAIN seqNext = Node /\ DOMAIN seqMap = Node
        /\ DOMAIN seqPend = Node /\ DOMAIN seqHandle = Node
    BY Zenon DEF TypeInv, TypeOK
  <1>1. CASE Restart(n)
    BY Zenon, <1>0, <1>1 DEF Restart
  <1>2. CASE SeqReturn(n) /\ \/ seqHandle' = seqHandle
                             \/ seqHandle' = [seqHandle EXCEPT ![n] = FALSE]
                             \/ SeqUpdate(n) \/ SeqUpdateLost(n)
    BY Zenon, <1>0, <1>2 DEF SeqReturn
  <1>3. CASE UNCHANGED seqVars
    BY Zenon, <1>3
  <1>4. CASE Crash(n) \/ BecomeMaster(n) \/ LoseMaster(n)
    BY Zenon, <1>1, <1>3, <1>4 DEF Crash, BecomeMaster, LoseMaster
  <1>5. CASE FrontendNext(n)
    BY Zenon, <1>3, <1>5 DEF FrontendNext, FeDuplicate, FeSign, FeCreate,
                             FeExists, FeGet, FeReject, feFrame
  <1>6. CASE CleanupNext(n)
    BY Zenon, <1>1, <1>3, <1>6 DEF CleanupNext, CleanStart, CleanRead,
                                   CleanDelete, CleanFail, Die, cleanFrame
  <1>7. CASE TreeNext(n)
    BY Zenon, <1>3, <1>7 DEF TreeNext, UpdateTree, Fetch, SetServingSTH,
                             ServingSTHUpdated, treeFrame
  <1>8. CASE SequencerNext(n)
    <2>1. CASE SeqStart(n)
      BY Zenon, <1>0, <1>1, <2>1 DEF SeqStart, Die
    <2>2. CASE SeqReadMapping(n)
      BY Zenon, <1>0, <1>1, <2>2 DEF SeqReadMapping, Die
    <2>3. CASE \E cutoff \in 0 .. MaxSct : SeqNumber(n, cutoff)
      BY Zenon, <1>0, <1>1, <1>2, <2>3 DEF SeqNumber, Die
    <2>4. CASE SeqUpdate(n)
      BY Zenon, <1>0, <1>2, <2>4 DEF SeqUpdate
    <2>5. CASE SeqUpdateLost(n) \/ SeqStale(n)
      BY Zenon, <1>2, <2>5 DEF SeqUpdateLost, SeqStale
    <2>6. CASE SeqWrite(n)
      BY Zenon, <1>0, <1>1, <1>2, <2>6 DEF SeqWrite, Die
    <2> QED BY ZenonT(60), <1>8, <2>1, <2>2, <2>3, <2>4, <2>5, <2>6
               DEF SequencerNext
  <1> QED BY Zenon, <1>4, <1>5, <1>6, <1>7, <1>8 DEF StepOf

(* ... and their clean-ups and masterships. *)
LEMMA OthersClean ==
    ASSUME TypeInv, NEW n \in Node, NEW m \in Node \ {n}, StepOf(n)
    PROVE  /\ cleanPc'[m] = cleanPc[m] /\ cleanUpTo'[m] = cleanUpTo[m]
           /\ cleanKeys'[m] = cleanKeys[m] /\ master'[m] = master[m]
  <1> USE DEF seqVars, cleanVars, history
  <1>0. /\ DOMAIN cleanPc = Node /\ DOMAIN cleanUpTo = Node
        /\ DOMAIN cleanKeys = Node /\ DOMAIN master = Node
    BY Zenon DEF TypeInv, TypeOK
  <1>1. CASE Restart(n)
    BY Zenon, <1>0, <1>1 DEF Restart
  <1>2. CASE CleanReturn(n) /\ master' = master
    BY Zenon, <1>0, <1>2 DEF CleanReturn
  <1>3. CASE UNCHANGED <<cleanVars, master>>
    BY Zenon, <1>3
  <1>4. CASE Crash(n) \/ BecomeMaster(n) \/ LoseMaster(n)
    BY Zenon, <1>0, <1>1, <1>4 DEF Crash, BecomeMaster, LoseMaster
  <1>5. CASE FrontendNext(n)
    BY Zenon, <1>3, <1>5 DEF FrontendNext, FeDuplicate, FeSign, FeCreate,
                             FeExists, FeGet, FeReject, feFrame
  <1>6. CASE CleanupNext(n)
    <2>1. CASE CleanStart(n) \/ CleanFail(n)
      BY Zenon, <1>0, <1>2, <2>1 DEF CleanStart, CleanFail, cleanFrame
    <2>2. CASE CleanRead(n)
      BY Zenon, <1>0, <1>1, <1>2, <2>2 DEF CleanRead, Die, cleanFrame
    <2>3. CASE \E h \in Hash : CleanDelete(n, h)
      BY Zenon, <1>0, <1>2, <2>3 DEF CleanDelete, cleanFrame
    <2> QED BY Zenon, <1>6, <2>1, <2>2, <2>3 DEF CleanupNext
  <1>7. CASE TreeNext(n)
    BY Zenon, <1>3, <1>7 DEF TreeNext, UpdateTree, Fetch, SetServingSTH,
                             ServingSTHUpdated, treeFrame
  <1>8. CASE SequencerNext(n)
    BY Zenon, <1>1, <1>3, <1>8
       DEF SequencerNext, SeqStart, SeqReadMapping, SeqNumber, SeqUpdate,
           SeqUpdateLost, SeqStale, SeqWrite, Die, seqFrame
  <1> QED BY Zenon, <1>4, <1>5, <1>6, <1>7, <1>8 DEF StepOf

(* How the own sequencer moves. *)
LEMMA OwnSequence ==
    ASSUME TypeInv, NEW n \in Node, StepOf(n)
    PROVE  \/ /\ seqPc'[n] = seqPc[n] /\ seqNext'[n] = seqNext[n]
              /\ seqMap'[n] = seqMap[n] /\ seqPend'[n] = seqPend[n]
              /\ seqHandle'[n] = seqHandle[n]
           \/ seqPc'[n] = "idle"
           \/ SeqStart(n) /\ seqPc'[n] = "next"
           \/ SeqReadMapping(n) /\ seqPc'[n] = "mapped"
           \/ /\ \E cutoff \in 0 .. MaxSct : SeqNumber(n, cutoff)
              /\ seqPc'[n] = "update"
           \/ SeqUpdate(n) /\ seqPc'[n] = "write"
  <1> USE DEF seqVars, cleanVars, history
  <1>0. /\ DOMAIN seqPc = Node /\ DOMAIN seqNext = Node /\ DOMAIN seqMap = Node
        /\ DOMAIN seqPend = Node /\ DOMAIN seqHandle = Node
    BY Zenon DEF TypeInv, TypeOK
  <1>1. CASE Restart(n) \/ SeqReturn(n)
    BY Zenon, <1>0, <1>1 DEF Restart, SeqReturn
  <1>3. CASE UNCHANGED seqVars
    BY Zenon, <1>3
  <1>4. CASE Crash(n) \/ BecomeMaster(n) \/ LoseMaster(n)
    BY Zenon, <1>1, <1>3, <1>4 DEF Crash, BecomeMaster, LoseMaster
  <1>5. CASE FrontendNext(n)
    BY Zenon, <1>3, <1>5 DEF FrontendNext, FeDuplicate, FeSign, FeCreate,
                             FeExists, FeGet, FeReject, feFrame
  <1>6. CASE CleanupNext(n)
    BY Zenon, <1>1, <1>3, <1>6 DEF CleanupNext, CleanStart, CleanRead,
                                   CleanDelete, CleanFail, Die, cleanFrame
  <1>7. CASE TreeNext(n)
    BY Zenon, <1>3, <1>7 DEF TreeNext, UpdateTree, Fetch, SetServingSTH,
                             ServingSTHUpdated, treeFrame
  <1>8. CASE SequencerNext(n)
    <2>1. CASE SeqStart(n)
      BY Zenon, <1>0, <1>1, <2>1 DEF SeqStart, Die
    <2>2. CASE SeqReadMapping(n)
      BY Zenon, <1>0, <1>1, <2>2 DEF SeqReadMapping, Die
    <2>3. CASE \E cutoff \in 0 .. MaxSct : SeqNumber(n, cutoff)
      BY Zenon, <1>0, <1>1, <2>3 DEF SeqNumber, Die
    <2>4. CASE SeqUpdate(n)
      BY Zenon, <1>0, <1>1, <2>4 DEF SeqUpdate
    <2>5. CASE SeqUpdateLost(n) \/ SeqStale(n)
      BY Zenon, <1>1, <2>5 DEF SeqUpdateLost, SeqStale
    <2>6. CASE SeqWrite(n)
      BY Zenon, <1>0, <1>1, <2>6 DEF SeqWrite, Die
    <2> QED BY ZenonT(60), <1>8, <2>1, <2>2, <2>3, <2>4, <2>5, <2>6
               DEF SequencerNext
  <1> QED BY Zenon, <1>4, <1>5, <1>6, <1>7, <1>8 DEF StepOf

(* How the own clean-up moves. *)
LEMMA OwnClean ==
    ASSUME TypeInv, NEW n \in Node, StepOf(n)
    PROVE  \/ /\ cleanPc'[n] = cleanPc[n] /\ cleanUpTo'[n] = cleanUpTo[n]
              /\ cleanKeys'[n] = cleanKeys[n]
           \/ cleanPc'[n] = "idle" /\ cleanUpTo'[n] = 0 /\ cleanKeys'[n] = {}
           \/ CleanStart(n)
           \/ CleanRead(n) /\ cleanPc'[n] = "delete" /\ cleanUpTo'[n] = 0
           \/ \E h \in Hash : /\ CleanDelete(n, h)
                              /\ cleanPc[n] = "delete"
                              /\ cleanPc'[n] = cleanPc[n]
                              /\ cleanUpTo'[n] = cleanUpTo[n]
                              /\ cleanKeys'[n] = cleanKeys[n] \ {h}
  <1> USE DEF seqVars, cleanVars, history
  <1>0. /\ DOMAIN cleanPc = Node /\ DOMAIN cleanUpTo = Node
        /\ DOMAIN cleanKeys = Node /\ DOMAIN master = Node
    BY Zenon DEF TypeInv, TypeOK
  <1>1. CASE Restart(n) \/ CleanReturn(n)
    BY Zenon, <1>0, <1>1 DEF Restart, CleanReturn
  <1>3. CASE UNCHANGED cleanVars
    BY Zenon, <1>3
  <1>4. CASE Crash(n) \/ BecomeMaster(n) \/ LoseMaster(n)
    BY Zenon, <1>1, <1>3, <1>4 DEF Crash, BecomeMaster, LoseMaster
  <1>5. CASE FrontendNext(n)
    BY Zenon, <1>3, <1>5 DEF FrontendNext, FeDuplicate, FeSign, FeCreate,
                             FeExists, FeGet, FeReject, feFrame
  <1>6. CASE CleanupNext(n)
    <2>1. CASE CleanStart(n) \/ CleanFail(n)
      BY Zenon, <1>1, <2>1 DEF CleanFail
    <2>2. CASE CleanRead(n)
      BY Zenon, <1>0, <1>1, <2>2 DEF CleanRead, Die
    <2>3. CASE \E h \in Hash : CleanDelete(n, h)
      BY Zenon, <1>0, <1>1, <2>3 DEF CleanDelete
    <2> QED BY Zenon, <1>6, <2>1, <2>2, <2>3 DEF CleanupNext
  <1>7. CASE TreeNext(n)
    BY Zenon, <1>3, <1>7 DEF TreeNext, UpdateTree, Fetch, SetServingSTH,
                             ServingSTHUpdated, treeFrame
  <1>8. CASE SequencerNext(n)
    BY Zenon, <1>1, <1>3, <1>8
       DEF SequencerNext, SeqStart, SeqReadMapping, SeqNumber, SeqUpdate,
           SeqUpdateLost, SeqStale, SeqWrite, Die, seqFrame
  <1> QED BY Zenon, <1>4, <1>5, <1>6, <1>7, <1>8 DEF StepOf

(* A node becomes active by winning the election. *)
LEMMA BecomesActive ==
    ASSUME TypeInv, NEW n \in Node, StepOf(n), Active(n)'
    PROVE  Active(n) \/ BecomeMaster(n)
  <1> USE DEF seqVars, cleanVars, history
  <1>1. CASE master'[n]
    <2>1. CASE Restart(n)
      BY Zenon, <1>1, <2>1 DEF Restart, TypeInv, TypeOK
    <2>2. CASE master' = master
      BY Zenon, <1>1, <2>2 DEF Active
    <2>3. CASE Crash(n) \/ LoseMaster(n)
      BY Zenon, <2>1, <2>3 DEF Crash, LoseMaster, Active
    <2>4. CASE FrontendNext(n)
      BY Zenon, <2>2, <2>4 DEF FrontendNext, FeDuplicate, FeSign, FeCreate,
                             FeExists, FeGet, FeReject, feFrame
    <2>5. CASE CleanupNext(n)
      BY Zenon, <2>1, <2>2, <2>5 DEF CleanupNext, CleanStart, CleanRead,
                                   CleanDelete, CleanFail, Die, cleanFrame
    <2>6. CASE TreeNext(n)
      BY Zenon, <2>2, <2>6 DEF TreeNext, UpdateTree, Fetch, SetServingSTH,
                             ServingSTHUpdated, treeFrame
    <2>7. CASE SequencerNext(n)
      BY Zenon, <2>1, <2>2, <2>7
         DEF SequencerNext, SeqStart, SeqReadMapping, SeqNumber, SeqUpdate,
             SeqUpdateLost, SeqStale, SeqWrite, Die, seqFrame
    <2> QED BY Zenon, <2>3, <2>4, <2>5, <2>6, <2>7 DEF StepOf
  <1>2. CASE seqPc'[n] # "idle"
    <2>1. SeqStart(n) => Active(n)
      BY Zenon DEF SeqStart, Active
    <2>2. /\ SeqReadMapping(n) \/ SeqUpdate(n) => Active(n)
          /\ \A cutoff \in 0 .. MaxSct : SeqNumber(n, cutoff) => Active(n)
      BY DEF SeqReadMapping, SeqNumber, SeqUpdate, Active
    <2>3. seqPc'[n] = seqPc[n] => Active(n)
      BY Zenon, <1>2 DEF Active
    <2> QED BY Zenon, <1>2, <2>1, <2>2, <2>3, OwnSequence
  <1>3. CASE cleanPc'[n] # "idle"
    <2>1. CleanStart(n) => Active(n)
      BY Zenon DEF CleanStart, Active
    <2>2. CleanRead(n) \/ cleanPc[n] = "delete" => Active(n)
      BY DEF CleanRead, Active
    <2>3. cleanPc'[n] = cleanPc[n] => Active(n)
      BY Zenon, <1>3 DEF Active
    <2> QED BY Zenon, <1>3, <2>1, <2>2, <2>3, OwnClean
  <1> QED BY Zenon, <1>1, <1>2, <1>3 DEF Active

(* There is never a second active node. *)
LEMMA OneActiveStep ==
    ASSUME Ideal, TypeInv, OneActive, NEW n \in Node, StepOf(n)
    PROVE  OneActive'
  <1>1. \A m \in Node \ {n} : Active(m)' => Active(m)
    BY Zenon, OthersSequence, OthersClean DEF Active
  <1>2. BecomeMaster(n) => \A m \in Node \ {n} : ~Active(m)
    BY Zenon DEF BecomeMaster, Active, Ideal
  <1>3. Active(n)' => Active(n) \/ BecomeMaster(n)
    BY Zenon, BecomesActive
  <1> SUFFICES ASSUME NEW k \in Node, NEW m \in Node, Active(k)', Active(m)'
               PROVE  k = m
    BY Zenon DEF OneActive
  <1> QED BY Zenon, <1>1, <1>2, <1>3 DEF OneActive

(* Who numbers, and who deletes. *)
LEMMA ActiveSteps ==
    ASSUME NEW n \in Node
    PROVE  /\ SeqUpdate(n) \/ SeqUpdateLost(n) => Active(n)
           /\ \A h \in Hash : CleanDelete(n, h) => Active(n)
           /\ seqPc[n] \in {"next", "mapped", "update", "write"} => Active(n)
  BY DEF SeqUpdate, SeqUpdateLost, CleanDelete, Active

(* Every node sees the new serving STH at once. *)
LEMMA CacheIsCurrentStep ==
    ASSUME Ideal, TypeInv, CacheIsCurrent, NEW n \in Node, StepOf(n)
    PROVE  CacheIsCurrent'
  <1> USE DEF seqVars, cleanVars, history
  <1>1. CASE UNCHANGED <<cached, serving>>
    BY Zenon, <1>1 DEF CacheIsCurrent
  <1>2. CASE Restart(n)
    BY Zenon, <1>2 DEF Restart, CacheIsCurrent, TypeInv, TypeOK
  <1>3. CASE Crash(n) \/ BecomeMaster(n) \/ LoseMaster(n)
    BY Zenon, <1>1, <1>2, <1>3 DEF Crash, BecomeMaster, LoseMaster
  <1>4. CASE FrontendNext(n)
    BY Zenon, <1>1, <1>4 DEF FrontendNext, FeDuplicate, FeSign, FeCreate,
                             FeExists, FeGet, FeReject, feFrame
  <1>5. CASE CleanupNext(n)
    BY Zenon, <1>1, <1>2, <1>5 DEF CleanupNext, CleanStart, CleanRead,
                                   CleanDelete, CleanFail, Die, cleanFrame
  <1>6. CASE TreeNext(n)
    <2>1. CASE SetServingSTH(n)
      BY Zenon, <2>1 DEF SetServingSTH, Ideal, CacheIsCurrent
    <2>2. CASE ServingSTHUpdated(n)
      BY Zenon, <2>2 DEF ServingSTHUpdated, CacheIsCurrent, TypeInv, TypeOK
    <2>3. CASE UpdateTree(n) \/ \E m \in Node, i \in Number : Fetch(n, m, i)
      BY Zenon, <1>1, <2>3 DEF UpdateTree, Fetch
    <2> QED BY Zenon, <1>6, <2>1, <2>2, <2>3 DEF TreeNext
  <1>7. CASE SequencerNext(n)
    BY Zenon, <1>1, <1>2, <1>7
       DEF SequencerNext, SeqStart, SeqReadMapping, SeqNumber, SeqUpdate,
           SeqUpdateLost, SeqStale, SeqWrite, Die, seqFrame
  <1> QED BY Zenon, <1>3, <1>4, <1>5, <1>6, <1>7 DEF StepOf

(* The only sequencer at work keeps its handle until it uses it. *)
LEMMA HandleIsHeldStep ==
    ASSUME TypeInv, OneActive, HandleIsHeld, NEW n \in Node, StepOf(n)
    PROVE  HandleIsHeld'
  <1> SUFFICES ASSUME NEW m \in Node, seqPc'[m] \in {"mapped", "update"}
               PROVE  seqHandle'[m]
    BY Zenon DEF HandleIsHeld
  <1>1. CASE m # n
    <2>1. seqPc[m] \in {"mapped", "update"} /\ seqHandle[m] /\ Active(m)
      BY Zenon, <1>1, OthersSequence, ActiveSteps DEF HandleIsHeld
    <2>2. ~SeqUpdate(n) /\ ~SeqUpdateLost(n)
      BY Zenon, <1>1, <2>1, ActiveSteps DEF OneActive
    <2> QED BY Zenon, <1>1, <2>1, <2>2, OthersSequence
  <1>2. CASE m = n
    <2>1. CASE SeqReadMapping(n) /\ seqPc'[n] = "mapped"
      <3>1. seqHandle' = [seqHandle EXCEPT ![n] = TRUE]
        BY <2>1 DEF SeqReadMapping, Die, Restart, TypeInv, TypeOK
      <3> QED BY Zenon, <1>2, <3>1 DEF TypeInv, TypeOK
    <2>2. CASE /\ \E cutoff \in 0 .. MaxSct : SeqNumber(n, cutoff)
               /\ seqPc'[n] = "update"
      <3>1. seqHandle' = seqHandle /\ seqPc[n] = "mapped"
        BY <2>2 DEF SeqNumber, SeqReturn, Die, Restart, TypeInv, TypeOK
      <3> QED BY Zenon, <1>2, <3>1 DEF HandleIsHeld
    <2>3. seqPc'[n] \notin {"idle", "next", "write"}
      BY <1>2
    <2> QED BY Zenon, <1>2, <2>1, <2>2, <2>3, OwnSequence DEF HandleIsHeld
  <1> QED BY Zenon, <1>1, <1>2

(* A number that is given out stays given out. *)
LEMMA AssignedGrows ==
    ASSUME TypeInv, NEW n \in Node, StepOf(n), NEW i \in Number
    PROVE  assigned[i] \subseteq assigned'[i]
  <1>1. CASE assigned' = assigned
    BY Zenon, <1>1
  <1>2. CASE StoreMapping(n)
    BY Zenon, <1>2 DEF StoreMapping
  <1> QED BY Zenon, <1>1, <1>2, AssignedChanges DEF SeqUpdate, SeqUpdateLost

(* Sequencers and fetchers store what was committed under the number. *)
LEMMA StoredIsAssignedStep ==
    ASSUME TypeInv, StoredIsAssigned, WriteIsAssigned, NEW n \in Node, StepOf(n)
    PROVE  StoredIsAssigned'
  <1> SUFFICES ASSUME NEW m \in Node, NEW i \in Number, db'[m][i] # NoLeaf
               PROVE  db'[m][i] \in assigned[i]
    BY Zenon, AssignedGrows DEF StoredIsAssigned
  <1>1. CASE db' = db
    BY Zenon, <1>1 DEF StoredIsAssigned
  <1>2. CASE \E k \in Node, j \in Number : Fetch(n, k, j)
    <2>1. PICK k \in Node, j \in Number : Fetch(n, k, j)
      BY Zenon, <1>2
    <2>2. db[k][j] # NoLeaf /\ db' = [db EXCEPT ![n] = [db[n] EXCEPT ![j] = db[k][j]]]
      BY Zenon, <2>1 DEF Fetch
    <2>3. db'[m][i] = db[m][i] \/ (i = j /\ db'[m][i] = db[k][j])
      BY Zenon, <2>2 DEF TypeInv, TypeOK
    <2> QED BY Zenon, <2>2, <2>3 DEF StoredIsAssigned
  <1>3. CASE SeqWrite(n) /\ ~Die(n)
    <2>1. PICK h \in Mapped(seqMap[n]) :
             /\ seqMap[n][h] = seqAt[n]
             /\ db' = [db EXCEPT ![n] = [db[n] EXCEPT ![seqAt[n]] = LeafOf(n, h)]]
      BY Zenon, <1>3 DEF SeqWrite
    <2>2. LeafOf(n, h) \in assigned[seqAt[n]]
      BY Zenon, <1>3, <2>1 DEF WriteIsAssigned, SeqWrite
    <2>3. db'[m][i] = db[m][i] \/ (i = seqAt[n] /\ db'[m][i] = LeafOf(n, h))
      BY Zenon, <2>1 DEF TypeInv, TypeOK
    <2> QED BY Zenon, <2>2, <2>3 DEF StoredIsAssigned
  <1> QED BY Zenon, <1>1, <1>2, <1>3, DatabaseChanges

(* What is served has been announced, and so stored. *)
LEMMA ServedIsStoredStep ==
    ASSUME TypeInv, SignedIsStored, ServedIsStored, NEW n \in Node, StepOf(n)
    PROVE  ServedIsStored'
  <1>1. \A i \in Number, m \in Node : db[m][i] # NoLeaf => db'[m][i] # NoLeaf
    BY Zenon, Growth
  <1>2. CASE serving' = serving
    BY Zenon, <1>1, <1>2 DEF ServedIsStored
  <1>3. CASE SetServingSTH(n)
    <2>1. PICK m \in Node : serving' = signed[m]
      BY Zenon, <1>3 DEF SetServingSTH
    <2>2. \A i \in Number : i < serving' => db[m][i] # NoLeaf
      BY Zenon, <2>1 DEF SignedIsStored
    <2> QED BY Zenon, <1>1, <2>2 DEF ServedIsStored
  <1> QED BY Zenon, <1>2, <1>3, ServingChanges

-----------------------------------------------------------------------------
(* Numbering. *)

(* A number above the served tree belongs to a pending, mapped entry. *)
LEMMA UnservedIsMapped ==
    ASSUME TypeInv, LogInv, NEW i \in Number, i >= serving, assigned[i] # {}
    PROVE  \E h \in Mapped(mapping) : mapping[h] = i /\ entries[h] # NoSct
  <1>1. PICK l \in assigned[i] : TRUE
    BY Zenon
  <1>2. l.hash \in Hash /\ i # NoSeq
    <2>1. i # NoSeq
      BY DEF Number, NoSeq
    <2> QED BY Zenon, <2>1, IdealTypes
  <1>3. entries[l.hash] # NoSct
    BY Zenon DEF LogInv, UnservedIsPending
  <1>4. mapping[l.hash] = i
    BY Zenon, <1>3 DEF LogInv, PendingIsMapped
  <1> QED BY Zenon, <1>2, <1>3, <1>4 DEF Mapped

(* A mapping whose entry is gone is a number of the served tree. *)
LEMMA GoneIsBelow ==
    ASSUME TypeInv, LogInv, NEW h \in Mapped(mapping), entries[h] = NoSct
    PROVE  mapping[h] < serving
  <1>1. mapping[h] \in Number /\ mapping[h] \in Int /\ serving \in Int
    BY Zenon, IdealTypes
  <1>2. PICK l \in assigned[mapping[h]] : l.hash = h
    BY Zenon DEF LogInv, MappedIsAssigned
  <1>3. ~(mapping[h] >= serving)
    BY Zenon, <1>1, <1>2 DEF LogInv, UnservedIsPending
  <1> QED BY <1>1, <1>3

(* The first free number follows the mapping, or the served tree. *)
LEMMA NextAvailable ==
    ASSUME TypeInv, LogInv, CacheIsCurrent, NEW n \in Node,
           NEW next \in 0 .. MaxLog, NextAvailableSequenceNumber(n, next)
    PROVE  \A i \in Number : assigned[i] # {} <=> i < next
  <1>0. \A i \in Number : i \in Int
    BY DEF Number
  <1>1. CASE Mapped(mapping) = {}
    <2>1. next = serving
      BY Zenon, <1>1 DEF NextAvailableSequenceNumber, CacheIsCurrent
    <2> QED BY Zenon, <1>1, <2>1 DEF LogInv, AssignedIsInitial
  <1>2. CASE Mapped(mapping) # {}
    <2>1. PICK h \in Mapped(mapping) :
             (\A g \in Mapped(mapping) : mapping[g] <= mapping[h])
             /\ next = mapping[h] + 1
      BY Zenon, <1>2 DEF NextAvailableSequenceNumber, NextAfter
    <2>2. \A g \in Mapped(mapping) : mapping[g] \in Int
      BY Zenon, <1>0, IdealTypes
    <2>3. ASSUME NEW i \in Number, assigned[i] # {} PROVE i < next
      <3>1. PICK g \in Mapped(mapping) : i <= mapping[g]
        BY Zenon, <1>2, <2>3 DEF LogInv, AssignedIsInitial, MappingReaches
      <3> QED BY <1>0, <2>1, <2>2, <3>1
    <2>4. ASSUME NEW i \in Number, i < next PROVE assigned[i] # {}
      <3>1. i <= mapping[h]
        BY <1>0, <2>1, <2>2, <2>4
      <3> QED BY Zenon, <3>1 DEF LogInv, AssignedIsInitial
    <2> QED BY Zenon, <2>3, <2>4
  <1> QED BY Zenon, <1>1, <1>2

(* What the loop over the pending entries makes of the mapping. *)
Numbered(next, new) ==
    /\ \A h \in Mapped(new) : h \in Hash /\ new[h] \in Number /\ entries[h] # NoSct
    /\ \A h \in Mapped(new) \cap Mapped(mapping) :
          new[h] = mapping[h] /\ new[h] < next
    /\ \A h \in Mapped(new) \ Mapped(mapping) : next <= new[h]
    /\ \A g \in Mapped(mapping) \ Mapped(new) : entries[g] = NoSct
    /\ \A h \in Mapped(new), i \in Number : next <= i /\ i <= new[h] =>
          \E g \in Mapped(new) \ Mapped(mapping) : new[g] = i
    /\ \A g, h \in Mapped(new) \ Mapped(mapping) :
          entries[g] < entries[h] => new[g] < new[h]

LEMMA Numbering ==
    ASSUME TypeInv, LogInv, NEW next \in 0 .. MaxLog, NEW cutoff \in 0 .. MaxSct,
           NEW new \in [Hash -> Number \cup {NoSeq}],
           NewMapping(mapping, next, OldEnough(cutoff), new),
           \A h \in Mapped(mapping) : entries[h] <= cutoff,
           \A i \in Number : assigned[i] # {} <=> i < next
    PROVE  Numbered(next, new)
  <1>0. /\ Mapped(new) = OldEnough(cutoff)
        /\ \A h \in OldEnough(cutoff) \ (OldEnough(cutoff) \ Mapped(mapping)) :
              new[h] = mapping[h]
        /\ \A g, h \in OldEnough(cutoff) \ Mapped(mapping) :
              entries[g] < entries[h] => new[g] < new[h]
    BY Zenon DEF NewMapping
  <1>1. PICK end \in next .. MaxLog :
           {new[h] : h \in Mapped(new) \ Mapped(mapping)} = next .. end - 1
    BY <1>0, Zenon DEF NewMapping
  <1>2. \A h \in Mapped(new) : h \in Hash /\ new[h] \in Number /\ entries[h] # NoSct
    BY Zenon, <1>0 DEF Mapped, OldEnough
  <1>3. \A h \in Mapped(new) \cap Mapped(mapping) :
           new[h] = mapping[h] /\ new[h] < next
    <2> TAKE h \in Mapped(new) \cap Mapped(mapping)
    <2>1. new[h] = mapping[h]
      BY Zenon, <1>0
    <2>2. mapping[h] \in Number /\ assigned[mapping[h]] # {}
      BY Zenon, IdealTypes DEF LogInv, MappedIsAssigned
    <2> QED BY Zenon, <2>1, <2>2
  <1>4. \A h \in Mapped(new) \ Mapped(mapping) : next <= new[h]
    <2> TAKE h \in Mapped(new) \ Mapped(mapping)
    <2>1. new[h] \in next .. end - 1
      BY Zenon, <1>1
    <2> QED BY <2>1
  <1>5. \A g \in Mapped(mapping) \ Mapped(new) : entries[g] = NoSct
    BY Zenon, <1>0, IdealTypes DEF OldEnough
  <1>6. ASSUME NEW h \in Mapped(new), NEW i \in Number, next <= i, i <= new[h]
        PROVE  \E g \in Mapped(new) \ Mapped(mapping) : new[g] = i
    <2>1. next \in Int /\ i \in Int /\ new[h] \in Int
      BY <1>2 DEF Number
    <2>2. h \notin Mapped(mapping)
      <3>1. ~(new[h] < next)
        BY <1>6, <2>1
      <3> QED BY Zenon, <1>3, <3>1
    <2>3. new[h] \in next .. end - 1
      BY Zenon, <1>1, <2>2
    <2>4. i \in next .. end - 1
      BY <1>6, <2>1, <2>3
    <2> QED BY Zenon, <1>1, <2>4
  <1>7. \A g, h \in Mapped(new) \ Mapped(mapping) :
          entries[g] < entries[h] => new[g] < new[h]
    BY Zenon, <1>0
  <1> QED BY Zenon, <1>2, <1>3, <1>4, <1>5, <1>6, <1>7 DEF Numbered

(* The CHECKs that the new mapping has to pass. *)
LEMMA NumberingPasses ==
    ASSUME TypeInv, LogInv, MappingIsSound, SctsAreUnique,
           NEW next \in 0 .. MaxLog, NEW new, Numbered(next, new),
           \A i \in Number : assigned[i] # {} <=> i < next
    PROVE  /\ MappingIsOrdered(new)
           /\ MappingIsContiguous(new, serving)
           /\ \A g \in Mapped(mapping) \ Mapped(new) : mapping[g] < serving
  <1>0. /\ next \in Int /\ serving \in Int /\ \A i \in Number : i \in Int
        /\ \A h \in Mapped(new) : h \in Hash /\ new[h] \in Number /\ new[h] \in Int
        /\ 0 <= serving /\ next <= MaxLog /\ 0 <= next /\ MaxLog \in Int
    <2>1. \A i \in Number : i \in Int
      BY DEF Number
    <2>2. next \in Int /\ next <= MaxLog /\ 0 <= next /\ MaxLog \in Int
      BY BoundAssumption
    <2> QED BY Zenon, <2>1, <2>2, IdealTypes DEF Numbered
  <1>1. MappingIsOrdered(new)
    <2> SUFFICES ASSUME NEW g \in Mapped(new), NEW h \in Mapped(new),
                        new[g] = new[h]
                 PROVE  g = h
      BY Zenon DEF MappingIsOrdered
    <2>1. CASE g \in Mapped(mapping) /\ h \in Mapped(mapping)
      <3>1. mapping[g] = mapping[h]
        BY Zenon, <2>1 DEF Numbered
      <3> QED BY Zenon, <2>1, <3>1 DEF MappingIsSound, MappingIsOrdered
    <2>2. CASE g \in Mapped(mapping) /\ h \notin Mapped(mapping)
      <3>1. new[g] < next /\ next <= new[h]
        BY Zenon, <2>2 DEF Numbered
      <3> QED BY <1>0, <3>1
    <2>3. CASE g \notin Mapped(mapping) /\ h \in Mapped(mapping)
      <3>1. new[h] < next /\ next <= new[g]
        BY Zenon, <2>3 DEF Numbered
      <3> QED BY <1>0, <3>1
    <2>4. CASE g \notin Mapped(mapping) /\ h \notin Mapped(mapping)
      <3>1. ~(entries[g] < entries[h]) /\ ~(entries[h] < entries[g])
        <4>1. ~(new[g] < new[h]) /\ ~(new[h] < new[g])
          BY <1>0
        <4> QED BY Zenon, <2>4, <4>1 DEF Numbered
      <3>2. entries[g] \in Int /\ entries[h] \in Int
        BY <1>0, IdealTypes DEF Sct, NoSct
      <3>3. entries[g] = entries[h]
        BY <3>1, <3>2
      <3>4. entries[g] # NoSct
        BY Zenon DEF Numbered
      <3> QED BY Zenon, <1>0, <3>3, <3>4 DEF SctsAreUnique
    <2> QED BY Zenon, <2>1, <2>2, <2>3, <2>4
  <1>2. ASSUME NEW i \in Number, serving <= i, i < next
        PROVE  \E h \in Mapped(new) : new[h] = i
    <2>1. i >= serving
      BY <1>0, <1>2
    <2>2. PICK h \in Mapped(mapping) : mapping[h] = i /\ entries[h] # NoSct
      BY Zenon, <1>2, <2>1, UnservedIsMapped
    <2>3. h \in Mapped(new)
      BY Zenon, <2>2 DEF Numbered
    <2>4. new[h] = mapping[h]
      BY Zenon, <2>3 DEF Numbered
    <2> QED BY Zenon, <2>2, <2>3, <2>4
  <1>3. ASSUME NEW h \in Mapped(new)
        PROVE  \E g \in Mapped(new) : new[g] <= serving
    <2>1. CASE serving < next
      <3>1. serving \in Number /\ serving <= serving
        BY <1>0, <2>1, BoundAssumption DEF Number
      <3>2. PICK g \in Mapped(new) : new[g] = serving
        BY Zenon, <1>2, <2>1, <3>1
      <3> QED BY Zenon, <3>1, <3>2
    <2>2. CASE next <= serving /\ h \in Mapped(mapping)
      <3>1. new[h] < next
        BY Zenon, <2>2 DEF Numbered
      <3>2. new[h] <= serving
        BY <1>0, <2>2, <3>1
      <3> QED BY Zenon, <3>2
    <2>3. CASE next <= serving /\ h \notin Mapped(mapping)
      <3>1. next <= new[h]
        BY Zenon, <2>3 DEF Numbered
      <3>2. next \in Number /\ next <= next
        <4>1. new[h] \in 0 .. MaxLog - 1
          BY Zenon, <1>0 DEF Number
        <4>2. next \in 0 .. MaxLog - 1 /\ next <= next
          BY <1>0, <3>1, <4>1
        <4> QED BY Zenon, <4>2 DEF Number
      <3>3. PICK g \in Mapped(new) : new[g] = next
        BY Zenon, <3>1, <3>2 DEF Numbered
      <3> QED BY <2>3, <3>3
    <2> QED BY <1>0, <2>1, <2>2, <2>3
  <1>4. ASSUME NEW g \in Mapped(new), NEW h \in Mapped(new),
               serving <= new[g], new[g] < new[h]
        PROVE  \E k \in Mapped(new) : new[k] = new[g] + 1
    <2>1. /\ new[g] + 1 \in Number /\ serving <= new[g] + 1
          /\ new[g] + 1 <= new[h]
      <3>1. new[g] \in 0 .. MaxLog - 1 /\ new[h] \in 0 .. MaxLog - 1
        BY Zenon, <1>0 DEF Number
      <3>2. /\ new[g] + 1 \in 0 .. MaxLog - 1 /\ serving <= new[g] + 1
            /\ new[g] + 1 <= new[h]
        BY <1>0, <1>4, <3>1
      <3> QED BY Zenon, <3>2 DEF Number
    <2>2. CASE new[g] + 1 < next
      BY Zenon, <1>2, <2>1, <2>2
    <2>3. CASE next <= new[g] + 1
      <3>1. PICK k \in Mapped(new) \ Mapped(mapping) : new[k] = new[g] + 1
        BY ZenonT(30), <2>1, <2>3 DEF Numbered
      <3> QED BY Zenon, <3>1
    <2> QED BY <1>0, <2>1, <2>2, <2>3
  <1>5. \A g \in Mapped(mapping) \ Mapped(new) : mapping[g] < serving
    BY Zenon, GoneIsBelow DEF Numbered
  <1> QED BY Zenon, <1>1, <1>3, <1>4, <1>5 DEF MappingIsContiguous

(* The loop runs on the mapping that is stored and from the first free number. *)
LEMMA SequencerNumbers ==
    ASSUME Ideal, TypeInv, LogInv, HandleIsHeld, HandleIsCurrent, NextIsFree,
           NEW n \in Node, NEW cutoff \in 0 .. MaxSct, SeqNumber(n, cutoff),
           NEW new \in [Hash -> Number \cup {NoSeq}],
           NewMapping(seqMap[n], seqNext[n], OldEnough(cutoff), new)
    PROVE  /\ seqMap[n] = mapping /\ seqNext[n] \in 0 .. MaxLog
           /\ \A i \in Number : assigned[i] # {} <=> i < seqNext[n]
           /\ Numbered(seqNext[n], new)
  <1>1. seqPc[n] = "mapped" /\ SkewFree(n, cutoff)
    BY Zenon DEF SeqNumber, Ideal
  <1>2. seqMap[n] = mapping
    BY Zenon, <1>1 DEF HandleIsHeld, HandleIsCurrent
  <1>3. \A i \in Number : assigned[i] # {} <=> i < seqNext[n]
    BY Zenon, <1>1 DEF NextIsFree
  <1>4. \A h \in Mapped(mapping) : entries[h] <= cutoff
    BY Zenon, <1>1, <1>2 DEF SkewFree
  <1>5. seqNext[n] \in 0 .. MaxLog
    BY Zenon DEF TypeInv, TypeOK
  <1>6. NewMapping(mapping, seqNext[n], OldEnough(cutoff), new)
    BY Zenon, <1>2
  <1>7. Numbered(seqNext[n], new)
    BY Zenon, <1>3, <1>4, <1>5, <1>6, Numbering
  <1> QED BY Zenon, <1>2, <1>3, <1>5, <1>7

(* The leaf of a mapped and pending hash is known. *)
LEMMA MappedLeaf ==
    ASSUME TypeInv, LogInv, NEW h \in Mapped(mapping), entries[h] # NoSct
    PROVE  [hash |-> h, sct |-> entries[h]] \in assigned[mapping[h]]
  <1>1. mapping[h] \in Number
    BY Zenon, IdealTypes
  <1>2. PICK l \in assigned[mapping[h]] : l.hash = h
    BY Zenon DEF LogInv, MappedIsAssigned
  <1>3. l.sct = entries[h]
    BY Zenon, <1>1, <1>2 DEF LogInv, PendingIsMapped
  <1>4. l \in Leaf
    BY Zenon, <1>1, IdealTypes
  <1>5. l = [hash |-> h, sct |-> entries[h]]
    BY <1>2, <1>3, <1>4 DEF Leaf
  <1> QED BY Zenon, <1>5

(* What the sequencer is about to store continues the log. *)
LEMMA NumberedIsNext ==
    ASSUME TypeInv, LogInv, NEW n \in Node, NEW next \in 0 .. MaxLog, NEW new,
           Numbered(next, new), \A i \in Number : assigned[i] # {} <=> i < next,
           seqMap'[n] = new, seqPend'[n] = entries,
           UNCHANGED <<entries, mapping, assigned>>
    PROVE  UpdateIsNext(n)'
  <1>0. /\ next \in Int /\ \A i \in Number : i \in Int /\ i # NoSeq
        /\ \A h \in Mapped(new) : h \in Hash /\ new[h] \in Number /\ new[h] \in Int
        /\ \A h \in Mapped(mapping) :
              h \in Hash /\ mapping[h] \in Number /\ mapping[h] \in Int
    <2>1. \A i \in Number : i \in Int /\ i # NoSeq
      BY DEF Number, NoSeq
    <2>2. next \in Int
      OBVIOUS
    <2> QED BY Zenon, <2>1, <2>2, IdealTypes DEF Numbered
  <1>1. /\ Mapped(seqMap'[n]) = Mapped(new) /\ Mapped(mapping') = Mapped(mapping)
        /\ \A h \in Hash : LeafOf(n, h)' = [hash |-> h, sct |-> entries[h]]
    BY Zenon DEF LeafOf
  <1>2. ASSUME NEW h \in Mapped(new), h \in Mapped(mapping)
        PROVE  Kept(n, h)'
    <2>1. new[h] = mapping[h] /\ entries[h] # NoSct /\ h \in Hash
      BY Zenon, <1>2 DEF Numbered
    <2>2. [hash |-> h, sct |-> entries[h]] \in assigned[mapping[h]]
      BY Zenon, <1>2, <2>1, MappedLeaf
    <2> QED BY <1>1, <2>1, <2>2 DEF Kept
  <1>3. ASSUME NEW h \in Mapped(new), h \notin Mapped(mapping)
        PROVE  Fresh(n, h)'
    <2>1. h \in Hash /\ new[h] \in Number /\ next <= new[h] /\ entries[h] # NoSct
      BY Zenon, <1>3 DEF Numbered
    <2>2. mapping[h] = NoSeq
      BY Zenon, <1>3, <2>1 DEF Mapped
    <2>3. assigned[new[h]] = {}
      <3>1. ~(new[h] < next)
        BY <1>0, <2>1
      <3> QED BY Zenon, <2>1, <3>1
    <2>4. \A i \in Number : \A l \in assigned[i] : l.hash # h
      <3> SUFFICES ASSUME NEW i \in Number, NEW l \in assigned[i], l.hash = h
                   PROVE  FALSE
        BY Zenon
      <3>1. entries[l.hash] # NoSct
        BY Zenon, <2>1
      <3>2. mapping[l.hash] = i
        BY Zenon, <3>1 DEF LogInv, PendingIsMapped
      <3> QED BY Zenon, <1>0, <2>2, <3>2
    <2> QED BY Zenon, <2>2, <2>3, <2>4 DEF Fresh
  <1>4. ASSUME NEW g \in Mapped(mapping), g \notin Mapped(new)
        PROVE  entries[g] = NoSct /\ \A h \in Mapped(new) : mapping[g] < new[h]
    <2>1. entries[g] = NoSct
      BY Zenon, <1>4 DEF Numbered
    <2>2. ASSUME NEW h \in Mapped(new), h \in Mapped(mapping)
          PROVE  mapping[g] < new[h]
      <3>1. new[h] = mapping[h] /\ entries[h] # NoSct
        BY Zenon, <2>2 DEF Numbered
      <3>2. ~(mapping[h] <= mapping[g])
        BY Zenon, <2>1, <2>2, <3>1 DEF LogInv, DeletedInOrder
      <3> QED BY <1>0, <2>2, <3>1, <3>2
    <2>3. ASSUME NEW h \in Mapped(new), h \notin Mapped(mapping)
          PROVE  mapping[g] < new[h]
      <3>1. next <= new[h]
        BY Zenon, <2>3 DEF Numbered
      <3>2. mapping[g] < next
        BY Zenon, <1>0 DEF LogInv, MappedIsAssigned
      <3> QED BY <1>0, <3>1, <3>2
    <2> QED BY Zenon, <2>1, <2>2, <2>3
  <1>5. ASSUME NEW h \in Mapped(new), NEW i \in Number, i <= new[h]
        PROVE  assigned[i] # {} \/ \E g \in Mapped(new) : new[g] = i
    <2>1. CASE i < next
      BY Zenon, <2>1
    <2>2. CASE next <= i
      BY Zenon, <1>5, <2>2 DEF Numbered
    <2> QED BY <1>0, <2>1, <2>2
  <1> QED BY Zenon, <1>1, <1>2, <1>3, <1>4, <1>5 DEF UpdateIsNext, Mapped

(* The successful end of the loop. *)
LEMMA NumberStep ==
    ASSUME TypeInv, NEW n \in Node, NEW cutoff \in 0 .. MaxSct,
           SeqNumber(n, cutoff), seqPc'[n] = "update"
    PROVE  /\ UNCHANGED <<entries, mapping, serving, assigned>>
           /\ seqPend'[n] = entries
           /\ \E new \in [Hash -> Number \cup {NoSeq}] :
                 /\ NewMapping(seqMap[n], seqNext[n], OldEnough(cutoff), new)
                 /\ seqMap'[n] = new
  <1>0. ~Die(n) /\ ~SeqReturn(n)
    BY Zenon DEF Die, Restart, SeqReturn, TypeInv, TypeOK
  <1>1. PICK new \in [Hash -> Number \cup {NoSeq}] :
           /\ NewMapping(seqMap[n], seqNext[n], OldEnough(cutoff), new)
           /\ seqMap' = [seqMap EXCEPT ![n] = new]
           /\ seqPend' = [seqPend EXCEPT ![n] = entries]
           /\ UNCHANGED <<entries, mapping, db, seqHandle, seqAt, faults,
                          assigned, seqFrame>>
    BY Zenon, <1>0 DEF SeqNumber
  <1>2. seqMap'[n] = new /\ seqPend'[n] = entries
    BY Zenon, <1>1 DEF TypeInv, TypeOK
  <1> QED BY Zenon, <1>1, <1>2 DEF seqFrame

(* The change of a pending entry does not disturb a mapping in flight. *)
LEMMA UpdateEntries ==
    ASSUME TypeInv, NEW m \in Node, seqPc[m] = "update", UpdateIsNext(m),
           UNCHANGED <<mapping, assigned>>,
           seqMap'[m] = seqMap[m], seqPend'[m] = seqPend[m],
           \A h \in Mapped(mapping) : entries[h] = NoSct => entries'[h] = NoSct,
           \A h \in Mapped(seqMap[m]) : Fresh(m, h) => entries'[h] = entries[h]
    PROVE  UpdateIsNext(m)'
  <1>1. Mapped(seqMap'[m]) = Mapped(seqMap[m]) /\ Mapped(mapping') = Mapped(mapping)
    BY Zenon
  <1>2. \A h \in Mapped(seqMap[m]) : LeafOf(m, h)' = LeafOf(m, h)
    BY Zenon DEF LeafOf
  <1>3. \A h \in Mapped(seqMap[m]) : Kept(m, h) => Kept(m, h)'
    BY <1>2 DEF Kept
  <1>4. \A h \in Mapped(seqMap[m]) : Fresh(m, h) => Fresh(m, h)'
    BY DEF Fresh
  <1> QED BY Zenon, <1>1, <1>3, <1>4 DEF UpdateIsNext

(* ... whoever changes it. *)
LEMMA UpdateInFlight ==
    ASSUME Ideal, TypeInv, ServedIsStored, LogInv, StoredIsAssigned,
           CleanKeysAreServed, NEW n \in Node, StepOf(n),
           NEW m \in Node, seqPc[m] = "update", UpdateIsNext(m),
           UNCHANGED <<mapping, assigned>>,
           seqMap'[m] = seqMap[m], seqPend'[m] = seqPend[m]
    PROVE  UpdateIsNext(m)'
  <1>1. CASE entries' = entries
    BY Zenon, <1>1, UpdateEntries
  <1>2. CASE FeCreate(n)
    <2>1. /\ entries[fe[n].hash] = NoSct
          /\ entries' = [entries EXCEPT ![fe[n].hash] = fe[n].sct]
      BY Zenon, <1>2 DEF FeCreate
    <2>2. \A h \in Mapped(mapping) : entries'[h] = entries[h]
      BY Zenon, <1>2, LogCreate
    <2>3. ASSUME NEW h \in Mapped(seqMap[m]), Fresh(m, h)
          PROVE  entries'[h] = entries[h]
      <3>1. h \in Hash /\ entries[h] # NoSct
        <4>1. NoSct \notin Sct
          BY DEF NoSct, Sct
        <4> QED BY Zenon, <2>3, <4>1, IdealTypes DEF Fresh, TypeInv, PendingKnown
      <3> QED BY Zenon, <2>1, <3>1 DEF TypeInv, TypeOK
    <2> QED BY Zenon, <2>2, <2>3, UpdateEntries
  <1>3. CASE \E h \in Hash : CleanDelete(n, h)
    <2>1. PICK k \in Hash : CleanDelete(n, k)
      BY Zenon, <1>3
    <2>2. k \in cleanKeys[n] /\ entries' = [entries EXCEPT ![k] = NoSct]
      BY Zenon, <2>1 DEF CleanDelete
    <2>3. \E i \in Number : \E l \in assigned[i] : l.hash = k
      BY Zenon, <2>2 DEF CleanKeysAreServed
    <2>4. \A h \in Mapped(mapping) : entries[h] = NoSct => entries'[h] = NoSct
      BY Zenon, <2>2, IdealTypes DEF TypeInv, TypeOK
    <2>5. ASSUME NEW h \in Mapped(seqMap[m]), Fresh(m, h)
          PROVE  entries'[h] = entries[h]
      <3>1. h \in Hash /\ h # k
        BY Zenon, <2>3, <2>5, IdealTypes DEF Fresh
      <3> QED BY Zenon, <2>2, <3>1 DEF TypeInv, TypeOK
    <2> QED BY Zenon, <2>4, <2>5, UpdateEntries
  <1> QED BY Zenon, <1>1, <1>2, <1>3, EntriesChange

(* Where a sequencer is after its write of the mapping. *)
LEMMA AfterUpdate ==
    ASSUME TypeInv, NEW n \in Node, SeqUpdate(n) \/ SeqUpdateLost(n)
    PROVE  /\ seqPc'[n] \in {"idle", "write"} /\ seqPc[n] = "update"
           /\ StoreMapping(n) /\ UNCHANGED <<entries, serving, db>>
           /\ seqPc'[n] = "write" =>
                 seqMap'[n] = seqMap[n] /\ seqPend'[n] = seqPend[n]
  <1>1. /\ seqPc[n] = "update" /\ StoreMapping(n) /\ UNCHANGED <<entries, serving, db>>
    BY Zenon DEF SeqUpdate, SeqUpdateLost, seqFrame
  <1>2. CASE SeqReturn(n)
    <2>1. seqPc'[n] = "idle"
      BY Zenon, <1>2 DEF SeqReturn, TypeInv, TypeOK
    <2> QED BY <1>1, <2>1
  <1>3. CASE ~SeqReturn(n)
    <2>1. /\ seqPc' = [seqPc EXCEPT ![n] = "write"]
          /\ seqMap' = seqMap /\ seqPend' = seqPend
      BY Zenon, <1>3 DEF SeqUpdate, SeqUpdateLost
    <2>2. seqPc'[n] = "write"
      BY Zenon, <2>1 DEF TypeInv, TypeOK
    <2> QED BY Zenon, <1>1, <2>1, <2>2
  <1> QED BY Zenon, <1>2, <1>3

(* A mapping on its way to etcd continues the log until it is there. *)
LEMMA UpdatesAreNextStep ==
    ASSUME Ideal, IdealInv, NEW n \in Node, StepOf(n)
    PROVE  UpdatesAreNext'
  <1>0. /\ TypeInv /\ ServedIsStored /\ LogInv /\ StoredIsAssigned
        /\ CleanKeysAreServed /\ OneActive /\ UpdatesAreNext /\ HandleIsHeld
        /\ HandleIsCurrent /\ NextIsFree
    BY Zenon DEF IdealInv, SafeInv
  <1> SUFFICES ASSUME NEW m \in Node, seqPc'[m] = "update"
               PROVE  UpdateIsNext(m)'
    BY Zenon DEF UpdatesAreNext
  <1>1. CASE /\ seqPc[m] = "update" /\ UNCHANGED <<mapping, assigned>>
             /\ seqMap'[m] = seqMap[m] /\ seqPend'[m] = seqPend[m]
    BY Zenon, <1>0, <1>1, UpdateInFlight DEF UpdatesAreNext
  <1>2. CASE m # n
    <2>1. /\ seqPc[m] = "update" /\ seqMap'[m] = seqMap[m]
          /\ seqPend'[m] = seqPend[m]
      BY Zenon, <1>0, <1>2, OthersSequence
    <2>2. Active(m)
      BY Zenon, <2>1, ActiveSteps
    <2>3. ~Active(n)
      BY Zenon, <1>0, <1>2, <2>2 DEF OneActive
    <2> QED BY Zenon, <1>1, <2>1, <2>3, ActiveSteps, AssignedChanges
  <1>3. CASE m = n
    <2>1. CASE \E cutoff \in 0 .. MaxSct : SeqNumber(n, cutoff)
      <3>1. PICK cutoff \in 0 .. MaxSct : SeqNumber(n, cutoff)
        BY Zenon, <2>1
      <3>2. /\ UNCHANGED <<entries, mapping, serving, assigned>>
            /\ seqPend'[n] = entries
            /\ \E new \in [Hash -> Number \cup {NoSeq}] :
                  /\ NewMapping(seqMap[n], seqNext[n], OldEnough(cutoff), new)
                  /\ seqMap'[n] = new
        BY Zenon, <1>0, <1>3, <3>1, NumberStep
      <3>3. PICK new \in [Hash -> Number \cup {NoSeq}] :
                  /\ NewMapping(seqMap[n], seqNext[n], OldEnough(cutoff), new)
                  /\ seqMap'[n] = new
        BY Zenon, <3>2
      <3>4. /\ seqNext[n] \in 0 .. MaxLog
            /\ \A i \in Number : assigned[i] # {} <=> i < seqNext[n]
            /\ Numbered(seqNext[n], new)
        BY Zenon, <1>0, <3>1, <3>3, SequencerNumbers
      <3> QED BY Zenon, <1>0, <1>3, <3>2, <3>3, <3>4, NumberedIsNext
    <2>2. CASE /\ seqPc'[n] = seqPc[n]
               /\ seqMap'[n] = seqMap[n] /\ seqPend'[n] = seqPend[n]
      <3>1. ~SeqUpdate(n) /\ ~SeqUpdateLost(n)
        BY <1>0, <1>3, AfterUpdate
      <3> QED BY Zenon, <1>1, <1>3, <2>2, <3>1, AssignedChanges
    <2>3. seqPc'[n] \notin {"idle", "next", "mapped", "write"}
      BY <1>3
    <2> QED BY Zenon, <1>0, <2>1, <2>2, <2>3, OwnSequence
  <1> QED BY Zenon, <1>2, <1>3

(* The first free number stays free until it is used. *)
LEMMA NextIsFreeStep ==
    ASSUME Ideal, IdealInv, NEW n \in Node, StepOf(n)
    PROVE  NextIsFree'
  <1>0. /\ TypeInv /\ LogInv /\ OneActive /\ NextIsFree /\ CacheIsCurrent
    BY Zenon DEF IdealInv, SafeInv
  <1> SUFFICES ASSUME NEW m \in Node, seqPc'[m] \in {"next", "mapped"}
               PROVE  \A i \in Number : assigned'[i] # {} <=> i < seqNext'[m]
    BY Zenon DEF NextIsFree
  <1>1. CASE /\ seqPc[m] \in {"next", "mapped"} /\ UNCHANGED <<mapping, assigned>>
             /\ seqNext'[m] = seqNext[m]
    BY Zenon, <1>0, <1>1 DEF NextIsFree
  <1>2. CASE m # n
    <2>1. seqPc[m] \in {"next", "mapped"} /\ seqNext'[m] = seqNext[m]
      BY Zenon, <1>0, <1>2, OthersSequence
    <2>2. Active(m)
      BY Zenon, <2>1, ActiveSteps
    <2>3. ~Active(n)
      BY Zenon, <1>0, <1>2, <2>2 DEF OneActive
    <2> QED BY Zenon, <1>1, <2>1, <2>3, ActiveSteps, AssignedChanges
  <1>3. CASE m = n
    <2>0. ~SeqUpdate(n) /\ ~SeqUpdateLost(n)
      BY <1>0, <1>3, AfterUpdate
    <2>1. UNCHANGED <<mapping, assigned>>
      BY Zenon, <2>0, AssignedChanges
    <2>2. CASE SeqStart(n)
      <3>0. ~Die(n)
        BY <1>0, <1>3 DEF Die, Restart, TypeInv, TypeOK
      <3>1. PICK next \in 0 .. MaxLog :
               /\ NextAvailableSequenceNumber(n, next)
               /\ seqNext' = [seqNext EXCEPT ![n] = next]
        BY Zenon, <2>2, <3>0 DEF SeqStart
      <3>2. seqNext'[n] = next
        BY Zenon, <1>0, <3>1 DEF TypeInv, TypeOK
      <3>3. \A i \in Number : assigned[i] # {} <=> i < next
        BY Zenon, <1>0, <3>1, NextAvailable
      <3> QED BY Zenon, <1>3, <2>1, <3>2, <3>3
    <2>3. CASE SeqReadMapping(n)
      <3>0. ~Die(n)
        BY <1>0, <1>3 DEF Die, Restart, TypeInv, TypeOK
      <3>1. seqPc[n] = "next" /\ seqNext' = seqNext
        BY Zenon, <2>3, <3>0 DEF SeqReadMapping
      <3> QED BY Zenon, <1>1, <1>3, <2>1, <3>1
    <2>4. CASE seqPc'[n] = seqPc[n] /\ seqNext'[n] = seqNext[n]
      BY Zenon, <1>1, <1>3, <2>1, <2>4
    <2>5. seqPc'[n] \notin {"idle", "update", "write"}
      BY <1>3
    <2> QED BY Zenon, <1>0, <2>2, <2>3, <2>4, <2>5, OwnSequence
  <1> QED BY Zenon, <1>2, <1>3

(* What is being written to a database has been committed. *)
LEMMA WriteIsAssignedStep ==
    ASSUME IdealInv, NEW n \in Node, StepOf(n)
    PROVE  WriteIsAssigned'
  <1>0. TypeInv /\ WriteIsAssigned /\ UpdatesAreNext
    BY Zenon DEF IdealInv, SafeInv
  <1> SUFFICES ASSUME NEW m \in Node, seqPc'[m] = "write"
               PROVE  \A h \in Mapped(seqMap'[m]) :
                         LeafOf(m, h)' \in assigned'[seqMap'[m][h]]
    BY Zenon DEF WriteIsAssigned, Mapped
  <1>1. CASE /\ seqMap'[m] = seqMap[m] /\ seqPend'[m] = seqPend[m]
             /\ \A h \in Mapped(seqMap[m]) :
                   LeafOf(m, h) \in assigned'[seqMap[m][h]]
    BY Zenon, <1>1 DEF LeafOf
  <1>2. CASE /\ seqPc[m] = "write"
             /\ seqMap'[m] = seqMap[m] /\ seqPend'[m] = seqPend[m]
    <2>1. \A h \in Mapped(seqMap[m]) : LeafOf(m, h) \in assigned'[seqMap[m][h]]
      BY Zenon, <1>0, <1>2, AssignedGrows, IdealTypes DEF WriteIsAssigned
    <2> QED BY Zenon, <1>1, <1>2, <2>1
  <1>3. CASE m # n
    BY Zenon, <1>0, <1>2, <1>3, OthersSequence
  <1>4. CASE m = n
    <2>1. CASE SeqUpdate(n)
      <3>1. /\ StoreMapping(n) /\ seqPc[n] = "update"
            /\ seqMap'[n] = seqMap[n] /\ seqPend'[n] = seqPend[n]
        BY Zenon, <1>0, <1>4, <2>1, AfterUpdate
      <3>2. UpdateIsNext(n)
        BY Zenon, <1>0, <3>1 DEF UpdatesAreNext
      <3>3. \A h \in Mapped(seqMap[n]) : LeafOf(n, h) \in assigned'[seqMap[n][h]]
        BY Zenon, <1>0, <3>1, <3>2, StoredNumbers
      <3> QED BY Zenon, <1>1, <1>4, <3>1, <3>3
    <2>2. seqPc'[n] \notin {"idle", "next", "mapped", "update"}
      BY <1>4
    <2> QED BY Zenon, <1>0, <1>2, <1>4, <2>1, <2>2, OwnSequence
  <1> QED BY Zenon, <1>3, <1>4

-----------------------------------------------------------------------------
(* Clean-up. *)

(* The limit of a clean-up is a served tree size. *)
LEMMA CleanUpToServedStep ==
    ASSUME TypeInv, TypeInv', CacheIsCurrent, CleanUpToServed,
           NEW n \in Node, StepOf(n)
    PROVE  CleanUpToServed'
  <1>0. /\ serving \in Int /\ serving' \in Int /\ 0 <= serving /\ serving <= serving'
        /\ \A m \in Node : cleanUpTo[m] \in Int
    BY TreeSizes
  <1> SUFFICES ASSUME NEW m \in Node
               PROVE  cleanUpTo'[m] <= serving'
    BY Zenon DEF CleanUpToServed
  <1>1. CASE cleanUpTo'[m] = cleanUpTo[m]
    BY <1>0, <1>1 DEF CleanUpToServed
  <1>2. CASE cleanUpTo'[m] = 0
    BY <1>0, <1>2
  <1>3. CASE CleanStart(n) /\ m = n
    <2>0. /\ cleanUpTo' = [cleanUpTo EXCEPT ![n] = cached[n]]
          /\ cleanUpTo \in [Node -> 0 .. MaxLog]
      BY Zenon, <1>3 DEF CleanStart, TypeInv, TypeOK
    <2>1. cleanUpTo'[n] = cached[n]
      BY Zenon, <2>0
    <2>2. cleanUpTo'[m] = serving
      BY Zenon, <1>3, <2>1 DEF CacheIsCurrent
    <2> QED BY <1>0, <2>2
  <1>4. CASE m # n
    BY Zenon, <1>1, <1>4, OthersClean
  <1>5. CASE m = n
    <2>1. \/ cleanUpTo'[n] = cleanUpTo[n] \/ cleanUpTo'[n] = 0
          \/ CleanStart(n)
      BY Zenon, OwnClean
    <2> QED BY Zenon, <1>1, <1>2, <1>3, <1>5, <2>1
  <1> QED BY Zenon, <1>4, <1>5

(* No step makes the entry of a mapped hash pending again. *)
LEMMA MappedEntriesShrink ==
    ASSUME Ideal, TypeInv, ServedIsStored, LogInv, StoredIsAssigned,
           NEW n \in Node, StepOf(n), NEW f \in Mapped(mapping),
           entries'[f] # NoSct
    PROVE  entries[f] # NoSct
  <1>0. f \in Hash
    BY Zenon, IdealTypes
  <1>1. CASE entries' = entries
    BY Zenon, <1>1
  <1>2. CASE FeCreate(n)
    BY Zenon, <1>2, LogCreate
  <1>3. CASE \E h \in Hash : CleanDelete(n, h)
    <2>1. PICK k \in Hash : entries' = [entries EXCEPT ![k] = NoSct]
      BY Zenon, <1>3 DEF CleanDelete
    <2>2. DOMAIN entries = Hash
      BY Zenon DEF TypeInv, TypeOK
    <2> QED BY <1>0, <2>1, <2>2
  <1> QED BY Zenon, <1>1, <1>2, <1>3, EntriesChange

(* A new mapping keeps the order of what clean-ups have in hand. *)
LEMMA KeysSurviveStore ==
    ASSUME TypeInv, LogInv, CleanKeysAreServed, NEW n \in Node, UpdateIsNext(n),
           NEW m \in Node, NEW h \in cleanKeys[m], NEW f \in Mapped(seqMap[n]),
           seqMap[n][f] <= seqMap[n][h], entries[f] # NoSct
    PROVE  f \in cleanKeys[m]
  <1>0. /\ f \in Hash /\ h \in Hash /\ seqMap[n][f] \in Number
        /\ \A i \in Number : i \in Int /\ 0 <= i
    BY Zenon, IdealTypes DEF TypeInv, TypeOK
  <1>1. seqMap[n][h] # NoSeq
    BY <1>0 DEF NoSeq
  <1>2. h \in Mapped(seqMap[n]) /\ seqMap[n][h] \in Number
    BY Zenon, <1>0, <1>1, IdealTypes DEF Mapped
  <1>3. ~Fresh(n, h)
    BY Zenon DEF Fresh, CleanKeysAreServed
  <1>4. seqMap[n][h] = mapping[h]
    BY Zenon, <1>2, <1>3 DEF UpdateIsNext, Kept
  <1>5. h \in Mapped(mapping) /\ seqMap[n][f] <= mapping[h]
    BY <1>0, <1>1, <1>4 DEF Mapped
  <1>6. assigned[seqMap[n][f]] # {}
    BY Zenon, <1>0, <1>5 DEF LogInv, AssignedIsInitial
  <1>7. Kept(n, f)
    BY Zenon, <1>6 DEF UpdateIsNext, Fresh
  <1>8. seqMap[n][f] = mapping[f]
    BY Zenon, <1>7 DEF Kept
  <1>9. f \in Mapped(mapping) /\ mapping[f] <= mapping[h]
    BY <1>5, <1>8 DEF Mapped
  <1> QED BY Zenon, <1>9 DEF CleanKeysAreServed

(* The keys of a clean-up stay served, and those below them stay included. *)
LEMMA CleanKeysAreServedStep ==
    ASSUME Ideal, IdealInv, TypeInv', NEW n \in Node, StepOf(n)
    PROVE  CleanKeysAreServed'
  <1>0. /\ TypeInv /\ ServedIsStored /\ LogInv /\ StoredIsAssigned
        /\ CleanKeysAreServed /\ UpdatesAreNext /\ CleanUpToServed
    BY Zenon DEF IdealInv, SafeInv
  <1>a. /\ serving \in Int /\ serving' \in Int /\ serving <= serving'
        /\ \A i \in Number : i \in Int
        /\ \A m \in Node : cleanUpTo[m] \in Int
    BY <1>0, TreeSizes
  <1> DEFINE ServedKey(h) ==
               \E i \in Number : i < serving /\ \E l \in assigned[i] : l.hash = h
  <1> DEFINE Below(m, h) ==
               \A f \in Mapped(mapping) :
                  mapping[f] <= mapping[h] /\ entries[f] # NoSct => f \in cleanKeys[m]
  <1> SUFFICES ASSUME NEW m \in Node, NEW h \in cleanKeys'[m]
               PROVE  ServedKey(h)' /\ Below(m, h)'
    BY Zenon DEF CleanKeysAreServed, Mapped
  <1>1. ASSUME ServedKey(h) PROVE ServedKey(h)'
    <2>1. PICK i \in Number : i < serving /\ \E l \in assigned[i] : l.hash = h
      BY Zenon, <1>1
    <2>2. i < serving'
      BY <1>a, <2>1
    <2> QED BY Zenon, <1>0, <2>1, <2>2, AssignedGrows
  <1>2. h \in cleanKeys[m] => ServedKey(h) /\ Below(m, h)
    BY Zenon, <1>0 DEF CleanKeysAreServed
  <1> HIDE DEF ServedKey
  <1>3. CASE SeqUpdate(n) \/ SeqUpdateLost(n)
    <2>1. /\ mapping' = seqMap[n] /\ UpdateIsNext(n) /\ entries' = entries
      BY Zenon, <1>0, <1>3, AfterUpdate DEF StoreMapping, UpdatesAreNext
    <2>2. cleanKeys' = cleanKeys
      BY Zenon, <1>3 DEF SeqUpdate, SeqUpdateLost, seqFrame, cleanVars
    <2>3. Below(m, h)'
      BY Zenon, <1>0, <2>1, <2>2, KeysSurviveStore
    <2> QED BY Zenon, <1>1, <1>2, <2>2, <2>3
  <1>4. CASE UNCHANGED <<mapping, assigned>>
    <2>1. \A f \in Mapped(mapping) : entries'[f] # NoSct => entries[f] # NoSct
      BY Zenon, <1>0, MappedEntriesShrink
    <2>2. CASE cleanKeys'[m] = cleanKeys[m]
      BY Zenon, <1>1, <1>2, <1>4, <2>1, <2>2
    <2>3. CASE m = n /\ CleanRead(n) /\ cleanPc'[n] = "delete"
      <3>1. ~Die(n) /\ ~CleanReturn(n)
        BY <1>0, <2>3 DEF Die, Restart, CleanReturn, TypeInv, TypeOK
      <3>2. cleanKeys' = [cleanKeys EXCEPT ![n] = KeysToDelete(n)]
        BY Zenon, <2>3, <3>1 DEF CleanRead
      <3>3. cleanKeys'[m] = KeysToDelete(n)
        BY Zenon, <1>0, <2>3, <3>2 DEF TypeInv, TypeOK
      <3>4. h \in Mapped(mapping) /\ mapping[h] < cleanUpTo[n]
        BY Zenon, <3>3 DEF KeysToDelete
      <3>5. /\ mapping[h] \in Number
            /\ \E l \in assigned[mapping[h]] : l.hash = h
        BY Zenon, <1>0, <3>4, IdealTypes DEF LogInv, MappedIsAssigned
      <3>6. mapping[h] < serving
        BY <1>0, <1>a, <3>4, <3>5 DEF CleanUpToServed
      <3>7. ServedKey(h)
        BY Zenon, <3>5, <3>6 DEF ServedKey
      <3>8. \A f \in Mapped(mapping) : mapping[f] <= mapping[h] => f \in cleanKeys'[m]
        <4>1. \A f \in Mapped(mapping) : mapping[f] \in Int
          BY Zenon, <1>0, <1>a, IdealTypes
        <4>2. \A f \in Mapped(mapping) :
                 mapping[f] <= mapping[h] => mapping[f] < cleanUpTo[n]
          BY <1>a, <3>4, <4>1
        <4> QED BY Zenon, <3>3, <4>2 DEF KeysToDelete
      <3> QED BY Zenon, <1>1, <1>4, <3>7, <3>8
    <2>4. CASE m = n /\ \E k \in Hash : /\ CleanDelete(n, k)
                                        /\ cleanKeys'[n] = cleanKeys[n] \ {k}
      <3>1. PICK k \in Hash : CleanDelete(n, k) /\ cleanKeys'[n] = cleanKeys[n] \ {k}
        BY Zenon, <2>4
      <3>2. entries'[k] = NoSct
        BY Zenon, <1>0, <3>1 DEF CleanDelete, TypeInv, TypeOK
      <3>3. h \in cleanKeys[m]
        BY Zenon, <2>4, <3>1
      <3>4. Below(m, h)'
        BY Zenon, <1>2, <1>4, <2>1, <2>4, <3>1, <3>2, <3>3
      <3> QED BY Zenon, <1>1, <1>2, <3>3, <3>4
    <2>5. CASE CleanStart(n)
      BY Zenon, <2>2, <2>5 DEF CleanStart
    <2> QED BY Zenon, <1>0, <2>2, <2>3, <2>4, <2>5, OthersClean, OwnClean
  <1> QED BY Zenon, <1>3, <1>4, AssignedChanges

-----------------------------------------------------------------------------
(* Frontends. *)

(* What a client holds an SCT for is pending or below the served tree. *)
LEMMA IssuedIsLoggedStep ==
    ASSUME Ideal, IdealInv, TypeInv', NEW n \in Node, StepOf(n)
    PROVE  IssuedIsLogged'
  <1>0. /\ TypeInv /\ LogInv /\ StoredIsAssigned /\ CleanKeysAreServed
        /\ IssuedIsLogged
    BY Zenon DEF IdealInv, SafeInv
  <1>a. /\ serving \in Int /\ serving' \in Int /\ serving <= serving'
        /\ \A i \in Number : i \in Int
        /\ NoSct \notin Sct
    BY <1>0, TreeSizes DEF Sct, NoSct
  <1> DEFINE InTree(l) == \E i \in Number : i < serving /\ l \in assigned[i]
  <1> SUFFICES ASSUME NEW l \in issued'
               PROVE  entries'[l.hash] = l.sct \/ InTree(l)'
    BY Zenon DEF IssuedIsLogged
  <1>b. DOMAIN entries = Hash
    BY Zenon, <1>0 DEF TypeInv, TypeOK
  <1>1. l \in Leaf /\ l.hash \in Hash /\ l.sct \in Sct
    <2>1. l \in Leaf
      BY Zenon DEF TypeInv, TypeOK
    <2> QED BY <2>1 DEF Leaf
  <1>2. ASSUME InTree(l) PROVE InTree(l)'
    <2>1. PICK i \in Number : i < serving /\ l \in assigned[i]
      BY Zenon, <1>2
    <2>2. i < serving'
      BY <1>a, <2>1
    <2> QED BY Zenon, <1>0, <2>1, <2>2, AssignedGrows
  <1> HIDE DEF InTree
  <1>3. CASE entries[l.hash] = l.sct
    <2>1. CASE entries' = entries
      BY Zenon, <1>3, <2>1
    <2>2. CASE FeCreate(n)
      <3>1. /\ entries[fe[n].hash] = NoSct
            /\ entries' = [entries EXCEPT ![fe[n].hash] = fe[n].sct]
        BY Zenon, <2>2 DEF FeCreate
      <3>2. l.hash # fe[n].hash
        BY <1>a, <1>1, <1>3, <3>1
      <3>3. entries'[l.hash] = entries[l.hash]
        BY Zenon, <1>b, <1>1, <3>1, <3>2
      <3> QED BY <1>3, <3>3
    <2>3. CASE \E h \in Hash : CleanDelete(n, h)
      <3>1. PICK k \in Hash : /\ k \in cleanKeys[n]
                              /\ entries' = [entries EXCEPT ![k] = NoSct]
        BY Zenon, <2>3 DEF CleanDelete
      <3>2. CASE l.hash # k
        <4>1. entries'[l.hash] = entries[l.hash]
          BY Zenon, <1>b, <1>1, <3>1, <3>2
        <4> QED BY <1>3, <4>1
      <3>3. CASE l.hash = k
        <4>1. PICK i \in Number : i < serving /\ \E g \in assigned[i] : g.hash = k
          BY Zenon, <1>0, <3>1 DEF CleanKeysAreServed
        <4>2. PICK g \in assigned[i] : g.hash = k
          BY Zenon, <4>1
        <4>3. g \in Leaf
          BY Zenon, <1>0, IdealTypes
        <4>4. entries[g.hash] # NoSct
          BY <1>a, <1>1, <1>3, <3>3, <4>2
        <4>5. entries[g.hash] = g.sct
          BY Zenon, <1>0, <4>4 DEF LogInv, PendingIsMapped
        <4>6. l = g
          BY <1>1, <1>3, <3>3, <4>2, <4>3, <4>5 DEF Leaf
        <4>7. InTree(l)
          BY <4>1, <4>6 DEF InTree
        <4> QED BY Zenon, <1>2, <4>7
      <3> QED BY Zenon, <3>2, <3>3
    <2> QED BY Zenon, <2>1, <2>2, <2>3, EntriesChange
  <1>4. CASE l \in issued
    BY Zenon, <1>0, <1>2, <1>3, <1>4 DEF IssuedIsLogged, InTree
  <1>5. CASE l \notin issued /\ \E h \in Hash : FeDuplicate(n, h)
    <2>1. PICK i \in Number : db[n][i] # NoLeaf /\ issued' = issued \cup {db[n][i]}
      BY Zenon, <1>5 DEF FeDuplicate
    <2>2. l = db[n][i]
      BY Zenon, <1>5, <2>1
    <2>3. l \in assigned[i]
      BY <1>0, <2>1, <2>2 DEF StoredIsAssigned
    <2>4. CASE i < serving
      BY Zenon, <1>2, <2>3, <2>4 DEF InTree
    <2>5. CASE i >= serving
      <3>1. entries[l.hash] = l.sct
        BY Zenon, <1>0, <2>3, <2>5 DEF LogInv, UnservedIsPending, PendingIsMapped
      <3> QED BY Zenon, <1>3, <3>1
    <2> QED BY <1>a, <2>4, <2>5
  <1>6. CASE l \notin issued /\ FeCreate(n)
    <2>1. /\ entries' = [entries EXCEPT ![fe[n].hash] = fe[n].sct]
          /\ l = [hash |-> fe[n].hash, sct |-> fe[n].sct]
      BY Zenon, <1>6 DEF FeCreate
    <2> QED BY <1>b, <1>1, <2>1
  <1>7. CASE l \notin issued /\ FeGet(n)
    <2>1. /\ entries' = entries
          /\ l.hash = fe[n].hash /\ l.sct = entries[fe[n].hash]
      BY Zenon, <1>7 DEF FeGet
    <2> QED BY <2>1
  <1> QED BY Zenon, <1>4, <1>5, <1>6, <1>7, IssuedChanges

(* A step that signs nothing new and creates no entry keeps SCTs unique. *)
LEMMA SctsStayUnique ==
    ASSUME SctsAreUnique, clock' = clock,
           \A h \in Hash : entries'[h] = entries[h] \/ entries'[h] = NoSct,
           \A m \in Node : fe'[m].pc = "create" => fe'[m] = fe[m],
           TypeInv
    PROVE  SctsAreUnique'
  <1>0. /\ clock \in Nat /\ NoSct = 0
        /\ \A m \in Node : fe[m].pc = "create" => fe[m].sct # 0
    <2>1. /\ fe \in [Node -> [pc : {"create", "get"}, hash : Hash, sct : Sct]
                            \cup {Idle}]
          /\ clock \in 0 .. MaxSct
      BY Zenon DEF TypeInv, TypeOK
    <2> QED BY <2>1, BoundAssumption DEF Sct, Idle, NoSct
  <1>1. \A h \in Hash : entries'[h] <= clock'
    BY <1>0 DEF SctsAreUnique
  <1>2. \A m \in Node : fe'[m].pc = "create" => fe'[m].sct <= clock'
    BY DEF SctsAreUnique
  <1>3. \A g, h \in Hash : entries'[g] = entries'[h] /\ entries'[g] # NoSct => g = h
    BY DEF SctsAreUnique
  <1>4. \A m \in Node, h \in Hash : fe'[m].pc = "create" => entries'[h] # fe'[m].sct
    BY <1>0 DEF SctsAreUnique
  <1>5. \A k, m \in Node : (fe'[k].pc = "create" /\ fe'[m].pc = "create"
                             /\ fe'[k].sct = fe'[m].sct) => k = m
    BY DEF SctsAreUnique
  <1> QED BY Zenon, <1>1, <1>2, <1>3, <1>4, <1>5 DEF SctsAreUnique

(* Every SCT has a timestamp of its own. *)
LEMMA SctsAreUniqueStep ==
    ASSUME TypeInv, SctsAreUnique, NEW n \in Node, StepOf(n)
    PROVE  SctsAreUnique'
  <1>0. /\ clock \in Nat /\ NoSct = 0 /\ entries \in [Hash -> Sct \cup {NoSct}]
        /\ \A m \in Node : fe[m].pc = "create" =>
              fe[m].sct # 0 /\ fe[m].sct \in Nat /\ fe[m].hash \in Hash
        /\ fe \in [Node -> [pc : {"create", "get"}, hash : Hash, sct : Sct] \cup {Idle}]
        /\ Idle.pc = "idle"
    BY DEF TypeInv, TypeOK, Sct, Idle, NoSct
  <1>1. CASE FeCreate(n)
    <2>1. /\ fe[n].pc = "create" /\ fe[n].hash \in Hash /\ clock' = clock
          /\ entries' = [entries EXCEPT ![fe[n].hash] = fe[n].sct]
      BY Zenon, <1>0, <1>1 DEF FeCreate
    <2>2. \/ fe' = [fe EXCEPT ![n] = Idle]
          \/ fe' = [fe EXCEPT ![n].pc = "get"]
      BY Zenon, <1>1 DEF FeCreate
    <2>3. \A m \in Node : fe'[m].pc = "create" => m # n /\ fe'[m] = fe[m]
      BY <1>0, <2>1, <2>2
    <2>4. /\ entries'[fe[n].hash] = fe[n].sct
          /\ \A h \in Hash : h # fe[n].hash => entries'[h] = entries[h]
      BY Zenon, <1>0, <2>1
    <2>5. \A h \in Hash : entries'[h] <= clock'
      BY <2>1, <2>4 DEF SctsAreUnique
    <2>6. \A m \in Node : fe'[m].pc = "create" => fe'[m].sct <= clock'
      BY <2>1, <2>3, Zenon DEF SctsAreUnique
    <2>7. \A g, h \in Hash : entries'[g] = entries'[h] /\ entries'[g] # NoSct => g = h
      BY <2>1, <2>4 DEF SctsAreUnique
    <2>8. \A m \in Node, h \in Hash : fe'[m].pc = "create" => entries'[h] # fe'[m].sct
      BY <2>1, <2>3, <2>4 DEF SctsAreUnique
    <2>9. \A k, m \in Node : (fe'[k].pc = "create" /\ fe'[m].pc = "create"
                               /\ fe'[k].sct = fe'[m].sct) => k = m
      BY <2>3 DEF SctsAreUnique
    <2> QED BY Zenon, <2>5, <2>6, <2>7, <2>8, <2>9 DEF SctsAreUnique
  <1>2. CASE \E h \in Hash : FeSign(n, h)
    <2>1. PICK k \in Hash : FeSign(n, k)
      BY Zenon, <1>2
    <2>2. /\ clock' = clock + 1 /\ entries' = entries
          /\ fe' = [fe EXCEPT ![n] = [pc |-> "create", hash |-> k, sct |-> clock']]
      BY Zenon, <2>1 DEF FeSign
    <2>3. /\ fe'[n].sct = clock'
          /\ \A m \in Node : m # n => fe'[m] = fe[m]
      BY <1>0, <2>2
    <2>4. /\ \A h \in Hash : entries[h] <= clock /\ entries[h] \in Nat
          /\ \A m \in Node : fe[m].pc = "create" => fe[m].sct <= clock
      BY <1>0 DEF SctsAreUnique, Sct
    <2>5. \A h \in Hash : entries'[h] <= clock'
      BY <1>0, <2>2, <2>4
    <2>6. \A m \in Node : fe'[m].pc = "create" => fe'[m].sct <= clock'
      BY <1>0, <2>2, <2>3, <2>4
    <2>7. \A g, h \in Hash : entries'[g] = entries'[h] /\ entries'[g] # NoSct => g = h
      BY <2>2 DEF SctsAreUnique
    <2>8. \A m \in Node, h \in Hash : fe'[m].pc = "create" => entries'[h] # fe'[m].sct
      BY <1>0, <2>2, <2>3, <2>4 DEF SctsAreUnique
    <2>9. \A j, m \in Node : (fe'[j].pc = "create" /\ fe'[m].pc = "create"
                               /\ fe'[j].sct = fe'[m].sct) => j = m
      BY <1>0, <2>2, <2>3, <2>4 DEF SctsAreUnique
    <2> QED BY Zenon, <2>5, <2>6, <2>7, <2>8, <2>9 DEF SctsAreUnique
  <1>3. CASE ~FeCreate(n) /\ ~\E h \in Hash : FeSign(n, h)
    <2>1. \A h \in Hash : entries'[h] = entries[h] \/ entries'[h] = NoSct
      <3>1. CASE entries' = entries
        BY Zenon, <3>1
      <3>2. CASE \E h \in Hash : CleanDelete(n, h)
        <4>1. PICK k \in Hash : entries' = [entries EXCEPT ![k] = NoSct]
          BY Zenon, <3>2 DEF CleanDelete
        <4> QED BY <1>0, <4>1
      <3> QED BY Zenon, <1>3, <3>1, <3>2, EntriesChange
    <2>2. /\ clock' = clock
          /\ \/ fe' = fe \/ fe' = [fe EXCEPT ![n] = Idle]
             \/ fe[n].pc = "create" /\ fe' = [fe EXCEPT ![n].pc = "get"]
      <3>1. CASE FrontendNext(n)
        BY Zenon, <1>3, <3>1 DEF FrontendNext, FeDuplicate, FeExists, FeGet, FeReject
      <3> QED BY Zenon, <3>1, RequestsChange
    <2>3. \A m \in Node : fe'[m].pc = "create" => fe'[m] = fe[m]
      BY <1>0, <2>2
    <2> QED BY Zenon, <2>1, <2>2, <2>3, SctsStayUnique
  <1> QED BY Zenon, <1>1, <1>2, <1>3

-----------------------------------------------------------------------------
(* The CHECKs. *)

(* A process dies of the checks of its sequencer or of its clean-up. *)
LEMMA CheckChanges ==
    ASSUME NEW n \in Node, StepOf(n)
    PROVE  \/ checkFailed' = checkFailed
           \/ ~MappingChecks(n, mapping)
           \/ \E cutoff \in 0 .. MaxSct :
                 /\ SeqNumber(n, cutoff)
                 /\ \E new \in [Hash -> Number \cup {NoSeq}] :
                       /\ NewMapping(seqMap[n], seqNext[n], OldEnough(cutoff), new)
                       /\ ~SanityChecks(n, new) \/ ~MappingChecks(n, new)
           \/ /\ seqPc[n] = "write"
              /\ \E h \in Mapped(seqMap[n]) :
                    /\ seqMap[n][h] = seqAt[n]
                    /\ db[n][seqAt[n]] \notin {NoLeaf, LeafOf(n, h)}
  <1> USE DEF seqVars, cleanVars, history
  <1>1. CASE Crash(n) \/ BecomeMaster(n) \/ LoseMaster(n)
    BY Zenon, <1>1 DEF Crash, BecomeMaster, LoseMaster
  <1>2. CASE FrontendNext(n)
    BY Zenon, <1>2 DEF FrontendNext, FeDuplicate, FeSign, FeCreate, FeExists,
                       FeGet, FeReject, feFrame
  <1>3. CASE CleanupNext(n)
    BY Zenon, <1>3 DEF CleanupNext, CleanStart, CleanRead, CleanDelete,
                       CleanFail, cleanFrame
  <1>4. CASE TreeNext(n)
    BY Zenon, <1>4 DEF TreeNext, UpdateTree, Fetch, SetServingSTH,
                       ServingSTHUpdated, treeFrame
  <1>5. CASE SeqStart(n) \/ SeqReadMapping(n) \/ SeqUpdate(n)
              \/ SeqUpdateLost(n) \/ SeqStale(n)
    BY Zenon, <1>5 DEF SeqStart, SeqReadMapping, SeqUpdate, SeqUpdateLost,
                       SeqStale, seqFrame
  <1>6. CASE SeqWrite(n)
    BY Zenon, <1>6 DEF SeqWrite, seqFrame
  <1>7. CASE \E cutoff \in 0 .. MaxSct : SeqNumber(n, cutoff)
    <2>1. PICK cutoff \in 0 .. MaxSct : SeqNumber(n, cutoff)
      BY Zenon, <1>7
    <2>2. \/ checkFailed' = checkFailed
          \/ \E new \in [Hash -> Number \cup {NoSeq}] :
                /\ NewMapping(seqMap[n], seqNext[n], OldEnough(cutoff), new)
                /\ ~SanityChecks(n, new) \/ ~MappingChecks(n, new)
      BY Zenon, <2>1 DEF SeqNumber, seqFrame
    <2> QED BY Zenon, <2>1, <2>2
  <1> QED BY Zenon, <1>1, <1>2, <1>3, <1>4, <1>5, <1>6, <1>7
             DEF StepOf, SequencerNext

(* None of them fails. *)
LEMMA NoCheckFailsStep ==
    ASSUME Ideal, IdealInv, NEW n \in Node, StepOf(n)
    PROVE  NoCheckFails'
  <1>0. /\ TypeInv /\ LogInv /\ MappingIsSound /\ SctsAreUnique /\ StoredIsAssigned
        /\ CacheIsCurrent /\ HandleIsHeld /\ HandleIsCurrent /\ NextIsFree
        /\ WriteIsAssigned /\ NoCheckFails
    BY Zenon DEF IdealInv, SafeInv
  <1>1. cached[n] = serving
    BY Zenon, <1>0 DEF CacheIsCurrent
  <1>2. MappingChecks(n, mapping)
    BY <1>0, <1>1 DEF MappingChecks, MappingIsSound
  <1>3. ASSUME NEW cutoff \in 0 .. MaxSct, SeqNumber(n, cutoff),
               NEW new \in [Hash -> Number \cup {NoSeq}],
               NewMapping(seqMap[n], seqNext[n], OldEnough(cutoff), new)
        PROVE  SanityChecks(n, new) /\ MappingChecks(n, new)
    <2>1. /\ seqMap[n] = mapping /\ seqNext[n] \in 0 .. MaxLog
          /\ \A i \in Number : assigned[i] # {} <=> i < seqNext[n]
          /\ Numbered(seqNext[n], new)
      BY Zenon, <1>0, <1>3, SequencerNumbers
    <2>2. /\ MappingIsOrdered(new)
          /\ MappingIsContiguous(new, serving)
          /\ \A g \in Mapped(mapping) \ Mapped(new) : mapping[g] < serving
      BY Zenon, <1>0, <2>1, NumberingPasses
    <2>3. MappingChecks(n, new)
      BY <1>1, <2>2 DEF MappingChecks
    <2>4. Mapped(new) # {} => \E h \in Mapped(new) : new[h] <= serving
      BY Zenon, <2>2 DEF MappingIsContiguous
    <2>5. SanityChecks(n, new)
      BY <1>1, <2>1, <2>2, <2>4 DEF SanityChecks
    <2> QED BY Zenon, <2>3, <2>5
  <1>4. ASSUME seqPc[n] = "write", NEW h \in Mapped(seqMap[n]),
               seqMap[n][h] = seqAt[n],
               db[n][seqAt[n]] \notin {NoLeaf, LeafOf(n, h)}
        PROVE  FALSE
    <2>1. seqAt[n] \in Number
      BY <1>0, <1>4, IdealTypes
    <2>2. db[n][seqAt[n]] \in assigned[seqAt[n]]
      BY Zenon, <1>0, <1>4, <2>1 DEF StoredIsAssigned
    <2>3. LeafOf(n, h) \in assigned[seqMap[n][h]]
      BY Zenon, <1>0, <1>4 DEF WriteIsAssigned
    <2>4. LeafOf(n, h) \in assigned[seqAt[n]]
      BY <1>4, <2>3
    <2>5. db[n][seqAt[n]] = LeafOf(n, h)
      BY Zenon, <1>0, <2>1, <2>2, <2>4 DEF LogInv, NumbersAreStable
    <2> QED BY Zenon, <1>4, <2>5
  <1>5. checkFailed' = checkFailed
    BY Zenon, <1>2, <1>3, <1>4, CheckChanges
  <1> QED BY <1>0, <1>5 DEF NoCheckFails

-----------------------------------------------------------------------------
(* The invariant. *)

(* Every step keeps the log in etcd in order. *)
LEMMA LogStep ==
    ASSUME Ideal, IdealInv, TypeInv', NEW n \in Node, StepOf(n)
    PROVE  LogInv'
  <1>0. /\ TypeInv /\ MappingIsSound /\ SignedIsStored /\ ServedIsStored
        /\ UpdateIsSound /\ LogInv /\ StoredIsAssigned /\ CleanKeysAreServed
        /\ UpdatesAreNext
    BY Zenon DEF IdealInv, SafeInv
  <1>1. CASE FeCreate(n)
    BY Zenon, <1>0, <1>1, LogCreate
  <1>2. CASE \E h \in Hash : CleanDelete(n, h)
    BY Zenon, <1>0, <1>2, LogDelete
  <1>3. CASE SetServingSTH(n)
    BY Zenon, <1>0, <1>3, LogServe
  <1>4. CASE SeqUpdate(n) \/ SeqUpdateLost(n)
    <2>1. seqPc[n] = "update" /\ StoreMapping(n) /\ UNCHANGED <<entries, serving>>
      BY Zenon, <1>0, <1>4, AfterUpdate
    <2>2. UpdateIsNext(n) /\ MappingIsOrdered(seqMap[n])
      BY Zenon, <1>0, <2>1 DEF UpdatesAreNext, UpdateIsSound
    <2> QED BY Zenon, <1>0, <2>1, <2>2, LogStore
  <1>5. CASE UNCHANGED <<entries, mapping, serving, assigned>>
    BY Zenon, <1>0, <1>5, LogStutter
  <1> QED BY Zenon, <1>0, <1>1, <1>2, <1>3, <1>4, <1>5, EntriesChange,
             AssignedChanges, ServingChanges

(* A step that changes nothing. *)
LEMMA IdealStutter ==
    ASSUME IdealInv, SafeInv', UNCHANGED vars
    PROVE  IdealInv'
  <1>0. /\ UNCHANGED <<entries, mapping, serving, cached, master, db, fe, seqPc>>
        /\ UNCHANGED <<seqNext, seqMap, seqHandle, seqPend, cleanPc, cleanUpTo>>
        /\ UNCHANGED <<cleanKeys, clock, assigned, issued, checkFailed>>
    BY Zenon DEF vars, seqVars, cleanVars, history
  <1>1. (OneActive /\ CacheIsCurrent /\ HandleIsHeld /\ NextIsFree)'
    BY Zenon, <1>0 DEF IdealInv, OneActive, Active, CacheIsCurrent, HandleIsHeld,
                       NextIsFree
  <1>2. SctsAreUnique'
    BY <1>0 DEF IdealInv, SctsAreUnique
  <1>3. LogInv'
    BY Zenon, <1>0, LogStutter DEF IdealInv
  <1>4. (StoredIsAssigned /\ ServedIsStored /\ CleanUpToServed)'
    BY <1>0 DEF IdealInv, StoredIsAssigned, ServedIsStored, CleanUpToServed
  <1>7. (IssuedIsLogged /\ NoCheckFails)'
    BY <1>0 DEF IdealInv, IssuedIsLogged, NoCheckFails
  <1>5. (CleanKeysAreServed /\ WriteIsAssigned)'
    BY <1>0 DEF IdealInv, CleanKeysAreServed, WriteIsAssigned, Mapped, LeafOf
  <1>6. UpdatesAreNext'
    <2>1. \A n \in Node, h \in Hash :
            (Kept(n, h)' <=> Kept(n, h)) /\ (Fresh(n, h)' <=> Fresh(n, h))
      BY <1>0 DEF Kept, Fresh, LeafOf
    <2>2. \A n \in Node : UpdateIsNext(n) => UpdateIsNext(n)'
      <3> SUFFICES ASSUME NEW n \in Node, UpdateIsNext(n)
                   PROVE  UpdateIsNext(n)'
        OBVIOUS
      <3>1. /\ seqMap'[n] = seqMap[n] /\ mapping' = mapping
            /\ entries' = entries /\ assigned' = assigned
        BY Zenon, <1>0
      <3>2. \A h \in Mapped(seqMap[n]) : Kept(n, h)' \/ Fresh(n, h)'
        BY Zenon, <2>1 DEF UpdateIsNext, Mapped
      <3>3. /\ \A g \in Mapped(mapping) \ Mapped(seqMap[n]) :
                  /\ entries[g] = NoSct
                  /\ \A h \in Mapped(seqMap[n]) : mapping[g] < seqMap[n][h]
            /\ \A h \in Mapped(seqMap[n]), i \in Number : i <= seqMap[n][h] =>
                  assigned[i] # {} \/ \E g \in Mapped(seqMap[n]) : seqMap[n][g] = i
        BY Zenon DEF UpdateIsNext
      <3> QED BY <3>1, <3>2, <3>3, Zenon DEF UpdateIsNext
    <2> QED BY <1>0, <2>2 DEF IdealInv, UpdatesAreNext
  <1> QED BY Zenon, <1>1, <1>2, <1>3, <1>4, <1>5, <1>6, <1>7 DEF IdealInv

(* Every step keeps the invariant. *)
LEMMA IdealStep == Ideal /\ IdealInv /\ SafeInv' /\ [Next]_vars => IdealInv'
  <1> SUFFICES ASSUME Ideal, IdealInv, SafeInv', [Next]_vars PROVE IdealInv'
    OBVIOUS
  <1>1. CASE UNCHANGED vars
    BY Zenon, <1>1, IdealStutter
  <1>2. ASSUME NEW n \in Node, StepOf(n) PROVE IdealInv'
    <2>0. /\ TypeInv /\ TypeInv' /\ OneActive /\ CacheIsCurrent /\ HandleIsHeld
          /\ SctsAreUnique /\ StoredIsAssigned /\ WriteIsAssigned /\ CleanUpToServed
          /\ SignedIsStored /\ ServedIsStored
      BY Zenon DEF IdealInv, SafeInv
    <2>1. OneActive' /\ CacheIsCurrent' /\ HandleIsHeld' /\ SctsAreUnique'
      BY Zenon, <1>2, <2>0, OneActiveStep, CacheIsCurrentStep, HandleIsHeldStep,
         SctsAreUniqueStep
    <2>2. LogInv' /\ StoredIsAssigned' /\ ServedIsStored'
      BY Zenon, <1>2, <2>0, LogStep, StoredIsAssignedStep, ServedIsStoredStep
    <2>3. CleanKeysAreServed' /\ CleanUpToServed' /\ IssuedIsLogged'
      BY Zenon, <1>2, <2>0, CleanKeysAreServedStep, CleanUpToServedStep,
         IssuedIsLoggedStep
    <2>4. NextIsFree' /\ UpdatesAreNext' /\ WriteIsAssigned' /\ NoCheckFails'
      BY Zenon, <1>2, NextIsFreeStep, UpdatesAreNextStep, WriteIsAssignedStep,
         NoCheckFailsStep
    <2> QED BY Zenon, <2>1, <2>2, <2>3, <2>4 DEF IdealInv
  <1> QED BY Zenon, <1>1, <1>2 DEF Next, StepOf
=============================================================================
