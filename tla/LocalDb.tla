------------------------------- MODULE LocalDb -------------------------------
(***************************************************************************)
(* The three local databases: LevelDB, SQLiteDB and FileDB.  A crash keeps  *)
(* what is on disk: with LevelDB what a tree head synced, and perhaps the   *)
(* first of the writes after it; with SQLiteDB what was committed; with     *)
(* FileDB, whose process alone crashes here, every file that was renamed.   *)
(* LevelDB and FileDB keep an index in memory and build it again at start;  *)
(* SQLiteDB has the tables and counts the contiguous entries as it meets    *)
(* them.  A hash stands for the entry.                                      *)
(***************************************************************************)
EXTENDS Integers, Sequences, SequencesExt, FiniteSets, FiniteSetsExt

CONSTANTS
    Hash,
    MaxNumber,  \* bound on the sequence numbers
    MaxTime,    \* bound on the tree heads' timestamps
    BatchSize,  \* FLAGS_sqlite_transaction_batch_size
    MaxCrashes  \* bound

VARIABLES
    kind,       \* which database it is
    disk,       \* the writes that no crash undoes
    pending,    \* those a crash may undo, in their order
    batch,      \* transaction_size_
    size,       \* contiguous_size_; SQLiteDB: tree_size_
    sparse,     \* sparse_entries_
    byHash,     \* id_by_hash_
    latest,     \* latest_tree_timestamp_
    calls,      \* the heads for which Call has not yet run
    heard,      \* the freshest head that a callback was called with, if it is there
    scan,       \* an iterator: what it found, and what was there when it began
    crashes

notes == <<latest, calls, heard>>
vars == <<kind, disk, pending, batch, size, sparse, byHash, notes, scan, crashes>>

Number == 0..MaxNumber
None == -1
NoScan == [next |-> None, got |-> <<>>, there |-> {}]

Row(n, h) == [type |-> "row", n |-> n, hash |-> h]
HeadRow(t, s) == [type |-> "head", time |-> t, size |-> s]
NodeRow == [type |-> "node"]

\* What a reader finds.
Writes == disk \cup ToSet(pending)
RowsIn(writes) == {w \in writes : w.type = "row"}
HeadsIn(writes) == {w \in writes : w.type = "head"}
Numbers == {w.n : w \in RowsIn(Writes)}

TypeOK ==
    /\ kind \in {"leveldb", "sqlite", "file"}
    /\ disk \cap ToSet(pending) = {} /\ batch \in 0..BatchSize
    /\ size \in 0..(MaxNumber + 1) /\ sparse \subseteq Number
    /\ byHash \in [Hash -> Number \cup {None}]
    /\ latest \in 0..MaxTime /\ calls \subseteq 1..MaxTime
    /\ heard \in {None} \cup 0..MaxTime /\ crashes \in 0..MaxCrashes

\* The in-memory index as a record, so that it can be folded over.
Index == [size |-> size, sparse |-> sparse, byHash |-> byHash]
NoIndex == [size |-> 0, sparse |-> {}, byHash |-> [h \in Hash |-> None]]

Init ==
    /\ kind \in {"leveldb", "sqlite", "file"}
    /\ disk = {} /\ pending = <<>> /\ batch = 0
    /\ size = 0 /\ sparse = {} /\ byHash = NoIndex.byHash
    /\ latest = 0 /\ calls = {} /\ heard = None /\ scan = NoScan /\ crashes = 0

-----------------------------------------------------------------------------
(* The index that LevelDB and FileDB keep.                                 *)

\* "Make sure we track the entry with the lowest sequence number"
Lower(old, n) == IF old = None THEN n ELSE Min({old, n})

\* Mutant: the sparse entries that follow stay sparse.
AdvancedByOne(ix, n) == [ix EXCEPT !.size = @ + 1]

\* The contiguous entries once n is one of them.
Advanced(ix, n) ==
    LET to == CHOOSE k \in (n + 1)..(MaxNumber + 1) :
                  (n + 1)..(k - 1) \subseteq ix.sparse /\ k \notin ix.sparse
    IN  [ix EXCEPT !.size = to, !.sparse = @ \ ((n + 1)..(to - 1))]

InsertEntryMapping(ix, row) ==
    LET noted == [ix EXCEPT !.byHash[row.hash] = Lower(@, row.n)]
    IN  IF row.n = ix.size THEN Advanced(noted, row.n)
        ELSE [noted EXCEPT !.sparse = @ \cup {row.n}]

\* LevelDB::BuildIndex, in the order of the numbers.
BuildIndex(writes) ==
    FoldLeft(InsertEntryMapping, NoIndex,
             SetToSortSeq(RowsIn(writes), LAMBDA a, b : a.n < b.n))

\* FileDB::BuildIndex, in the order of their digits: here backwards.
BuildIndexOfFiles(writes) ==
    FoldLeft(InsertEntryMapping, NoIndex,
             SetToSortSeq(RowsIn(writes), LAMBDA a, b : a.n > b.n))

SetIndex(ix) == size' = ix.size /\ sparse' = ix.sparse /\ byHash' = ix.byHash

-----------------------------------------------------------------------------
(* SQLiteDB: its transactions, and the entries it has counted.             *)

\* Every statement that meets the row of tree_size_ counts it.
Counted(n) == IF n = size THEN size + 1 ELSE size

\* SQLiteDB::TreeSize counts all that follow.
CountAll == CHOOSE k \in size..(MaxNumber + 1) :
    size..(k - 1) \subseteq Numbers /\ k \notin Numbers

\* What TreeSize returns, with the database of this kind.
TreeSize == IF kind = "sqlite" THEN CountAll ELSE size

\* MaybeStartNewTransaction: a full batch is committed before the writes.
RolledOver(writes) ==
    IF batch >= BatchSize
    THEN disk' = Writes /\ pending' = writes /\ batch' = 1
    ELSE UNCHANGED disk /\ pending' = pending \o writes /\ batch' = batch + 1

-----------------------------------------------------------------------------
(* CreateSequencedEntry_.  A number in use is left as it is: the same entry *)
(* is fine and another is refused, but SQLiteDB counts the row in both.     *)

LevelDbCreate(n, h) ==
    /\ kind = "leveldb"
    /\ n \notin Numbers
    /\ pending' = Append(pending, Row(n, h))
    /\ SetIndex(InsertEntryMapping(Index, Row(n, h)))
    /\ UNCHANGED <<kind, disk, batch, notes, scan, crashes>>

FileCreate(n, h) ==
    /\ kind = "file"
    /\ n \notin Numbers
    /\ disk' = disk \cup {Row(n, h)}
    /\ SetIndex(InsertEntryMapping(Index, Row(n, h)))
    /\ UNCHANGED <<kind, pending, batch, notes, scan, crashes>>

SqliteCreate(n, h) ==
    /\ kind = "sqlite"
    /\ RolledOver(IF n \in Numbers THEN <<>> ELSE <<Row(n, h)>>)
    /\ size' = Counted(n)
    /\ UNCHANGED <<kind, sparse, byHash, notes, scan, crashes>>

-----------------------------------------------------------------------------
(* Tree heads: WriteTreeHead_ of a new timestamp, for the largest tree that *)
(* a caller may sign.  The callbacks run after the lock is given up.        *)

\* Mutant: a tree head goes the way of an entry.
HeadUnsynced(head) == UNCHANGED disk /\ pending' = Append(pending, head)

\* WriteOptions::sync: a tree head makes all before it safe.
HeadSynced(head) == disk' = Writes \cup {head} /\ pending' = <<>>

\* EndTransaction and BeginTransaction.
HeadCommitted(head) == disk' = Writes \cup {head} /\ pending' = <<>> /\ batch' = 0

Freshest(t) == IF t > latest THEN t ELSE latest

NewTimestamp(t) == \A h \in HeadsIn(Writes) : h.time # t

LevelDbWriteTreeHead(t) ==
    /\ kind = "leveldb" /\ NewTimestamp(t)
    /\ HeadSynced(HeadRow(t, size))
    /\ latest' = Freshest(t) /\ calls' = calls \cup {t}
    /\ UNCHANGED <<kind, batch, size, sparse, byHash, heard, scan, crashes>>

FileWriteTreeHead(t) ==
    /\ kind = "file" /\ NewTimestamp(t)
    /\ disk' = disk \cup {HeadRow(t, size)}
    /\ latest' = Freshest(t) /\ calls' = calls \cup {t}
    /\ UNCHANGED <<kind, pending, batch, size, sparse, byHash, heard, scan, crashes>>

\* The latest head is the MAX of the table.
SqliteWriteTreeHead(t) ==
    /\ kind = "sqlite" /\ NewTimestamp(t)
    /\ HeadCommitted(HeadRow(t, CountAll))
    /\ latest' = Freshest(t) /\ calls' = calls \cup {t}
    /\ UNCHANGED <<kind, size, sparse, byHash, heard, scan, crashes>>

\* The head a new callback is called with, if there is one.
FirstNote == {latest} \ {0}

AddNotifySTHCallback ==
    /\ heard = None /\ scan = NoScan
    /\ heard' = 0 /\ calls' = calls \cup FirstNote
    /\ UNCHANGED <<kind, disk, pending, batch, size, sparse, byHash, latest, scan, crashes>>

RemoveNotifySTHCallback ==
    /\ heard # None
    /\ heard' = None
    /\ UNCHANGED <<kind, disk, pending, batch, size, sparse, byHash, latest, calls, scan, crashes>>

\* DatabaseNotifierHelper::Call, in the order in which the writers get to it; the
\* callbacks ignore a head older than what they have.
Call(t) ==
    /\ t \in calls
    /\ calls' = calls \ {t}
    /\ heard' = IF heard = None THEN None ELSE Max({heard, t})
    /\ UNCHANGED <<kind, disk, pending, batch, size, sparse, byHash, latest, scan, crashes>>

-----------------------------------------------------------------------------
(* Server's GetNodeId: InitializeNode where NodeId finds none.             *)

NodeId == NodeRow \in Writes

InitializeNode ==
    /\ kind # "file" /\ ~NodeId
    /\ pending' = Append(pending, NodeRow)
    /\ UNCHANGED <<kind, disk, batch, size, sparse, byHash, notes, scan, crashes>>

FileInitializeNode ==
    /\ kind = "file" /\ ~NodeId
    /\ disk' = disk \cup {NodeRow}
    /\ UNCHANGED <<kind, pending, batch, size, sparse, byHash, notes, scan, crashes>>

-----------------------------------------------------------------------------
(* Reading.                                                                *)

NotFound == None

\* The number LookupByHash finds: LevelDB and FileDB ask the index; SQLiteDB's
\* query orders the rows by number.
LookupByHash(h) ==
    LET rows == {w.n : w \in {r \in RowsIn(Writes) : r.hash = h}}
    IN  IF kind # "sqlite" THEN byHash[h]
        ELSE IF rows = {} THEN NotFound ELSE Min(rows)

SqliteLookupByHash(h) ==
    /\ kind = "sqlite"
    /\ size' = Counted(LookupByHash(h))
    /\ UNCHANGED <<kind, disk, pending, batch, sparse, byHash, notes, scan, crashes>>

SqliteLookupByIndex(n) ==
    /\ kind = "sqlite" /\ n \in Numbers
    /\ size' = Counted(n)
    /\ UNCHANGED <<kind, disk, pending, batch, sparse, byHash, notes, scan, crashes>>

SqliteTreeSize ==
    /\ kind = "sqlite"
    /\ size' = CountAll
    /\ UNCHANGED <<kind, disk, pending, batch, sparse, byHash, notes, scan, crashes>>

\* Iterators and callbacks only look on: the model has one of them at a time.
ScanEntries(n) ==
    /\ scan = NoScan /\ heard = None
    /\ scan' = [next |-> n, got |-> <<>>, there |-> {i \in Numbers : i >= n}]
    /\ UNCHANGED <<kind, disk, pending, batch, size, sparse, byHash, notes, crashes>>

NextOf(next, from) ==
    LET later == {i \in from : i >= next} IN IF later = {} THEN None ELSE Min(later)

\* LevelDB's iterator has a snapshot of its own.
LevelDbNext(next) == NextOf(next, scan.there)

FileNext(next) == IF next < size THEN next ELSE NextOf(next, sparse)

\* LookupByIndex below tree_size_, LookupNextIndex from there.
SqliteNext(next) == IF next < size THEN next ELSE NextOf(next, Numbers)

GetNextEntry ==
    /\ scan.next # None
    /\ LET n == CASE kind = "leveldb" -> LevelDbNext(scan.next)
                  [] kind = "file" -> FileNext(scan.next)
                  [] OTHER -> SqliteNext(scan.next)
       IN  /\ scan' = IF n = None THEN [scan EXCEPT !.next = None]
                     ELSE [scan EXCEPT !.got = Append(@, n), !.next = n + 1]
           /\ size' = IF kind = "sqlite" THEN Counted(n) ELSE size
    /\ UNCHANGED <<kind, disk, pending, batch, sparse, byHash, notes, crashes>>

-----------------------------------------------------------------------------
(* The process, or with LevelDB and SQLiteDB the machine, crashes and the   *)
(* constructor opens the database again.                                    *)

Reopened ==
    /\ crashes < MaxCrashes
    /\ pending' = <<>> /\ batch' = 0
    /\ latest' = Max({0} \cup {h.time : h \in HeadsIn(disk')})
    /\ calls' = {} /\ heard' = None /\ scan' = NoScan
    /\ crashes' = crashes + 1
    /\ UNCHANGED kind

LevelDbReopen(kept) ==
    /\ kind = "leveldb" /\ kept \in 0..Len(pending)
    /\ disk' = disk \cup ToSet(SubSeq(pending, 1, kept))
    /\ SetIndex(BuildIndex(disk'))
    /\ Reopened

FileReopen ==
    /\ kind = "file"
    /\ disk' = disk
    /\ SetIndex(BuildIndexOfFiles(disk'))
    /\ Reopened

SqliteReopen ==
    /\ kind = "sqlite"
    /\ disk' = disk
    /\ size' = 0 /\ UNCHANGED <<sparse, byHash>>
    /\ Reopened

Next ==
    \/ \E n \in Number, h \in Hash :
        LevelDbCreate(n, h) \/ FileCreate(n, h) \/ SqliteCreate(n, h)
    \/ \E t \in 1..MaxTime :
        LevelDbWriteTreeHead(t) \/ FileWriteTreeHead(t) \/ SqliteWriteTreeHead(t) \/ Call(t)
    \/ AddNotifySTHCallback \/ RemoveNotifySTHCallback
    \/ InitializeNode \/ FileInitializeNode
    \/ \E h \in Hash : SqliteLookupByHash(h)
    \/ \E n \in Number : SqliteLookupByIndex(n) \/ ScanEntries(n)
    \/ SqliteTreeSize \/ GetNextEntry
    \/ (\E kept \in 0..(MaxNumber + 2) : LevelDbReopen(kept)) \/ FileReopen \/ SqliteReopen

Spec == Init /\ [][Next]_vars

-----------------------------------------------------------------------------
(* Properties.                                                             *)

\* "the number of entries of contiguous entries": TreeSize is that number in all
\* three, for entries that come in any order and for an index that was rebuilt.
SizeIsContiguous ==
    0..(TreeSize - 1) \subseteq Numbers /\ TreeSize \notin Numbers

\* A hash that is logged more than once is found at its lowest number.
LowestFound ==
    \A h \in Hash :
        LET at == {w.n : w \in {r \in RowsIn(Writes) : r.hash = h}}
        IN  LookupByHash(h) = IF at = {} THEN NotFound ELSE Min(at)

\* No step, a crash at any point included, loses a tree head or an entry under one,
\* although entries are neither synced nor committed when they are written.
HeadsSurvive == \A h \in HeadsIn(Writes) : h \in Writes' /\ h.size <= TreeSize'

\* "Return the tree head with the freshest timestamp", whatever the order in which
\* they were written, before and after a restart.
LatestIsFreshest == latest = Max({0} \cup {h.time : h \in HeadsIn(Writes)})

\* Once the calls have run a callback has heard of the latest head, whether that was
\* written before the callback was added, after, or while the two interleaved.
LatestIsHeard == heard # None /\ calls = {} => heard = latest

\* An iterator returns the numbers in increasing order, and when it ends has missed
\* none that was there when it began, entries beyond a gap included.
ScanMissesNone ==
    /\ \A i \in 1..(Len(scan.got) - 1) : scan.got[i] < scan.got[i + 1]
    /\ scan.next = None => scan.there \subseteq ToSet(scan.got)
    /\ ToSet(scan.got) \subseteq Numbers
=============================================================================
