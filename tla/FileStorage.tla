----------------------------- MODULE FileStorage -----------------------------
(***************************************************************************)
(* The files behind FileDB.  The hex digits of a key name a directory each, *)
(* down to storage_depth_, and the rest name the file; a key that is too    *)
(* short has "-" in the places it does not reach.  An entry is written to a *)
(* temporary file that is then renamed; the process may crash between any   *)
(* two of these steps.                                                      *)
(***************************************************************************)
EXTENDS Integers, Sequences, SequencesExt, FiniteSets, TLC

CONSTANTS
    Thread,         \* FileDB holds its lock_ around a call: one thread
    Digit,          \* hex digits, as numbers
    Data,
    MaxDigits,      \* bound on the length of a key
    MaxEntries,     \* bound
    storage_depth,
    MaxCrashes      \* bound

VARIABLES
    files,      \* <root>/storage: path -> data
    tmp,        \* <root>/tmp: the temporary files
    call,       \* what a thread is doing
    entries,    \* the writes that have returned: key -> data
    crashes

vars == <<files, tmp, call, entries, crashes>>

Dash == -1
Torn == "torn"  \* a file that was not written to its end
Key == UNION {[1..n -> Digit] : n \in {2 * i : i \in 0..(MaxDigits \div 2)}}
Idle == [at |-> "idle"]

Init ==
    /\ files = <<>> /\ tmp = {} /\ entries = <<>> /\ crashes = 0
    /\ call = [t \in Thread |-> Idle]

StoragePathBasename(hex) ==
    IF Len(hex) <= storage_depth THEN <<Dash>>
    ELSE SubSeq(hex, storage_depth + 1, Len(hex))

StoragePathComponent(hex, n) == IF n > Len(hex) THEN Dash ELSE hex[n]

StoragePath(hex) ==
    [n \in 1..storage_depth |-> StoragePathComponent(hex, n)] \o StoragePathBasename(hex)

\* The digits up to the first "-", whether of a directory or of the file.
StorageKey(path) ==
    LET dashes == {n \in 1..(storage_depth + 1) : path[n] = Dash}
    IN  IF dashes = {} THEN path
        ELSE SubSeq(path, 1, (CHOOSE n \in dashes : \A m \in dashes : n <= m) - 1)

\* Scan, ScanDir and ScanFiles.
Scan == {StorageKey(path) : path \in DOMAIN files}

FileExists(path) == path \in DOMAIN files

LookupEntry(key) ==
    IF FileExists(StoragePath(key)) THEN [ok |-> TRUE, data |-> files[StoragePath(key)]]
    ELSE [ok |-> FALSE]

-----------------------------------------------------------------------------
Others == UNCHANGED <<files, tmp, entries, crashes>>

Write(t, key, data) ==
    /\ call' = [call EXCEPT ![t] = [at |-> "writing", key |-> key, data |-> data]]
    /\ Others

\* ALREADY_EXISTS leaves everything alone.
CreateEntry(t, key, data) ==
    /\ call[t] = Idle
    /\ ~LookupEntry(key).ok /\ Cardinality(DOMAIN files) < MaxEntries
    /\ Write(t, key, data)

\* NOT_FOUND leaves everything alone.
UpdateEntry(t, key, data) ==
    /\ call[t] = Idle
    /\ LookupEntry(key).ok
    /\ Write(t, key, data)

\* The temporary file is there from mkstemp on.
WriteTemporaryBinaryFile(t) ==
    /\ call[t].at = "writing"
    /\ tmp' = tmp \cup {<<t, Torn>>}
    /\ call' = [call EXCEPT ![t].at = "written"]
    /\ UNCHANGED <<files, entries, crashes>>

\* The write ends; or it is short, the file is removed and a CHECK fails.
Written(t) ==
    /\ call[t].at = "written"
    /\ tmp' = (tmp \ {<<t, Torn>>}) \cup {<<t, call[t].data>>}
    /\ call' = [call EXCEPT ![t].at = "renaming"]
    /\ UNCHANGED <<files, entries, crashes>>

AtomicWriteBinaryFile(t) ==
    /\ call[t].at = "renaming"
    /\ files' = [p \in {StoragePath(call[t].key)} |-> call[t].data] @@ files
    /\ tmp' = tmp \ {<<t, call[t].data>>}
    /\ entries' = [k \in {call[t].key} |-> call[t].data] @@ entries
    /\ call' = [call EXCEPT ![t] = Idle]
    /\ UNCHANGED crashes

\* The process dies; nothing clears <root>/tmp.
Crash ==
    /\ crashes < MaxCrashes
    /\ crashes' = crashes + 1
    /\ call' = [t \in Thread |-> Idle]
    /\ UNCHANGED <<files, tmp, entries>>

Next ==
    \/ \E t \in Thread :
        \/ \E key \in Key, data \in Data : CreateEntry(t, key, data) \/ UpdateEntry(t, key, data)
        \/ WriteTemporaryBinaryFile(t) \/ Written(t) \/ AtomicWriteBinaryFile(t)
    \/ Crash

Spec == Init /\ [][Next]_vars

-----------------------------------------------------------------------------
(* Properties.                                                             *)

\* "Scan the entire database and return the list of keys": the names found in the
\* directories are turned back into the keys that were written, those shorter than
\* the depth, of exactly that length and the empty one included.
ScanIsKeys == Scan = DOMAIN entries

\* "Writes to these files are atomic": a reader, before or after a crash, finds what the
\* last write that returned wrote, and never part of an entry.
EntriesWhole ==
    \A key \in Key : LookupEntry(key) =
        IF key \in DOMAIN entries THEN [ok |-> TRUE, data |-> entries[key]] ELSE [ok |-> FALSE]
=============================================================================
