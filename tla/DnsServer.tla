------------------------------ MODULE DnsServer ------------------------------
(***************************************************************************)
(* The DNS front end of a log: server/ct-dns-server.cc with the UDP part   *)
(* of server/event.cc and the reads of log/sqlite_db.cc.  It answers from  *)
(* a SQLite file that a ct-server process writes, through a connection of  *)
(* its own.                                                                *)
(***************************************************************************)
EXTENDS Naturals, Sequences

CONSTANTS MaxSize,   \* bounds the tree
          MaxQueue,  \* bounds the packets that wait to be sent
          Batched    \* FLAGS_sqlite_batch_into_transactions, true by default

VARIABLES dbSize,    \* the size of the newest head ct-server has committed
          snapshot,  \* what the connection's open transaction reads
          lookup,    \* the size of the LogLookup's tree and head
          questions, \* packets that were read and not yet answered
          queue,     \* write_queue_
          told,      \* sizes of the heads that were answered
          keyboard,  \* the Keyboard of main
          running    \* the event loop runs

vars == <<dbSize, snapshot, lookup, questions, queue, told, keyboard, running>>

Question ==
    [kind : {"sth", "other", "foreign", "bad"}]
      \cup [kind : {"tree"}, index : 0..MaxSize, size : 0..MaxSize]
      \cup [kind : {"hash"}, index : 0..MaxSize, decoded : BOOLEAN]
      \cup [kind : {"leafhash"}, index : 0..MaxSize]

NoSnapshot == [taken |-> FALSE, size |-> 0]

\* What a SELECT sees, and the transaction after it: BeginTransaction in the
\* constructor, whose snapshot is that of the first read.
Seen == IF snapshot.taken THEN snapshot.size ELSE dbSize
AfterRead == IF Batched THEN [taken |-> TRUE, size |-> Seen] ELSE NoSnapshot

\* LogLookup adds its callback, which is called with the head there is.
Init ==
    /\ dbSize \in 0..MaxSize
    /\ snapshot = IF Batched THEN [taken |-> TRUE, size |-> dbSize] ELSE NoSnapshot
    /\ lookup = dbSize
    /\ questions = <<>> /\ queue = <<>>
    /\ told = {}
    /\ keyboard = "open"
    /\ running = TRUE

\* External: ct-server stores entries and a head of them.
Commit ==
    /\ dbSize < MaxSize
    /\ dbSize' = dbSize + 1
    /\ UNCHANGED <<snapshot, lookup, questions, queue, told, keyboard, running>>

----------------------------------------------------------------------------
(* The answers. *)

\* ForceNotifySTH calls LogLookup with the newest head of the database.
ForceNotifySTH == Seen

STH(size) == [kind |-> "sth", size |-> size]

\* The first node of PathToRootAtSnapshot, which there is in a tree of two
\* leaves or more.
Tree(q, size) == [kind |-> "tree", ok |-> q.index < q.size /\ 1 < q.size /\ q.size <= size]

\* GetIndex looks for the bytes of the question.
Hash(q, size) == [kind |-> "hash", ok |-> q.decoded /\ q.index < size]

\* Straight from the database.
LeafHash(q) == [kind |-> "leafhash", ok |-> q.index < Seen]

Response(q, size) ==
    CASE q.kind = "sth" -> STH(size)
      [] q.kind = "tree" -> Tree(q, size)
      [] q.kind = "hash" -> Hash(q, size)
      [] q.kind = "leafhash" -> LeafHash(q)
      [] q.kind = "other" -> [kind |-> "other"]
      [] q.kind = "foreign" -> [kind |-> "empty"]

Notifies(q) == q.kind \in {"sth", "hash"}
Selects(q) == q.kind \in {"sth", "hash", "leafhash"}

\* A packet arrives, and PacketRead answers it unless it is no query.
PacketRead(q) ==
    /\ running /\ Len(queue) < MaxQueue
    /\ lookup' = IF Notifies(q) THEN ForceNotifySTH ELSE lookup
    /\ snapshot' = IF Selects(q) THEN AfterRead ELSE snapshot
    /\ IF q.kind = "bad" THEN UNCHANGED <<questions, queue>>
       ELSE /\ queue' = Append(queue, Response(q, lookup'))
            /\ questions' = Append(questions, q)
    /\ told' = IF q.kind = "sth" THEN told \cup {Response(q, lookup').size} ELSE told
    /\ UNCHANGED <<dbSize, keyboard, running>>

WriteIsAllowed ==
    /\ running /\ queue # <<>>
    /\ queue' = Tail(queue)
    /\ questions' = Tail(questions)
    /\ UNCHANGED <<dbSize, snapshot, lookup, told, keyboard, running>>

\* The keyboard: ProcessKey stops the loop.
BytesRead ==
    /\ running /\ keyboard = "open"
    /\ running' = FALSE
    /\ UNCHANGED <<dbSize, snapshot, lookup, questions, queue, told, keyboard>>

\* The end of the input closes the keyboard, and the loop deletes it: it is a
\* local variable of main, so that the process may go on or may not.
KeyboardEnds ==
    /\ running /\ keyboard = "open"
    /\ keyboard' = "deleted"
    /\ running' \in BOOLEAN
    /\ UNCHANGED <<dbSize, snapshot, lookup, questions, queue, told>>

Next ==
    \/ Commit
    \/ \E q \in Question : PacketRead(q)
    \/ WriteIsAllowed
    \/ BytesRead
    \/ KeyboardEnds

Spec == Init /\ [][Next]_vars

----------------------------------------------------------------------------

Last(seq) == seq[Len(seq)]

Answered(kind) == Len(queue') > Len(queue) /\ Last(questions').kind = kind

(***************************************************************************)
(* The heads are of use: after the answer to an "sth" question, every      *)
(* "tree" question about an entry of that head is answered with a node of  *)
(* its proof, and every "hash" of one that the lookup can read with its    *)
(* index, however the database and the answers went on in between.         *)
(***************************************************************************)
HeadsAreProvable ==
    /\ Answered("tree") /\ Last(questions').size \in told \ {0, 1} =>
          (Last(questions').index < Last(questions').size <=> Last(queue').ok)
    /\ Answered("hash") /\ Last(questions').decoded
          /\ (\E s \in told : Last(questions').index < s) => Last(queue').ok

(***************************************************************************)
(* The answer to an "sth" question is the newest head in the database (the *)
(* purpose of ForceNotifySTH, and of sharing the file with a ct-server     *)
(* "that will populate it").                                               *)
(***************************************************************************)
SthIsCurrent ==
    Answered("sth") => Last(queue').size = dbSize
=============================================================================
