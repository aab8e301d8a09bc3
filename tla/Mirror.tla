------------------------------- MODULE Mirror -------------------------------
(***************************************************************************)
(* A mirror follows the tree heads of a target log: RemotePeer             *)
(* (fetcher/remote_peer.cc) polls them, the callback of server/ct-mirror.cc *)
(* queues them by size, and STHUpdater, a thread of its own, passes them   *)
(* on once the local tree has grown to them and their roots agree.         *)
(*                                                                         *)
(* The root of a head is abstracted to whether it is that of the target's  *)
(* entries (right).  The fetcher that fills the database, and the path a   *)
(* head takes from NewTreeHead back to LogLookup, are other modules'; here *)
(* they are the steps FetchEntry and UpdateFromSTH.                        *)
(***************************************************************************)
EXTENDS Integers, Sequences

CONSTANTS MaxTarget,      \* bounds the target's tree
          MaxSigned,      \* bounds the heads the target signs
          MaxPollErrors,  \* bounds the polls that fail
          Wrong           \* whether the target may show a head with another root

VARIABLES target,      \* the sizes of the heads the target has signed, by time
          stopped,     \* the tasks of RemotePeer and STHUpdater are cancelled
          polling,     \* RemotePeer: "no", "yes" (a GetSTH is in flight), "returned"
          answer,      \* the head it was answered with
          remoteSth,   \* RemotePeer::Impl::sth_
          queued,      \* the queued heads, one for each size
          treeSize,    \* Database::TreeSize
          lookup,      \* LogLookup's latest_tree_head_
          updater,     \* STHUpdater: its place, local_size and new_tree's size
          passed,      \* the heads given to NewTreeHead
          refused,     \* the heads counted as inconsistent
          pollErrors

mirrorVars == <<target, stopped, polling, answer, remoteSth, queued, treeSize, lookup, updater,
                passed, refused, pollErrors>>

TreeHead(n, time, right) == [size |-> n, time |-> time, right |-> right]
NoHead == TreeHead(-1, 0, TRUE)

MirrorInit ==
    /\ target = <<0>>
    /\ stopped = FALSE
    /\ polling = "no"
    /\ answer = NoHead
    /\ remoteSth = NoHead
    /\ queued = {}
    /\ treeSize = 0
    /\ lookup = NoHead
    /\ updater = [at |-> "asleep", localSize |-> 0, tree |-> 0]
    /\ passed = {}
    /\ refused = {}
    /\ pollErrors = 0

Times == DOMAIN target
TargetSize == target[Len(target)]

\* External: the target signs a new head.
Sign(n) ==
    /\ Len(target) < MaxSigned
    /\ n \in TargetSize .. MaxTarget
    /\ target' = Append(target, n)
    /\ UNCHANGED <<stopped, answer, polling, remoteSth, queued, treeSize, lookup, updater, passed,
                   refused, pollErrors>>

----------------------------------------------------------------------------
(* RemotePeer. *)

\* The server has stopped: main returns the task whose children these are.
Stop ==
    /\ ~stopped
    /\ stopped' = TRUE
    /\ UNCHANGED <<target, polling, answer, remoteSth, queued, treeSize, lookup,
                   updater, passed, refused, pollErrors>>

\* The delay is over: GetSTH is sent.
FetchSTH ==
    /\ polling = "no"
    /\ polling' = IF stopped THEN "returned" ELSE "yes"
    /\ UNCHANGED <<stopped, answer, target, remoteSth, queued, treeSize, lookup,
                   updater, passed, refused, pollErrors>>

\* The callback given to RemotePeer.  An older head of a queued size is
\* ignored; map::insert ignores a newer one too.
NewSth(h) ==
    IF \E q \in queued : q.size = h.size THEN queued ELSE queued \cup {h}

\* A head that verifies is taken if it is no smaller and newer.
Acceptable(h) == h.size >= remoteSth.size /\ h.time > remoteSth.time

QueueUnlocked == updater.at # "updating"

\* External: the target answers, with any head it ever signed, since its
\* servers may lag.
Answer(t, right) ==
    /\ polling = "yes" /\ answer = NoHead
    /\ right \/ Wrong
    /\ answer' = TreeHead(target[t], t, right)
    /\ UNCHANGED <<stopped, target, polling, remoteSth, queued, treeSize, lookup, updater,
                   passed, refused, pollErrors>>

\* DoneGetSTH with a head that verifies; the callback takes the queue's lock.
DoneGetSTH ==
    /\ answer # NoHead
    /\ IF ~stopped /\ Acceptable(answer)
       THEN QueueUnlocked /\ remoteSth' = answer /\ queued' = NewSth(answer)
       ELSE UNCHANGED <<remoteSth, queued>>
    /\ polling' = IF stopped THEN "returned" ELSE "no"
    /\ answer' = NoHead
    /\ UNCHANGED <<stopped, target, treeSize, lookup, updater, passed, refused, pollErrors>>

\* DoneGetSTH without one: an error of the client, or a head whose signature or
\* time does not verify.
GetSTHFailed ==
    /\ polling = "yes" /\ answer = NoHead
    /\ pollErrors < MaxPollErrors
    /\ polling' = IF stopped THEN "returned" ELSE "no"
    /\ pollErrors' = pollErrors + 1
    /\ UNCHANGED <<stopped, answer, target, remoteSth, queued, treeSize, lookup, updater, passed, refused>>

----------------------------------------------------------------------------
(* The rest of the mirror. *)

\* External: the fetcher writes the next entry.
FetchEntry ==
    /\ treeSize < TargetSize
    /\ treeSize' = treeSize + 1
    /\ UNCHANGED <<stopped, answer, target, polling, remoteSth, queued, lookup, updater, passed,
                   refused, pollErrors>>

\* External: the cluster serves a head this node holds the entries of, one it
\* passed on itself or one another node of the mirror was faster with.
UpdateFromSTH(t) ==
    /\ t > lookup.time
    /\ target[t] <= treeSize
    /\ lookup' = TreeHead(target[t], t, TRUE)
    /\ UNCHANGED <<stopped, answer, target, polling, remoteSth, queued, treeSize, updater,
                   passed, refused, pollErrors>>

LookupSize == IF lookup = NoHead THEN 0 ELSE lookup.size

----------------------------------------------------------------------------
(* STHUpdater. *)

\* It wakes up (when it is cancelled it returns the task, and goes on), and takes
\* the size of the database and a copy of the serving tree before it takes the
\* lock of the queue.
Wake ==
    /\ updater.at = "asleep"
    /\ updater' = [at |-> "woken", localSize |-> treeSize, tree |-> LookupSize]
    /\ UNCHANGED <<stopped, answer, target, polling, remoteSth, queued, treeSize, lookup, passed,
                   refused, pollErrors>>

Lock ==
    /\ updater.at = "woken"
    /\ updater' = [updater EXCEPT !.at = "updating"]
    /\ UNCHANGED <<stopped, answer, target, polling, remoteSth, queued, treeSize, lookup, passed,
                   refused, pollErrors>>

\* Mutant: a head the local tree has just reached waits for one more entry.
CandidatesLate == {h \in queued : h.size < updater.localSize}

Candidates == {h \in queued : h.size <= updater.localSize}

\* Mutant: the copy of the tree, whatever its size.
LocalRootSizeOfCopy(n, tree) == tree

\* The size of the tree whose root is compared: the serving tree's snapshot for
\* a historical head, the copy, which has been extended, otherwise.
LocalRootSize(n, tree) == IF n > LookupSize THEN tree ELSE n

Agrees(h, tree) == h.right /\ LocalRootSize(h.size, tree) = h.size

\* The smallest queued head is compared with the local tree, which is first
\* extended to it.
Update ==
    /\ updater.at = "updating"
    /\ Candidates # {}
    /\ LET h == CHOOSE c \in Candidates : \A d \in Candidates : c.size <= d.size
           tree == IF updater.tree < h.size THEN h.size ELSE updater.tree
       IN /\ queued' = queued \ {h}
          /\ updater' = [updater EXCEPT !.tree = tree]
          /\ IF Agrees(h, tree)
             THEN passed' = passed \cup {h} /\ UNCHANGED refused
             ELSE refused' = refused \cup {h} /\ UNCHANGED passed
    /\ UNCHANGED <<stopped, answer, target, polling, remoteSth, treeSize, lookup, pollErrors>>

UpdaterSleeps ==
    /\ updater.at = "updating"
    /\ Candidates = {}
    /\ updater' = [at |-> "asleep", localSize |-> 0, tree |-> 0]
    /\ UNCHANGED <<stopped, answer, target, polling, remoteSth, queued, treeSize, lookup, passed,
                   refused, pollErrors>>

MirrorNext ==
    \/ \E n \in 0 .. MaxTarget : Sign(n)
    \/ Stop
    \/ FetchSTH
    \/ \E t \in Times, right \in BOOLEAN : Answer(t, right)
    \/ DoneGetSTH
    \/ GetSTHFailed
    \/ FetchEntry
    \/ \E t \in Times : UpdateFromSTH(t)
    \/ Wake
    \/ Lock
    \/ Update
    \/ UpdaterSleeps

\* The answer is the target's newest head.
AnswerNewest == Answer(Len(target), TRUE)

MirrorSpec == MirrorInit /\ [][MirrorNext]_mirrorVars

----------------------------------------------------------------------------

(***************************************************************************)
(* The mirror passes on a head only when it can serve it: its root is that *)
(* of the local entries and the database holds all of them (STHUpdater's   *)
(* two tests), although the serving tree grows while it compares.          *)
(***************************************************************************)
PassedIsLocal == \A h \in passed : h.right /\ h.size <= treeSize

(***************************************************************************)
(* Only a head whose root is wrong is counted as inconsistent: a right one *)
(* is never refused because the tree it was compared with was of another   *)
(* size, however the serving tree moved after new_tree was copied.         *)
(***************************************************************************)
RefusedIsWrong == \A h \in refused : ~h.right

(***************************************************************************)
(* The heads of the peer only grow, in size and in time, although a       *)
(* server of the target that lags may answer with an old one (DoneGetSTH). *)
(***************************************************************************)
HeadsGrow == remoteSth' # remoteSth => remoteSth'.size >= remoteSth.size /\ remoteSth'.time > remoteSth.time

\* A head of the size of the target's tree has been passed on.
MirrorCaughtUp == stopped \/ \E h \in passed : h.size = TargetSize
=============================================================================
