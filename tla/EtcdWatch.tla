----------------------------- MODULE EtcdWatch -----------------------------
(***************************************************************************)
(* EtcdClient::Watch (util/etcd.cc): the client follows one directory of   *)
(* etcd with an initial get and a chain of long polls, each of which       *)
(* returns one event, and hands what changed to a callback.                *)
(*                                                                         *)
(* etcd itself (external) is a sequence of snapshots of the directory, one *)
(* for each index; a change elsewhere repeats the last one.  It remembers  *)
(* only the last `History' events: a poll for an older index is answered   *)
(* with error 401 and the current index.  A node is its modified index, 0  *)
(* when it does not exist.                                                 *)
(***************************************************************************)
EXTENDS Integers, Sequences

CONSTANTS
    Key,        \* the nodes of the directory
    History,    \* events etcd remembers
    MaxIndex,   \* bound on etcd's index
    MaxFailures \* bound on failed requests

VARIABLES
    snaps,      \* the directory at index 1, 2, ...
    phase,      \* the request the watch waits for
    asked,      \* etcd's index when that request was sent
    highest,    \* highest_index_seen_
    known,      \* known_keys_
    view,       \* what the callbacks have told their receiver so far
    cancelled,  \* task_->CancelRequested()
    failures

watchVars == <<snaps, phase, asked, highest, known, view, cancelled, failures>>

Dir == [Key -> 0..MaxIndex]
NoKeys == [k \in Key |-> 0]
index == Len(snaps)

WatchTypeOK ==
    /\ snaps \in Seq(Dir) /\ index \in 1..MaxIndex
    /\ phase \in {"get", "wait", "delay", "returned"}
    /\ asked \in 1..MaxIndex
    /\ highest \in -1..MaxIndex
    /\ known \in Dir /\ view \in Dir
    /\ cancelled \in BOOLEAN
    /\ failures \in 0..MaxFailures

WatchInit ==
    /\ snaps = <<NoKeys>>
    /\ phase = "get"
    /\ asked = 1
    /\ highest = -1
    /\ known = NoKeys /\ view = NoKeys
    /\ cancelled = FALSE
    /\ failures = 0

Later(a, b) == IF a > b THEN a ELSE b

-----------------------------------------------------------------------------
(* etcd: a node is created, changed or deleted, or something else changes. *)

Change ==
    /\ index < MaxIndex
    /\ \/ snaps' = Append(snaps, snaps[index])
       \/ \E k \in Key : snaps' = Append(snaps, [snaps[index] EXCEPT ![k] = index + 1])
       \/ \E k \in Key : /\ snaps[index][k] > 0
                         /\ snaps' = Append(snaps, [snaps[index] EXCEPT ![k] = 0])
    /\ UNCHANGED <<phase, asked, highest, known, view, cancelled, failures>>

\* The answer to a poll for an index is the first event from it on.
EventsFrom(i) == {j \in 2..index : j >= i /\ snaps[j] # snaps[j - 1]}
Cleared(i) == i <= index - History

-----------------------------------------------------------------------------
(* The client.  Every callback of a request first looks at CancelRequested *)

WatchReturns == phase' = "returned" /\ UNCHANGED <<asked, highest, known, view>>

\* Get of the directory, without and with a wait index.
SendGet == phase' = "get" /\ asked' = index
SendWait == phase' = "wait" /\ asked' = index

\* Mutant: keys that are missing from the new listing are forgotten silently.
UpdatesWithoutDeletions(listing) ==
    {k \in Key : listing[k] > 0 /\ known[k] < listing[k]}

\* The nodes of a listing that are new or newer, and the keys that are gone.
Updates(listing) ==
    {k \in Key : listing[k] > 0 /\ known[k] < listing[k]}
    \cup {k \in Key : known[k] > 0 /\ listing[k] = 0}

\* highest_index_seen_ after a listing at index i.
SeenIn(i) == Later(highest, i)

\* WatchInitialGetDone, with a listing that etcd made while the Get was under
\* way; the callback is called when something changed.
WatchInitialGetDone ==
    /\ phase = "get"
    /\ IF cancelled THEN WatchReturns
       ELSE \E i \in asked..index :
            /\ highest' = SeenIn(i)
            /\ known' = snaps[i]
            /\ view' = [k \in Key |-> IF k \in Updates(snaps[i]) THEN snaps[i][k]
                                      ELSE view[k]]
            /\ SendWait
    /\ UNCHANGED <<snaps, cancelled, failures>>

\* ... the Get failed (or the directory does not exist yet): again, later.
InitialGetFailed ==
    /\ phase = "get" /\ failures < MaxFailures
    /\ failures' = failures + 1
    /\ IF cancelled THEN WatchReturns
       ELSE phase' = "delay" /\ UNCHANGED <<asked, highest, known, view>>
    /\ UNCHANGED <<snaps, cancelled>>

\* WatchRequestDone(state, nullptr, nullptr) when the delay is over.
RetryGet ==
    /\ phase = "delay"
    /\ IF cancelled THEN WatchReturns
       ELSE SendGet /\ UNCHANGED <<highest, known, view>>
    /\ UNCHANGED <<snaps, cancelled, failures>>

\* WatchRequestDone with the error 401 and the index of etcd.
WatchOutdated ==
    /\ phase = "wait" /\ Cleared(highest + 1)
    /\ IF cancelled THEN WatchReturns
       ELSE /\ highest' = Later(highest, index)
            /\ SendGet
            /\ UNCHANGED <<known, view>>
    /\ UNCHANGED <<snaps, cancelled, failures>>

\* WatchRequestDone with any other error: the same request again.
WatchFailed ==
    /\ phase = "wait" /\ failures < MaxFailures
    /\ failures' = failures + 1
    /\ IF cancelled THEN WatchReturns
       ELSE SendWait /\ UNCHANGED <<highest, known, view>>
    /\ UNCHANGED <<snaps, cancelled>>

\* WatchRequestDone with an event, which goes to the callback before the next
\* poll is sent.
WatchRequestDone ==
    /\ phase = "wait" /\ EventsFrom(highest + 1) # {}
    /\ IF cancelled THEN WatchReturns
       ELSE \E e \in EventsFrom(highest + 1), k \in Key :
            /\ \A j \in EventsFrom(highest + 1) : e <= j
            /\ snaps[e][k] # snaps[e - 1][k]
            /\ highest' = Later(highest, e)
            /\ known' = [known EXCEPT ![k] = snaps[e][k]]
            /\ view' = [view EXCEPT ![k] = snaps[e][k]]
            /\ SendWait
    /\ UNCHANGED <<snaps, cancelled, failures>>

Cancel ==
    /\ ~cancelled
    /\ cancelled' = TRUE
    /\ UNCHANGED <<snaps, phase, asked, highest, known, view, failures>>

Client ==
    \/ WatchInitialGetDone \/ InitialGetFailed \/ RetryGet
    \/ WatchOutdated \/ WatchFailed \/ WatchRequestDone

WatchNext == Change \/ Client \/ Cancel

WatchSpec == WatchInit /\ [][WatchNext]_watchVars

-----------------------------------------------------------------------------
(* Properties.                                                             *)

\* No event is lost and none is applied out of order: whenever a poll is under
\* way the receiver's view is the directory exactly as it was at the highest
\* index seen, across deletions, errors, and histories that etcd has cleared.
ViewIsSnapshot == phase = "wait" => view = snaps[highest]

\* The client's known_keys_ and what the receiver was told never diverge: every
\* deletion that happened while no poll was under way is reported.
KnownIsView == known = view

\* The receiver is never taken back to an older state of the directory.
NeverBackwards == highest' >= highest

\* The receiver's view is the directory, or the watch is cancelled.
Current == cancelled \/ view = snaps[index]
=============================================================================
