------------------------------ MODULE FakeEtcd ------------------------------
(***************************************************************************)
(* FakeEtcdClient (util/fake_etcd.cc), the store of a stand-alone server:  *)
(* a map of entries with indexes and expiry times, watches whose callbacks *)
(* go through one queue, and long polls.  The keys are the files of one    *)
(* directory, which all watches and polls are for; a key whose time has    *)
(* come is in `overdue' until the next operation purges it.                *)
(***************************************************************************)
EXTENDS Integers, Sequences, SequencesExt, FiniteSets

CONSTANTS
    Key, Watcher,
    Thread,     \* the threads of the watchers' executor
    MaxIndex    \* bound on index_

VARIABLES
    entries,    \* entries_: the modified index of each file, 0 without one
    ttl,        \* the files that have an expiry time
    overdue,    \* ... those whose time has come
    index,      \* index_
    poll,       \* waiting_gets_: one long poll and its answer
    watch,      \* each watcher: in watches_ ("on"), before or after that
    callbacks,  \* watches_callbacks_
    runners,    \* RunWatchCallback closures the executor has
    running,    \* the callback each thread is in, and whether another follows
    view        \* what each watcher was told so far

vars == <<entries, ttl, overdue, index, poll, watch, callbacks, runners, running, view>>

Idle == [st |-> "idle"]
Callback == [to : Watcher, updates : UNION {[K -> 0..MaxIndex] : K \in SUBSET Key}]

TypeOK ==
    /\ entries \in [Key -> 0..MaxIndex]
    /\ overdue \subseteq ttl /\ ttl \subseteq {k \in Key : entries[k] > 0}
    /\ index \in 1..MaxIndex
    /\ poll \in {"none", "waiting", "answered", "aborted", "cancelled"}
    /\ watch \in [Watcher -> {"new", "on", "off"}]
    /\ callbacks \in Seq(Callback)
    /\ runners \in Nat
    /\ running \in [Thread -> [st : {"run"}, cb : Callback, next : BOOLEAN] \cup {Idle}]
    /\ view \in [Watcher -> [Key -> 0..MaxIndex]]

Init ==
    /\ entries = [k \in Key |-> 0]
    /\ ttl = {} /\ overdue = {}
    /\ index = 1
    /\ poll = "none"
    /\ watch = [w \in Watcher |-> "new"] /\ callbacks = <<>> /\ runners = 0
    /\ running = [t \in Thread |-> Idle]
    /\ view = [w \in Watcher |-> [k \in Key |-> 0]]

-----------------------------------------------------------------------------
\* ScheduleWatchCallback: a runner is started if the queue was empty.
Schedule(cbs) ==
    /\ callbacks' = callbacks \o cbs
    /\ runners' = IF callbacks = <<>> /\ cbs # <<>> THEN runners + 1 ELSE runners

\* What NotifyForPath schedules for changes <<key, node>>, one after the other.
Events(changes) ==
    FlattenSeq([i \in 1..Len(changes) |->
        SetToSeq({[to |-> w, updates |-> [k \in {changes[i][1]} |-> changes[i][2]]] :
                  w \in {x \in Watcher : watch[x] = "on"}})])

\* NotifyForPath: the long poll is answered, the watches are told.
Notify(changes) ==
    /\ Schedule(Events(changes))
    /\ poll' = IF poll = "waiting" /\ changes # <<>> THEN "answered" ELSE poll

\* PurgeExpiredEntriesWithLock: the notifications of the entries it deletes.
Purged == LET gone == SetToSeq(overdue) IN [i \in 1..Len(gone) |-> <<gone[i], 0>>]

AfterPurge == [k \in Key |-> IF k \in overdue THEN 0 ELSE entries[k]]

\* An operation that changes nothing but the purge.
Refused ==
    /\ entries' = AfterPurge /\ ttl' = ttl \ overdue /\ overdue' = {}
    /\ Notify(Purged)
    /\ UNCHANGED <<index, watch, running, view>>

-----------------------------------------------------------------------------
\* InternalPut: Create, Update (prev > 0) and ForceSet, with or without a TTL.
Put(k, create, prev, expires) ==
    /\ index < MaxIndex
    /\ LET now == AfterPurge IN
       IF (create /\ now[k] > 0) \/ (prev > 0 /\ now[k] # prev)
       THEN Refused
       ELSE /\ index' = index + 1
            /\ entries' = [now EXCEPT ![k] = index + 1]
            /\ ttl' = IF expires THEN (ttl \ overdue) \cup {k}
                      ELSE (ttl \ overdue) \ {k}
            /\ overdue' = {}
            /\ Notify(Append(Purged, <<k, index + 1>>))
            /\ UNCHANGED <<watch, running, view>>

Create(k) == \E e \in BOOLEAN : Put(k, TRUE, 0, e)
ForceSet(k) == \E e \in BOOLEAN : Put(k, FALSE, 0, e)
Update(k) == \E prev \in 1..index, e \in BOOLEAN : Put(k, FALSE, prev, e)

\* InternalDelete: Delete (prev > 0) and ForceDelete.
InternalDelete(k, prev) ==
    /\ index < MaxIndex
    /\ IF AfterPurge[k] = 0 \/ (prev > 0 /\ AfterPurge[k] # prev)
       THEN Refused
       ELSE /\ index' = index + 1
            /\ entries' = [AfterPurge EXCEPT ![k] = 0]
            /\ ttl' = (ttl \ overdue) \ {k}
            /\ overdue' = {}
            /\ Notify(Append(Purged, <<k, 0>>))
            /\ UNCHANGED <<watch, running, view>>

Delete(k) == \E prev \in 0..index : InternalDelete(k, prev)

\* An entry's time comes; the timer purges, as every operation does.
Expire(k) ==
    /\ k \in ttl \ overdue
    /\ overdue' = overdue \cup {k}
    /\ UNCHANGED <<entries, ttl, index, poll, watch, callbacks, runners, running, view>>

PurgeExpiredEntries == overdue # {} /\ Refused

-----------------------------------------------------------------------------
\* Get with a wait index: an index in the past is "outdated and cleared".
WaitingGet ==
    /\ poll = "none"
    /\ entries' = AfterPurge /\ ttl' = ttl \ overdue /\ overdue' = {}
    /\ Schedule(Events(Purged))
    /\ \E wait \in 1..(index + 1) :
           poll' = IF wait <= index THEN "aborted" ELSE "waiting"
    /\ UNCHANGED <<index, watch, running, view>>

CancelWaitingGet ==
    /\ poll = "waiting"
    /\ poll' = "cancelled"
    /\ UNCHANGED <<entries, ttl, overdue, index, watch, callbacks, runners, running, view>>

\* Watch: the entries as they are now go to the watcher first.
Watch(w) ==
    /\ watch[w] = "new"
    /\ LET there == {k \in Key : entries[k] > 0}
       IN  Schedule(<<[to |-> w, updates |-> [k \in there |-> entries[k]]]>>)
    /\ watch' = [watch EXCEPT ![w] = "on"]
    /\ UNCHANGED <<entries, ttl, overdue, index, poll, running, view>>

CancelWatch(w) ==
    /\ watch[w] = "on"
    /\ watch' = [watch EXCEPT ![w] = "off"]
    /\ UNCHANGED <<entries, ttl, overdue, index, poll, callbacks, runners, running, view>>

\* RunWatchCallback up to the callback: pop, and note whether another follows.
RunWatchCallback(t) ==
    /\ runners > 0 /\ running[t] = Idle
    /\ runners' = runners - 1
    /\ callbacks' = Tail(callbacks)
    /\ running' = [running EXCEPT ![t] =
           [st |-> "run", cb |-> Head(callbacks), next |-> Len(callbacks) > 1]]
    /\ UNCHANGED <<entries, ttl, overdue, index, poll, watch, view>>

\* Whether RunWatchCallback schedules itself again.
Another(t) == running[t].next

\* ... callback(), RemoveHold and the next runner.
CallbackDone(t) ==
    /\ running[t] # Idle
    /\ running' = [running EXCEPT ![t] = Idle]
    /\ LET cb == running[t].cb IN
        view' = [view EXCEPT ![cb.to] = [k \in Key |->
                    IF k \in DOMAIN cb.updates THEN cb.updates[k] ELSE @[k]]]
    /\ runners' = IF Another(t) THEN runners + 1 ELSE runners
    /\ UNCHANGED <<entries, ttl, overdue, index, poll, watch, callbacks>>

Next ==
    \/ \E k \in Key : Create(k) \/ ForceSet(k) \/ Update(k) \/ Delete(k) \/ Expire(k)
    \/ PurgeExpiredEntries \/ WaitingGet \/ CancelWaitingGet
    \/ \E w \in Watcher : Watch(w) \/ CancelWatch(w)
    \/ \E t \in Thread : RunWatchCallback(t) \/ CallbackDone(t)

Spec == Init /\ [][Next]_vars

-----------------------------------------------------------------------------
(* Properties.                                                             *)

Quiet == callbacks = <<>> /\ \A t \in Thread : running[t] = Idle

\* With one thread no change is lost on its way to a watcher: when nothing is on
\* the way, every watcher was told of the entries as they are, expired ones and
\* those that were there before the watch included.
WatchersCurrent ==
    Quiet => \A w \in Watcher : watch[w] = "on" => view[w] = entries

\* The chain of runners never breaks: callbacks wait only while a runner is
\* scheduled or one that will schedule the next is running.
RunnerPending ==
    callbacks # <<>> =>
        runners > 0 \/ \E t \in Thread : running[t] # Idle /\ running[t].next
=============================================================================
