----------------------------- MODULE ThreadPool -----------------------------
(***************************************************************************)
(* cert_trans::ThreadPool: workers that wait on one condition variable for *)
(* a priority queue of closures and delayed tasks, and the destructor that *)
(* sends every worker an empty closure.  The clock is a small integer.  An *)
(* entry of the queue carries its time: the moment it was added for a      *)
(* closure, a later one for a delayed task, zero for an empty closure.     *)
(***************************************************************************)
EXTENDS Integers, FiniteSets

CONSTANTS
    Worker,    \* threads_
    Job,       \* what the users of the pool add, each once
    MaxClock   \* the clock stops here

VARIABLES
    clock,    \* steady_clock::now()
    queue,    \* queue_, a set of entries
    worker,   \* what each worker is doing
    job,      \* what became of each job
    pool      \* "open", "closing" (in the destructor), "closed" or "died"

poolVars == <<clock, queue, worker, job, pool>>

Epoch == 0
Entry == [time : 0..MaxClock, kind : {"closure", "delay"}, what : Job]
         \cup [time : {Epoch}, kind : {"exit"}, what : Worker]

\* A worker looks at the queue under the lock, sleeps without a limit, sleeps
\* until a time, runs a job, or has left.
Doing == [pc : {"look", "wait", "exited"}]
         \cup [pc : {"wait_for"}, until : 0..MaxClock]
         \cup [pc : {"run"}, what : Job]

PoolTypeOK ==
    /\ clock \in 1..MaxClock
    /\ queue \subseteq Entry
    /\ worker \in [Worker -> Doing]
    /\ job \in [Job -> {"new", "queued", "running", "ran", "cancelled"}]
    /\ pool \in {"open", "closing", "closed", "died"}

PoolInit ==
    /\ clock = 1
    /\ queue = {}
    /\ worker = [w \in Worker |-> [pc |-> "look"]]
    /\ job = [j \in Job |-> "new"]
    /\ pool = "open"

Asleep(w) == worker[w].pc \in {"wait", "wait_for"}
Woken(ws) == [w \in Worker |-> IF w \in ws THEN [pc |-> "look"] ELSE worker[w]]

\* queue_.top(): the order of entries with one time is not specified.
Top == {e \in queue : \A f \in queue : e.time <= f.time}

-----------------------------------------------------------------------------
\* queue_cond_var_.notify_one()
NotifyOne ==
    IF \E w \in Worker : Asleep(w)
        THEN \E w \in Worker : Asleep(w) /\ worker' = Woken({w})
        ELSE worker' = worker

Add(j) ==
    /\ pool = "open" /\ job[j] = "new"
    /\ queue' = queue \cup {[time |-> clock, kind |-> "closure", what |-> j]}
    /\ job' = [job EXCEPT ![j] = "queued"]
    /\ NotifyOne
    /\ UNCHANGED <<clock, pool>>

Delay(j) ==
    /\ pool = "open" /\ job[j] = "new"
    /\ \E t \in clock..MaxClock :
           queue' = queue \cup {[time |-> t, kind |-> "delay", what |-> j]}
    /\ job' = [job EXCEPT ![j] = "queued"]
    /\ NotifyOne
    /\ UNCHANGED <<clock, pool>>

-----------------------------------------------------------------------------
(* Worker(): one pass of the loop under queue_lock_.                       *)

\* Mutant: a worker sleeps without a limit when the next entry is not due.
SleepForever(w) ==
    /\ worker[w].pc = "look"
    /\ \A e \in Top : e.time > clock
    /\ worker' = [worker EXCEPT ![w] = [pc |-> "wait"]]
    /\ UNCHANGED <<clock, queue, job, pool>>

\* Nothing is due: sleep, until the time of the top entry if there is one.
Sleep(w) ==
    /\ worker[w].pc = "look"
    /\ \A e \in Top : e.time > clock
    /\ worker' = [worker EXCEPT ![w] =
           IF queue = {} THEN [pc |-> "wait"]
           ELSE [pc |-> "wait_for", until |-> (CHOOSE e \in Top : TRUE).time]]
    /\ UNCHANGED <<clock, queue, job, pool>>

\* An entry that is due is popped; its closure runs outside the lock.
Pop(w) ==
    /\ worker[w].pc = "look"
    /\ \E e \in Top :
        /\ e.time <= clock /\ e.kind # "exit"
        /\ queue' = queue \ {e}
        /\ worker' = [worker EXCEPT ![w] = [pc |-> "run", what |-> e.what]]
        /\ job' = [job EXCEPT ![e.what] = "running"]
    /\ UNCHANGED <<clock, pool>>

\* Delayed tasks from the top of the queue up to the first entry without one.
Drained(q) ==
    {e \in q : /\ e.kind = "delay"
               /\ \A f \in q : f.time <= e.time => f.kind = "delay"}

\* An empty closure: the worker returns the delayed tasks it drains as CANCELLED
\* and leaves.  With equal times the entry without a task may come first or last.
Exit(w) ==
    /\ worker[w].pc = "look"
    /\ \E e \in Top :
        /\ e.kind = "exit"
        /\ LET q == queue \ {e}
               ties == {f \in q : f.kind = "delay" /\ \A g \in q :
                            g.time < f.time => g.kind = "delay"} \ Drained(q)
           IN  \E gone \in {Drained(q) \cup x : x \in SUBSET ties} :
                /\ queue' = q \ gone
                /\ job' = [j \in Job |-> IF \E f \in gone : f.what = j
                                         THEN "cancelled" ELSE job[j]]
    /\ worker' = [worker EXCEPT ![w] = [pc |-> "exited"]]
    /\ UNCHANGED <<clock, pool>>

Finish(w) ==
    /\ worker[w].pc = "run"
    /\ job' = [job EXCEPT ![worker[w].what] = "ran"]
    /\ worker' = [worker EXCEPT ![w] = [pc |-> "look"]]
    /\ UNCHANGED <<clock, queue, pool>>

\* wait_for runs into its limit; either wait may also return for no reason.
Timeout(w) ==
    /\ worker[w].pc = "wait_for" /\ worker[w].until <= clock
    /\ worker' = Woken({w})
    /\ UNCHANGED <<clock, queue, job, pool>>

SpuriousWakeup(w) ==
    /\ Asleep(w)
    /\ worker' = Woken({w})
    /\ UNCHANGED <<clock, queue, job, pool>>

-----------------------------------------------------------------------------
\* ~Impl: an empty closure for every thread, then notify_all.
Close ==
    /\ pool = "open"
    /\ pool' = "closing"
    /\ queue' = queue \cup [time : {Epoch}, kind : {"exit"}, what : Worker]
    /\ worker' = Woken({w \in Worker : Asleep(w)})
    /\ UNCHANGED <<clock, job>>

\* ... join, and CHECK(queue_.empty()).
Join ==
    /\ pool = "closing"
    /\ \A w \in Worker : worker[w].pc = "exited"
    /\ pool' = IF queue = {} THEN "closed" ELSE "died"
    /\ UNCHANGED <<clock, queue, worker, job>>

Tick ==
    /\ clock < MaxClock
    /\ clock' = clock + 1
    /\ UNCHANGED <<queue, worker, job, pool>>

Work(w) == Sleep(w) \/ Pop(w) \/ Exit(w) \/ Finish(w) \/ Timeout(w)

PoolNext ==
    \/ \E j \in Job : Add(j) \/ Delay(j)
    \/ \E w \in Worker : Work(w) \/ SpuriousWakeup(w)
    \/ Close \/ Join \/ Tick

PoolSpec == PoolInit /\ [][PoolNext]_poolVars

-----------------------------------------------------------------------------
(* Properties.                                                             *)

\* No wakeup is lost: while the queue has an entry and the pool is not shut down,
\* some worker is awake or busy, or one sleeps no longer than until the
\* earliest entry is due (notify_one may reach a worker that was about to
\* time out, or one that then takes another entry).
SomeoneWatches ==
    queue # {} /\ pool = "open" =>
        \E w \in Worker :
            \/ ~Asleep(w)
            \/ worker[w].pc = "wait_for" /\ \A e \in Top : worker[w].until <= e.time

\* No job starts before its time, and a delayed task is returned as CANCELLED
\* only by the destructor.
NeverEarly ==
    \A j \in Job : /\ job'[j] = "running" /\ job[j] = "queued" =>
                         \A e \in queue : e.what = j => e.time <= clock
                   /\ job'[j] = "cancelled" /\ job[j] # "cancelled" =>
                         pool = "closing"

\* A pool that was destroyed has left no job behind and no thread in the middle
\* of one.
ClosedIsClean ==
    pool = "closed" => \A j \in Job : job[j] \in {"new", "ran", "cancelled"}

\* No job waits, unless the destructor has died.
NoneWaits == pool # "died" => \A j \in Job : job[j] # "queued"
=============================================================================
