------------------------------- MODULE Tasks -------------------------------
(***************************************************************************)
(* util::Task and util::SyncTask: the life of an asynchronous operation,   *)
(* its holds, its cancellation callbacks and its child tasks, with the     *)
(* closures of all of them run by the threads of an executor.              *)
(*                                                                         *)
(* A thread is the sequence of the steps it still has to take.  A step is  *)
(* what the code does under one acquisition of a task's lock_, one call of *)
(* the executor, or one callback.  Between two steps any other thread may  *)
(* run.  The root task is the task_ of a SyncTask; its callee takes a      *)
(* TaskHold, adds children and callbacks, and returns; its caller cancels, *)
(* waits and destroys it.                                                  *)
(***************************************************************************)
EXTENDS Integers, Sequences, SequencesExt, FiniteSets

CONSTANTS
    Child,         \* the child tasks the callee may add
    Worker,        \* the threads of the executor
    MaxCallbacks,  \* how often the callee calls WhenCancelled
    MaxCancels     \* how often the caller calls Cancel

VARIABLES
    task,       \* the members of each Task object
    todo,       \* the steps each thread has to take
    posted,     \* the closures the executor was given, not yet taken
    notified,   \* SyncTask's notifier_
    destroyed,  \* the owner ran ~SyncTask
    callee,     \* what the callee did: holds it has, callbacks, returned
    cancels,    \* Cancel calls of the caller so far
    aborted     \* a CHECK failed

vars == <<task, todo, posted, notified, destroyed, callee, cancels, aborted>>

Root == "root"
Task == Child \cup {Root}
Callee == "callee"
Caller == "caller"
Thread == Worker \cup {Callee, Caller}

StepKind == {"Cancel", "Return", "RemoveHold", "PostCancel", "PostDone",
             "CancelCallback", "Cleanup", "DoneCallback", "ChildDone"}

Op(kind, t) == [op |-> kind, t |-> t]

NewTask == [state |-> "ACTIVE", cancelled |-> FALSE, holds |-> 0,
            callbacks |-> 0, children |-> {}, ran |-> 0]

TypeOK ==
    /\ task \in [Task -> [state : {"NONE", "ACTIVE", "PREPARED", "DONE"},
                          cancelled : BOOLEAN, holds : Int,
                          callbacks : Nat, children : SUBSET Child,
                          ran : Nat]]
    /\ todo \in [Thread -> Seq([op : StepKind, t : Task])]
    /\ posted \in [{"cancel", "done"} \X Task -> Nat]
    /\ {notified, destroyed, aborted} \subseteq BOOLEAN
    /\ callee \in [holds : 0..1, callbacks : 0..MaxCallbacks, returned : BOOLEAN]
    /\ cancels \in 0..MaxCancels

Init ==
    /\ task = [t \in Task |-> IF t = Root THEN [NewTask EXCEPT !.holds = 1]
                              ELSE [NewTask EXCEPT !.state = "NONE"]]
    /\ todo = [th \in Thread |-> <<>>]
    /\ posted = [c \in {"cancel", "done"} \X Task |-> 0]
    /\ notified = FALSE
    /\ destroyed = FALSE
    /\ callee = [holds |-> 1, callbacks |-> 0, returned |-> FALSE]
    /\ cancels = 0
    /\ aborted = FALSE

-----------------------------------------------------------------------------
(* What one locked section leaves to its thread.                           *)

Times(n, op) == [i \in 1..n |-> op]

\* child_task->Cancel() for every shared_ptr of a copy of child_tasks_.
CancelAll(children) == SetToSeq({Op("Cancel", c) : c \in children})

\* Mutant: the holds are not asked for.
TryDoneEarly(obj) ==
    IF obj.state = "PREPARED" THEN [obj EXCEPT !.state = "DONE"] ELSE obj

\* TryDoneTransition: the object with the state DONE, if it may get there.
TryDoneTransition(obj) ==
    IF obj.state = "PREPARED" /\ obj.holds = 0
        THEN [obj EXCEPT !.state = "DONE"]
        ELSE obj

\* ... and the executor_->Add that follows the transition.
AfterTry(t, obj) ==
    IF TryDoneTransition(obj).state = "DONE"
        THEN <<Op("PostDone", t)>> ELSE <<>>

Continue(th, ops) == todo' = [todo EXCEPT ![th] = ops \o Tail(@)]

Abort(th) ==
    /\ aborted' = TRUE
    /\ Continue(th, <<>>)
    /\ UNCHANGED <<task, posted, notified, destroyed, callee, cancels>>

-----------------------------------------------------------------------------
(* The steps.                                                              *)

Cancel(th, t) ==
    LET obj == task[t] IN
    /\ IF obj.state = "DONE" \/ obj.cancelled
       THEN UNCHANGED task /\ Continue(th, <<>>)
       ELSE /\ task' = [task EXCEPT ![t].cancelled = TRUE,
                                    ![t].callbacks = 0,
                                    ![t].holds = @ + obj.callbacks]
            /\ Continue(th, CancelAll(obj.children)
                            \o Times(obj.callbacks, Op("PostCancel", t)))
    /\ UNCHANGED <<posted, notified, destroyed, callee, cancels, aborted>>

Return(th, t) ==
    LET obj == [task[t] EXCEPT !.state = "PREPARED", !.callbacks = 0] IN
    /\ IF task[t].state # "ACTIVE"
       THEN UNCHANGED task /\ Continue(th, <<>>)
       ELSE /\ task' = [task EXCEPT ![t] = TryDoneTransition(obj)]
            /\ Continue(th, AfterTry(t, obj) \o CancelAll(obj.children))
    /\ UNCHANGED <<posted, notified, destroyed, callee, cancels, aborted>>

RemoveHold(th, t) ==
    LET obj == [task[t] EXCEPT !.holds = @ - 1] IN
    IF task[t].holds = 0 \/ task[t].state = "DONE"
    THEN Abort(th)
    ELSE /\ task' = [task EXCEPT ![t] = TryDoneTransition(obj)]
         /\ Continue(th, AfterTry(t, obj))
         /\ UNCHANGED <<posted, notified, destroyed, callee, cancels, aborted>>

\* executor_->Add(...)
Post(th, t, closure) ==
    /\ posted' = [posted EXCEPT ![<<closure, t>>] = @ + 1]
    /\ Continue(th, <<>>)
    /\ UNCHANGED <<task, notified, destroyed, callee, cancels, aborted>>

\* The cb() of RunCancelCallback: it returns the task as CANCELLED or only
\* tells the operation to stop.
CancelCallback(th, t) ==
    /\ \E returns \in BOOLEAN :
           Continue(th, IF returns THEN <<Op("Return", t)>> ELSE <<>>)
    /\ UNCHANGED <<task, posted, notified, destroyed, callee, cancels, aborted>>

\* RunCleanupAndDoneCallbacks up to the done callback.
Cleanup(th, t) ==
    /\ Continue(th, <<>>)
    /\ UNCHANGED <<task, posted, notified, destroyed, callee, cancels, aborted>>

\* notifier_.Notify(): a second call is a CHECK failure.
Notify ==
    /\ aborted' = (aborted \/ notified)
    /\ notified' = TRUE

\* done_callback_(this): for the SyncTask's task Notification::Notify, for a
\* child the callback the parent's callee gave, which may return the parent,
\* followed by RunChildDoneCallback's own section.
DoneCallback(th, t) ==
    /\ task' = [task EXCEPT ![t].ran = @ + 1]
    /\ IF t = Root
       THEN Notify /\ Continue(th, <<>>)
       ELSE /\ \E returns \in BOOLEAN :
                   Continue(th, (IF returns THEN <<Op("Return", Root)>>
                                 ELSE <<>>) \o <<Op("ChildDone", t)>>)
            /\ UNCHANGED <<notified, aborted>>
    /\ UNCHANGED <<posted, destroyed, callee, cancels>>

\* The locked section of RunChildDoneCallback, on the parent.
ChildDone(th, t) ==
    LET obj == [task[Root] EXCEPT !.holds = @ - 1, !.children = @ \ {t}] IN
    IF t \notin task[Root].children \/ task[Root].holds = 0
       \/ task[Root].state = "DONE" \/ task[t].state # "DONE"
    THEN Abort(th)
    ELSE /\ task' = [task EXCEPT ![Root] = TryDoneTransition(obj)]
         /\ Continue(th, AfterTry(Root, obj))
         /\ UNCHANGED <<posted, notified, destroyed, callee, cancels, aborted>>

Run(th) ==
    /\ todo[th] # <<>> /\ ~aborted
    /\ LET op == Head(todo[th]).op
           t == Head(todo[th]).t
       IN  \/ op = "Cancel" /\ Cancel(th, t)
           \/ op = "Return" /\ Return(th, t)
           \/ op = "RemoveHold" /\ RemoveHold(th, t)
           \/ op = "PostCancel" /\ Post(th, t, "cancel")
           \/ op = "PostDone" /\ Post(th, t, "done")
           \/ op = "CancelCallback" /\ CancelCallback(th, t)
           \/ op = "Cleanup" /\ Cleanup(th, t)
           \/ op = "DoneCallback" /\ DoneCallback(th, t)
           \/ op = "ChildDone" /\ ChildDone(th, t)

-----------------------------------------------------------------------------
(* The threads that start them.                                            *)

\* A worker of the executor takes a closure.
Take(w) ==
    /\ todo[w] = <<>> /\ ~aborted
    /\ \E c \in DOMAIN posted :
        /\ posted[c] > 0
        /\ posted' = [posted EXCEPT ![c] = @ - 1]
        /\ todo' = [todo EXCEPT ![w] =
               IF c[1] = "cancel"
               THEN <<Op("CancelCallback", c[2]), Op("RemoveHold", c[2])>>
               ELSE <<Op("Cleanup", c[2]), Op("DoneCallback", c[2])>>]
    /\ UNCHANGED <<task, notified, destroyed, callee, cancels, aborted>>

\* The callee works on the task while it has its TaskHold.
CalleeReady == todo[Callee] = <<>> /\ callee.holds = 1 /\ ~aborted

AddChildWithExecutor(c) ==
    /\ CalleeReady /\ task[c].state = "NONE"
    /\ task' = [task EXCEPT ![Root].children = @ \cup {c},
                            ![Root].holds = @ + 1, ![c] = NewTask]
    /\ todo' = [todo EXCEPT ![Callee] =
           IF task[Root].state # "ACTIVE" \/ task[Root].cancelled
           THEN <<Op("Cancel", c)>> ELSE <<>>]
    /\ UNCHANGED <<posted, notified, destroyed, callee, cancels, aborted>>

WhenCancelled ==
    /\ CalleeReady /\ callee.callbacks < MaxCallbacks
    /\ callee' = [callee EXCEPT !.callbacks = @ + 1]
    /\ IF task[Root].state # "ACTIVE" THEN UNCHANGED <<task, todo>>
       ELSE IF ~task[Root].cancelled
       THEN /\ task' = [task EXCEPT ![Root].callbacks = @ + 1]
            /\ UNCHANGED todo
       ELSE /\ task' = [task EXCEPT ![Root].holds = @ + 1]
            /\ todo' = [todo EXCEPT ![Callee] = <<Op("PostCancel", Root)>>]
    /\ UNCHANGED <<posted, notified, destroyed, cancels, aborted>>

CalleeReturn ==
    /\ CalleeReady /\ ~callee.returned
    /\ callee' = [callee EXCEPT !.returned = TRUE]
    /\ todo' = [todo EXCEPT ![Callee] = <<Op("Return", Root)>>]
    /\ UNCHANGED <<task, posted, notified, destroyed, cancels, aborted>>

\* ~TaskHold, the last thing the callee does with the task.
CalleeRelease ==
    /\ CalleeReady /\ callee.returned
    /\ callee' = [callee EXCEPT !.holds = 0]
    /\ todo' = [todo EXCEPT ![Callee] = <<Op("RemoveHold", Root)>>]
    /\ UNCHANGED <<task, posted, notified, destroyed, cancels, aborted>>

\* The operation of a child finishes, on the thread of its own callee.
ChildReturn(c) ==
    /\ task[c].state = "ACTIVE" /\ todo[Callee] = <<>> /\ ~aborted
    /\ todo' = [todo EXCEPT ![Callee] = <<Op("Return", c)>>]
    /\ UNCHANGED <<task, posted, notified, destroyed, callee, cancels, aborted>>

CallerCancel ==
    /\ todo[Caller] = <<>> /\ ~destroyed /\ cancels < MaxCancels /\ ~aborted
    /\ cancels' = cancels + 1
    /\ todo' = [todo EXCEPT ![Caller] = <<Op("Cancel", Root)>>]
    /\ UNCHANGED <<task, posted, notified, destroyed, callee, aborted>>

\* SyncTask::Wait has returned.
Waited == notified

\* ~SyncTask, with the CHECKs of ~Task.
CallerDestroy ==
    /\ todo[Caller] = <<>> /\ Waited /\ ~destroyed /\ ~aborted
    /\ destroyed' = TRUE
    /\ aborted' = (task[Root].state # "DONE" \/ task[Root].callbacks > 0)
    /\ UNCHANGED <<task, todo, posted, notified, callee, cancels>>

Next ==
    \/ \E th \in Thread : Run(th)
    \/ \E w \in Worker : Take(w)
    \/ \E c \in Child : AddChildWithExecutor(c) \/ ChildReturn(c)
    \/ WhenCancelled \/ CalleeReturn \/ CalleeRelease
    \/ CallerCancel \/ CallerDestroy

Spec == Init /\ [][Next]_vars

-----------------------------------------------------------------------------
(* Properties.                                                             *)

Steps == UNION {ToSet(todo[th]) : th \in Thread}

\* A task is DONE only when it has no holds, all its cancellation callbacks
\* have returned and the done callbacks of all its children too, whichever
\* threads those run on (the conditions task.h gives for PREPARED to DONE).
DoneWaits ==
    \A t \in Task : task[t].state = "DONE" =>
        /\ task[t].holds = 0 /\ task[t].children = {}
        /\ posted[<<"cancel", t>>] = 0
        /\ ~ \E s \in Steps : s.t = t /\ s.op \in {"PostCancel", "CancelCallback"}

\* The done callback of a task runs at most once, and only in state DONE.
DoneOnce ==
    \A t \in Task : task[t].ran <= (IF task[t].state = "DONE" THEN 1 ELSE 0)

\* Cancel() takes a copy of the children and gives up the lock: no child is
\* missed.  A child of a task that was cancelled or has returned is cancelled,
\* or done, or some thread is about to cancel it.
ChildrenHear ==
    \A c \in task[Root].children :
        task[Root].cancelled \/ task[Root].state # "ACTIVE" =>
            \/ task[c].cancelled \/ task[c].state = "DONE"
            \/ Op("Cancel", c) \in Steps

\* No thread has a step left on a Task object that is gone: the SyncTask's once
\* its owner destroyed it, a child's once its parent dropped the shared_ptr
\* (Cancel() on a child goes through a copy of that pointer).
NoUseAfterFree ==
    /\ destroyed => /\ \A s \in Steps : s.t # Root /\ s.op # "ChildDone"
                    /\ \A k \in {"cancel", "done"} : posted[<<k, Root>>] = 0
    /\ \A c \in Child \ task[Root].children :
           /\ \A s \in Steps : s.t = c => s.op = "Cancel"
           /\ \A k \in {"cancel", "done"} : posted[<<k, c>>] = 0

\* None of the CHECKs of task.cc and of Notification::Notify fails.
NoCheckFails == ~aborted
=============================================================================
