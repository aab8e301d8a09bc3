------------------------------ MODULE EventLoop ------------------------------
(***************************************************************************)
(* The select loop and its connections: server/event.h, server/event.cc.   *)
(* A pass of OneLoop walks the deque of descriptors while the handlers it  *)
(* calls close descriptors, accept new ones and drop idle ones.            *)
(***************************************************************************)
EXTENDS Integers, Sequences, FiniteSets

CONSTANTS kFDLimit,        \* descriptors that are accepted are below it
          kFDLimitWindow,  \* how far below it one starts to drop
          kIdleTime,
          Frequency,       \* of the repeated event, in seconds
          MaxTime          \* bounds the clock

VARIABLES fds,      \* fds_, in order
          clock,    \* time()
          rough,    \* rough_time_
          event,    \* last_activity_ of the repeated event
          pass,     \* what select returned and the iterator, or NoPass
          go,       \* go_
          fatal     \* a CHECK has failed

vars == <<fds, clock, rough, event, pass, go, fatal>>

NoPass == [on |-> FALSE, readers |-> {}, writers |-> {}, at |-> 0]

\* The FD's constructor; a deque takes it at the end.
FD(number, kind, now) ==
    [fd |-> number, kind |-> kind, wants_erase |-> FALSE, last |-> now, wbuffer |-> FALSE]

CanDrop(f) == f.kind = "server"

Init ==
    /\ fds = <<FD(0, "listener", 0)>>
    /\ clock = 0 /\ rough = 0 /\ event = 0
    /\ pass = NoPass
    /\ go = TRUE
    /\ fatal = FALSE

WantsWrite(f) == f.kind = "server" /\ f.wbuffer

Numbers == {fds[i].fd : i \in DOMAIN fds}

----------------------------------------------------------------------------

\* ProcessRepeatedEvents: the event runs when its time has come, and the next
\* alarm is in the future.
Trigger(last) == last + Frequency

EventAfter(now) == IF Trigger(event) <= now THEN now ELSE event

\* OneLoop up to select, which returns the descriptors that are ready; with
\* one that is closed it fails.  None is ready when the time is over.
Select(readers, writers) ==
    /\ go /\ ~fatal /\ ~pass.on
    /\ event' = EventAfter(clock)
    /\ rough' = clock
    /\ fatal' = \/ Trigger(event') <= clock
                \/ \E i \in DOMAIN fds : fds[i].wants_erase
    /\ pass' = IF readers \cup writers = {} THEN NoPass
               ELSE [on |-> TRUE, readers |-> readers, writers |-> writers, at |-> 1]
    /\ UNCHANGED <<fds, clock, go>>

\* EraseCheck, for the descriptor the iterator is at.
EraseCheck(seq) ==
    IF seq[pass.at].wants_erase
    THEN SubSeq(seq, 1, pass.at - 1) \o SubSeq(seq, pass.at + 1, Len(seq))
    ELSE seq

Close(f) == [f EXCEPT !.wants_erase = TRUE]

Active(f) == [f EXCEPT !.last = rough]

\* The iterator moves on unless the element under it is gone.
Advance(seq) ==
    pass' = LET at == IF Len(seq) < Len(fds) THEN pass.at ELSE pass.at + 1
            IN  IF at > Len(seq) THEN NoPass ELSE [pass EXCEPT !.at = at]

Here == fds[pass.at]
Reads == pass.on /\ Here.fd \in pass.readers
Writes == pass.on /\ Here.fd \in pass.writers

\* Erased, or passed over.
Skip ==
    /\ ~fatal /\ pass.on
    /\ Here.wants_erase \/ (~Reads /\ ~Writes)
    /\ LET seq == EraseCheck(fds) IN fds' = seq /\ Advance(seq)
    /\ UNCHANGED <<clock, rough, event, go, fatal>>

\* Server::WriteIsAllowed and then, if it may, Server::ReadIsAllowed; each
\* closes the connection when the call fails.
ServerIsAllowed(wrote, read, answers) ==
    /\ ~fatal /\ pass.on /\ Here.kind = "server" /\ ~Here.wants_erase /\ (Reads \/ Writes)
    /\ LET written == IF Writes /\ ~wrote THEN Close(Here)
                      ELSE [Here EXCEPT !.wbuffer = @ /\ ~Writes]
           done == IF ~Reads \/ written.wants_erase THEN written
                   ELSE IF ~read THEN Close(written)
                   ELSE [written EXCEPT !.wbuffer = @ \/ answers]
           seq == EraseCheck([fds EXCEPT ![pass.at] = Active(done)])
       IN  fds' = seq /\ Advance(seq)
    /\ UNCHANGED <<clock, rough, event, go, fatal>>

\* MaybeDropOne: the one that was idle for longest.
Droppable == {i \in DOMAIN fds : CanDrop(fds[i]) /\ fds[i].last < rough - kIdleTime}

MaybeDropOne(seq) ==
    IF Droppable = {} THEN seq
    ELSE LET drop == CHOOSE i \in Droppable :
                        \A j \in Droppable : seq[i].last < seq[j].last
                                             \/ (seq[i].last = seq[j].last /\ i <= j)
         IN  [seq EXCEPT ![drop] = Close(@)]

WillAccept(number) == number < kFDLimit

\* accept() returns the lowest free number.
Lowest == CHOOSE n \in 0..Cardinality(Numbers) :
             n \notin Numbers /\ \A k \in 0..(n - 1) : k \in Numbers

\* Listener::ReadIsAllowed; Accepted adds a connection to the loop.
ListenerReadIsAllowed ==
    /\ ~fatal /\ pass.on /\ Here.kind = "listener" /\ Reads
    /\ LET in == Lowest
           kept == IF in >= kFDLimit - kFDLimitWindow THEN MaybeDropOne(fds) ELSE fds
           seq == [kept EXCEPT ![pass.at] = Active(@)]
       IN  /\ fds' = IF WillAccept(in) THEN Append(seq, FD(in, "server", rough)) ELSE seq
           /\ Advance(fds)
    /\ UNCHANGED <<clock, rough, event, go, fatal>>

Stop ==
    /\ go /\ ~pass.on
    /\ go' = FALSE
    /\ UNCHANGED <<fds, clock, rough, event, pass, fatal>>

Tick ==
    /\ clock < MaxTime
    /\ clock' = clock + 1
    /\ UNCHANGED <<fds, rough, event, pass, go, fatal>>

Writable == {fds[i].fd : i \in {j \in DOMAIN fds : WantsWrite(fds[j])}}

Next ==
    \/ /\ ~pass.on
       /\ \E readers \in SUBSET Numbers, writers \in SUBSET Writable : Select(readers, writers)
    \/ Skip
    \/ \E wrote, read, answers \in BOOLEAN : ServerIsAllowed(wrote, read, answers)
    \/ ListenerReadIsAllowed
    \/ Stop
    \/ Tick

Spec == Init /\ [][Next]_vars

----------------------------------------------------------------------------

(***************************************************************************)
(* select never sees a closed descriptor (DCHECK(!fd->WantsErase())), and  *)
(* no CHECK of OneLoop fails: what MaybeDropOne or a handler closes during *)
(* a pass is erased in the same pass.  It depends on the listener being in *)
(* front of the connections it accepts.                                    *)
(***************************************************************************)
NoneClosed == ~pass.on => ~fatal /\ \A i \in DOMAIN fds : ~fds[i].wants_erase

(***************************************************************************)
(* The walk touches every descriptor that was there once: erasing, adding  *)
(* and dropping during it leave no descriptor twice in the deque and none  *)
(* above the limit.                                                        *)
(***************************************************************************)
WithinLimit ==
    /\ \A i, j \in DOMAIN fds : fds[i].fd = fds[j].fd => i = j
    /\ \A i \in DOMAIN fds : fds[i].fd < kFDLimit

(***************************************************************************)
(* A connection that is active is not dropped: only one that has had no    *)
(* activity for kIdleTime is closed to make room for another.              *)
(***************************************************************************)
ActiveStay ==
    \A i \in DOMAIN fds :
       pass.on /\ i # pass.at /\ i \in DOMAIN fds' /\ fds'[i].fd = fds[i].fd
          /\ fds'[i].wants_erase /\ ~fds[i].wants_erase =>
             clock - fds[i].last > kIdleTime
=============================================================================
