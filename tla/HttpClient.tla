----------------------------- MODULE HttpClient -----------------------------
(***************************************************************************)
(* The HTTP client every other part uses: UrlFetcher (net/url_fetcher.cc), *)
(* the pool its connections come from (net/connection_pool.cc) and the     *)
(* event loop both run on (util/libevent_wrapper.cc).                      *)
(*                                                                         *)
(* MakeRequest takes a connection on a thread of the thread pool; all the  *)
(* rest happens on the event thread, which runs the closures Base::Add     *)
(* queues and the hooks of libevhtp.  ConnectionPool::lock_ is held for    *)
(* the whole of Get, but the hook that kills a connection does not take    *)
(* it: Get is two steps here.  libevhtp and the servers are external.      *)
(***************************************************************************)
EXTENDS Naturals, Sequences, SequencesExt, FiniteSets

CONSTANTS Request,     \* the fetches
          Connection,  \* bounds the connections there are at a time
          Host,        \* the host and port of a request
          MaxUnused    \* --url_fetcher_max_conn_per_host_port

VARIABLES fetch,       \* request -> its State: where it is, its connection
          opened,      \* connection -> EvConnection
          conns,       \* ConnectionPool::conns_
          sweeper,     \* the request whose Get holds lock_
          scheduled,   \* ConnectionPool::cleanup_scheduled_
          closures,    \* Base::closures_
          finishing,   \* the connection libevhtp is about to free
          fatal        \* the CHECK that failed

vars == <<fetch, opened, conns, sweeper, scheduled, closures, finishing, fatal>>

None == "none"
Cleaning == "Cleanup"

NoFetch == [at |-> "new", host |-> None, conn |-> None, status |-> None]

\* An EvConnection: whether libevhtp still has it, and what runs on it.
Unopened == [live |-> FALSE, errored |-> FALSE, request |-> None, host |-> None]

Init ==
    /\ fetch = [r \in Request |-> NoFetch]
    /\ opened = [c \in Connection |-> Unopened]
    /\ conns = [h \in Host |-> <<>>]
    /\ sweeper = None
    /\ scheduled = FALSE
    /\ closures = <<>>
    /\ finishing = None
    /\ fatal = None

\* The event thread is free to take the next closure or event.
OnEventThread == finishing = None /\ fatal = None

Unlocked == sweeper = None

Return(r, status) ==
    [fetch EXCEPT ![r] = [@ EXCEPT !.at = "done", !.status = status,
                                   !.conn = None]]

----------------------------------------------------------------------------

\* How many handles there are to a connection: in the pool and in requests.
Handles(c) ==
    Cardinality({r \in Request : fetch[r].conn = c})
      + Cardinality({<<h, i>> \in Host \X (1 .. Cardinality(Connection)) :
                        i <= Len(conns[h]) /\ conns[h][i] = c})

\* Fetch queues MakeRequest on the thread pool.
Fetch(r, h) ==
    /\ fatal = None /\ fetch[r].at \in {"new", "done"}
    /\ fetch' = [fetch EXCEPT ![r] = [NoFetch EXCEPT !.at = "making",
                                                          !.host = h]]
    /\ UNCHANGED <<opened, conns, sweeper, scheduled, closures, finishing, fatal>>

\* The state of a request with another protocol returns the task, but MakeRequest
\* is queued all the same, and Get checks the protocol.
FetchUnsupported(r) ==
    /\ fatal = None /\ fetch[r].at \in {"new", "done"}
    /\ fetch' = Return(r, "INVALID_ARGUMENT")
    /\ fatal' = "CHECK(url.Protocol())"
    /\ UNCHANGED <<opened, conns, sweeper, scheduled, closures, finishing>>

RemoveDeadConnectionsFromDeque(deque, isOpen) ==
    SelectSeq(deque, LAMBDA c : isOpen[c].live)

\* MakeRequest, as far as the sweep in Get.
Get(r) ==
    /\ fatal = None /\ fetch[r].at = "making" /\ Unlocked
    /\ sweeper' = r
    /\ conns' = [conns EXCEPT ![fetch[r].host] =
                    RemoveDeadConnectionsFromDeque(@, opened)]
    /\ UNCHANGED <<fetch, opened, scheduled, closures, finishing, fatal>>

\* Base::Add.
Add(closure) == Append(closures, closure)

\* The connection in hand, RunRequest is queued on the event thread.
Obtained(r, c) ==
    /\ fetch' = [fetch EXCEPT ![r] = [@ EXCEPT !.at = "queued", !.conn = c]]
    /\ closures' = Add(r)

\* The rest of Get: the last of the cached connections, or a new one.
GetNew(r) ==
    /\ fatal = None /\ sweeper = r /\ conns[fetch[r].host] = <<>>
    /\ \E c \in Connection :
          /\ ~opened[c].live /\ Handles(c) = 0
          /\ opened' = [opened EXCEPT ![c] = [live |-> TRUE, errored |-> FALSE,
                                  request |-> None, host |-> fetch[r].host]]
          /\ Obtained(r, c)
    /\ sweeper' = None
    /\ UNCHANGED <<conns, scheduled, finishing, fatal>>

\* Mutant: the connection stays in the deque.
RemainingAll(deque) == deque

Remaining(deque) == Front(deque)

GetCached(r) ==
    /\ fatal = None /\ sweeper = r /\ conns[fetch[r].host] # <<>>
    /\ LET c == Last(conns[fetch[r].host]) IN
       IF opened[c].live
       THEN /\ Obtained(r, c)
            /\ conns' = [conns EXCEPT ![fetch[r].host] = Remaining(@)]
            /\ UNCHANGED fatal
       ELSE /\ fatal' = "CHECK_NOTNULL(retval->connection())"
            /\ UNCHANGED <<fetch, closures, conns>>
    /\ sweeper' = None
    /\ UNCHANGED <<opened, scheduled, finishing>>

----------------------------------------------------------------------------

Reusable(conn) == conn.live /\ ~conn.errored

\* A handle that is dead or has failed is dropped, the others are cached, and
\* too many of them schedule a clean-up, once.  queue is closures_ before it.
Put(c, isOpen, queue) ==
    LET deque == Append(conns[isOpen[c].host], c)
        clean == ~scheduled /\ Len(deque) > MaxUnused
    IN IF ~Reusable(isOpen[c])
       THEN closures' = queue /\ UNCHANGED <<conns, scheduled>>
       ELSE /\ conns' = [conns EXCEPT ![isOpen[c].host] = deque]
            /\ scheduled' = (scheduled \/ clean)
            /\ closures' = IF clean THEN Append(queue, Cleaning) ELSE queue

\* The next closure is RunRequest of r: on a connection that died on the way
\* there is nothing to send.
RunRequestUnavailable(r) ==
    /\ OnEventThread /\ closures # <<>> /\ closures[1] = r
    /\ ~Reusable(opened[fetch[r].conn])
    /\ fetch' = Return(r, "UNAVAILABLE")
    /\ closures' = Tail(closures)
    /\ UNCHANGED <<opened, conns, sweeper, scheduled, finishing, fatal>>

\* evhtp_make_request fails: the connection goes back to the pool.
RunRequestFails(r) ==
    /\ OnEventThread /\ Unlocked /\ closures # <<>> /\ closures[1] = r
    /\ LET c == fetch[r].conn IN
       /\ Reusable(opened[c])
       /\ Put(c, opened, Tail(closures))
    /\ fetch' = Return(r, "INTERNAL")
    /\ UNCHANGED <<opened, sweeper, finishing, fatal>>

\* The body cannot be added: the task returns with the connection still in the
\* state, whose destructor checks that it has none.
RunRequestBodyFails(r) ==
    /\ OnEventThread /\ closures # <<>> /\ closures[1] = r
    /\ Reusable(opened[fetch[r].conn])
    /\ fatal' = "CHECK(!conn_)"
    /\ UNCHANGED <<fetch, opened, conns, sweeper, scheduled, closures, finishing>>

RunRequest(r) ==
    /\ OnEventThread /\ closures # <<>> /\ closures[1] = r
    /\ LET c == fetch[r].conn IN
       /\ Reusable(opened[c])
       /\ opened' = [opened EXCEPT ![c].request = r]
    /\ fetch' = [fetch EXCEPT ![r].at = "sent"]
    /\ closures' = Tail(closures)
    /\ UNCHANGED <<conns, sweeper, scheduled, finishing, fatal>>

\* RequestDone: the connection is put back, then the task returns.
RequestDone(r, isOpen, status) ==
    /\ Unlocked
    /\ Put(fetch[r].conn, isOpen, closures)
    /\ fetch' = Return(r, status)

\* The answer arrives; UNKNOWN is the null request of a parse error.
RequestCallback(c, status) ==
    /\ OnEventThread /\ opened[c].request # None
    /\ opened' = [opened EXCEPT ![c].request = None]
    /\ RequestDone(opened[c].request, opened', status)
    /\ UNCHANGED <<sweeper, finishing, fatal>>

StatusOfFlags(flags) ==
    CASE flags = "EOF" -> "OK"
      [] flags = "TIMEOUT" -> "DEADLINE_EXCEEDED"
      [] flags = "SSL" -> "UNAVAILABLE"
      [] flags = "ERROR" -> "UNAVAILABLE"

CallRequest(c, isOpen, flags) ==
    IF opened[c].request # None
    THEN RequestDone(opened[c].request, isOpen, StatusOfFlags(flags))
    ELSE UNCHANGED <<fetch, conns, scheduled, closures>>

\* ConnectionErrorHook, on a connection that is in use, waiting or cached.
ConnectionErrorHook(c, flags) ==
    /\ OnEventThread /\ opened[c].live
    /\ opened' = [opened EXCEPT ![c].errored = TRUE, ![c].request = None]
    /\ CallRequest(c, opened', flags)
    /\ finishing' = c
    /\ UNCHANGED <<sweeper, fatal>>

\* ConnectionFinishedHook follows on the same thread; other threads may run in
\* between.
ConnectionFinishedHook(c) ==
    /\ fatal = None /\ finishing = c
    /\ opened' = [opened EXCEPT ![c].live = FALSE]
    /\ finishing' = None
    /\ UNCHANGED <<fetch, conns, sweeper, scheduled, closures, fatal>>

\* Old connections, which are at the front, go while there are too many.  The
\* front of an empty deque is read, but its age then decides nothing.
Pruned(deque, old) ==
    LET excess == IF Len(deque) > MaxUnused THEN Len(deque) - MaxUnused ELSE 0
    IN SubSeq(deque, (IF old < excess THEN old ELSE excess) + 1, Len(deque))

\* Cleanup resets cleanup_scheduled_ first.
ScheduledAfter(before) == FALSE

Cleanup ==
    /\ OnEventThread /\ Unlocked /\ closures # <<>> /\ closures[1] = Cleaning
    /\ \E old \in [Host -> 0 .. Cardinality(Connection)] :
          conns' = [h \in Host |->
              Pruned(RemoveDeadConnectionsFromDeque(conns[h], opened), old[h])]
    /\ scheduled' = ScheduledAfter(scheduled)
    /\ closures' = Tail(closures)
    /\ UNCHANGED <<fetch, opened, sweeper, finishing, fatal>>

Hook ==
    \/ \E c \in Connection, status \in {"OK", "UNKNOWN"} : RequestCallback(c, status)
    \/ \E c \in Connection, flags \in {"EOF", "TIMEOUT", "SSL", "ERROR"} :
          ConnectionErrorHook(c, flags)
    \/ \E c \in Connection : ConnectionFinishedHook(c)

Next ==
    \/ \E r \in Request, h \in Host : Fetch(r, h)
    \/ \E r \in Request : FetchUnsupported(r)
    \/ \E r \in Request : Get(r)
    \/ \E r \in Request : GetNew(r)
    \/ \E r \in Request : GetCached(r)
    \/ \E r \in Request : RunRequestUnavailable(r)
    \/ \E r \in Request : RunRequestFails(r)
    \/ \E r \in Request : RunRequestBodyFails(r)
    \/ \E r \in Request : RunRequest(r)
    \/ Hook
    \/ Cleanup

\* Steps to be fair to: Get goes on, the closure of a request runs, a request is
\* answered or its connection runs into the timeouts Get has set on it, as one
\* does that nobody has any more.
GetRest(r) == GetCached(r) \/ GetNew(r)
RunAny(r) == RunRequestUnavailable(r) \/ RunRequestFails(r) \/ RunRequest(r)
Settle(r) ==
    \E c \in Connection : /\ opened[c].request = r
                          /\ RequestCallback(c, "OK") \/ ConnectionErrorHook(c, "TIMEOUT")
Orphaned(c) == Handles(c) = 0 /\ ConnectionErrorHook(c, "TIMEOUT")

Spec == Init /\ [][Next]_vars

----------------------------------------------------------------------------

\* The types of the state.
TypeOK ==
    /\ \A r \in Request : fetch[r].conn \in Connection \cup {None}
    /\ \A h \in Host : conns[h] \in Seq(Connection)
    /\ closures \in Seq(Request \cup {Cleaning})
    /\ scheduled \in BOOLEAN

(***************************************************************************)
(* A connection has one user: at most one handle to it exists, in the pool *)
(* or in a request, whatever fails on the way, and the request libevhtp    *)
(* runs on it is the one that holds it (Get, Put, RequestDone).            *)
(***************************************************************************)
OneUser ==
    \A c \in Connection :
        /\ Handles(c) <= 1
        /\ opened[c].request # None => fetch[opened[c].request].conn = c

(***************************************************************************)
(* A connection that failed in use is not put back: only one that failed   *)
(* while it was cached, or while Put was still to come, is in the pool     *)
(* when it is dead (Put's two early returns).                              *)
(***************************************************************************)
FailedNotCached ==
    \A h \in Host :
       Len(conns'[h]) > Len(conns[h]) =>
          ~opened'[Last(conns'[h])].errored

(***************************************************************************)
(* The pool can always be cleaned up: cleanup_scheduled_ is set exactly    *)
(* while a Cleanup is queued, so that a flag left behind never stops the   *)
(* next Put from scheduling one.                                           *)
(***************************************************************************)
CleanupIsQueued == scheduled <=> Cleaning \in ToSet(closures)

\* The request has its answer, unless the process died.
Ended(r) == fetch[r].at \in {"new", "done"} \/ fatal # None
=============================================================================
