------------------------------ MODULE LogClient ------------------------------
(***************************************************************************)
(* The client of a log: the requests and the response handlers of          *)
(* client/async_log_client.cc, and the synchronous calls                   *)
(* client/http_log_client.cc makes of them.                                *)
(*                                                                         *)
(* A response is what its handler tells apart: whether the fetch and the   *)
(* status are good, whether the body parses, whether the fields are there  *)
(* and in range, and for each element of its list whether it is good.      *)
(***************************************************************************)
EXTENDS Integers, Sequences, SequencesExt, FiniteSets

CONSTANTS Caller,    \* threads, each with a client and an event base of its own
          MaxItems,  \* bounds the lists in responses
          MaxSize    \* bounds the log's tree

VARIABLES logSize,   \* the log's tree, which grows
          call,      \* caller -> the call it is in
          out,       \* caller -> the out-parameter of the call
          done,      \* caller -> the callback's status, once it has been called
          fatal      \* the CHECK that failed

vars == <<logSize, call, out, done, fatal>>

None == "none"
NoOut == [size |-> -1, items |-> <<>>]

\* The operations whose response has a list, and those with other fields.
HasList(op) == op \notin {"GetSTH", "AddChain"}
HasFields(op) == op \in {"GetSTH", "AddChain", "QueryInclusionProof"}

Idle == [op |-> None, at |-> "idle", size |-> -1, result |-> None]

Init ==
    /\ logSize = 0
    /\ call = [c \in Caller |-> Idle]
    /\ out = [c \in Caller |-> NoOut]
    /\ done = [c \in Caller |-> None]
    /\ fatal = None

Items == UNION {[1 .. n -> {"good", "bad"}] : n \in 0 .. MaxItems}

Responses(op) ==
    {[ok |-> FALSE, json |-> FALSE, fields |-> FALSE, size |-> 0, items |-> <<>>],
     [ok |-> TRUE, json |-> FALSE, fields |-> FALSE, size |-> 0, items |-> <<>>]}
    \cup [ok : {TRUE}, json : {TRUE},
          fields : IF HasFields(op) THEN BOOLEAN ELSE {TRUE},
          size : {logSize}, items : IF HasList(op) THEN Items ELSE {<<>>}]

----------------------------------------------------------------------------
(* The response handlers: a status, and what is written to the             *)
(* out-parameter.                                                          *)

Result(status, value) == [status |-> status, value |-> value]

\* Whether the fetch succeeded with HTTP_OK.
SanityCheck(resp) == resp.ok

AllGood(items) == \A i \in DOMAIN items : items[i] = "good"

\* The body is an object with the fields of a head, the integers in it are not
\* negative and the signature parses.
DoneGetSTH(resp, before) ==
    IF ~resp.json \/ ~resp.fields THEN Result("BAD_RESPONSE", before)
    ELSE Result("OK", [before EXCEPT !.size = resp.size])

DoneInternalAddChain(resp, before) ==
    IF ~resp.json \/ ~resp.fields THEN Result("BAD_RESPONSE", before)
    ELSE Result("OK", [before EXCEPT !.size = 0])

\* The list replaces the caller's.
DoneGetRoots(resp, before) ==
    IF ~resp.json \/ ~AllGood(resp.items) THEN Result("BAD_RESPONSE", before)
    ELSE Result("OK", [before EXCEPT !.items = resp.items])

\* The entries are added to the caller's, all of them or none.
DoneGetEntries(resp, before) ==
    IF ~resp.json \/ ~AllGood(resp.items) THEN Result("BAD_RESPONSE", before)
    ELSE Result("OK", [before EXCEPT !.items = @ \o resp.items])

DoneGetSTHConsistency(resp, before) ==
    IF ~resp.json \/ ~AllGood(resp.items) THEN Result("BAD_RESPONSE", before)
    ELSE Result("OK", [before EXCEPT !.items = @ \o resp.items])

\* The proof is for the head that was asked about.
ProofSize(resp, asked) == asked

\* A path node that is not a string fails a CHECK.
DoneQueryInclusionProof(resp, asked, before) ==
    IF ~resp.json \/ ~resp.fields THEN Result("BAD_RESPONSE", before)
    ELSE IF ~AllGood(resp.items) THEN Result("FATAL", before)
    ELSE Result("OK", [size |-> ProofSize(resp, asked), items |-> resp.items])

Handle(op, resp, asked, before) ==
    IF ~SanityCheck(resp) THEN Result("UNKNOWN_ERROR", before)
    ELSE CASE op = "GetSTH" -> DoneGetSTH(resp, before)
           [] op = "GetRoots" -> DoneGetRoots(resp, before)
           [] op = "GetEntries" -> DoneGetEntries(resp, before)
           [] op = "QueryInclusionProof" ->
                DoneQueryInclusionProof(resp, asked, before)
           [] op = "GetSTHConsistency" -> DoneGetSTHConsistency(resp, before)
           [] op = "AddChain" -> DoneInternalAddChain(resp, before)

----------------------------------------------------------------------------

Request(c, op, size, result) ==
    /\ call' = [call EXCEPT ![c] = [op |-> op, at |-> "sent", size |-> size,
                                    result |-> result]]
    /\ out' = [out EXCEPT ![c] = NoOut]
    /\ done' = [done EXCEPT ![c] = None]

\* The callback runs before the request method returns.
InvalidInput(c, op) ==
    /\ call' = [call EXCEPT ![c] = [op |-> op, at |-> "sent", size |-> -1,
                                    result |-> None]]
    /\ out' = [out EXCEPT ![c] = NoOut]
    /\ done' = [done EXCEPT ![c] = "INVALID_INPUT"]

(* The requests of AsyncLogClient. *)
AsyncGetSTH(c, then) == Request(c, "GetSTH", -1, then)
AsyncGetRoots(c) == Request(c, "GetRoots", -1, None)
AsyncGetSTHConsistency(c) == Request(c, "GetSTHConsistency", -1, None)
QueryInclusionProof(c, size) == Request(c, "QueryInclusionProof", size, None)

\* The last index may be before the first.
InternalGetEntries(c, valid) ==
    IF valid THEN Request(c, "GetEntries", -1, None) ELSE InvalidInput(c, "GetEntries")

\* The chain may not have loaded.
InternalAddChain(c, loaded) ==
    IF loaded THEN Request(c, "AddChain", -1, None) ELSE InvalidInput(c, "AddChain")

(* The calls of HTTPLogClient: the request is sent, and the caller dispatches *)
(* events until the callback has run.                                         *)
Free(c) == fatal = None /\ call[c].at \in {"idle", "returned"}

GetSTH(c) == Free(c) /\ AsyncGetSTH(c, None) /\ UNCHANGED <<logSize, fatal>>

GetRoots(c) == Free(c) /\ AsyncGetRoots(c) /\ UNCHANGED <<logSize, fatal>>

GetSTHConsistency(c) ==
    Free(c) /\ AsyncGetSTHConsistency(c) /\ UNCHANGED <<logSize, fatal>>

\* A head first.
QueryAuditProof(c) == Free(c) /\ AsyncGetSTH(c, "proof") /\ UNCHANGED <<logSize, fatal>>

GetEntries(c, valid) ==
    Free(c) /\ InternalGetEntries(c, valid) /\ UNCHANGED <<logSize, fatal>>

UploadSubmission(c, loaded) ==
    Free(c) /\ InternalAddChain(c, loaded) /\ UNCHANGED <<logSize, fatal>>

\* The response is handled on the caller's event base.
DoneRequest(c) ==
    /\ fatal = None /\ call[c].at = "sent" /\ done[c] = None
    /\ \E resp \in Responses(call[c].op) :
          LET r == Handle(call[c].op, resp, call[c].size, out[c]) IN
          IF r.status = "FATAL"
          THEN fatal' = "CHECK(path_node.Ok())"
               /\ UNCHANGED <<out, done>>
          ELSE /\ out' = [out EXCEPT ![c] = r.value]
               /\ done' = [done EXCEPT ![c] = r.status]
               /\ UNCHANGED fatal
    /\ UNCHANGED <<logSize, call>>

\* The caller sees done: an error becomes UNKNOWN, and with a head the second
\* half of QueryAuditProof follows.
Return(c) ==
    /\ fatal = None /\ call[c].at = "sent" /\ done[c] # None
    /\ IF call[c].result = "proof" /\ done[c] = "OK"
       THEN QueryInclusionProof(c, out[c].size)
       ELSE /\ call' = [call EXCEPT ![c].at = "returned",
                          ![c].result = IF done[c] = "OK" THEN "OK" ELSE "UNKNOWN"]
            /\ UNCHANGED <<out, done>>
    /\ UNCHANGED <<logSize, fatal>>

\* External.
LogGrows ==
    /\ fatal = None /\ logSize < MaxSize
    /\ logSize' = logSize + 1
    /\ UNCHANGED <<call, out, done, fatal>>

Next ==
    \/ \E c \in Caller : GetSTH(c) \/ GetRoots(c) \/ GetSTHConsistency(c) \/ QueryAuditProof(c)
    \/ \E c \in Caller, b \in BOOLEAN : GetEntries(c, b) \/ UploadSubmission(c, b)
    \/ \E c \in Caller : DoneRequest(c)
    \/ \E c \in Caller : Return(c)
    \/ LogGrows

Spec == Init /\ [][Next]_vars

----------------------------------------------------------------------------

(***************************************************************************)
(* A response counts in full or not at all: when a call ends in an error,  *)
(* whatever part of the response was good has not reached the caller's     *)
(* out-parameter (the handlers parse into locals and swap or move last).   *)
(***************************************************************************)
AllOrNothing ==
    \A c \in Caller :
        done[c] \notin {None, "OK"} => out[c] = NoOut

(***************************************************************************)
(* The proof QueryAuditProof returns is labelled with the head it fetched  *)
(* first, although the log may have grown between the two requests: a      *)
(* proof is never presented with the size of a tree it was not asked for.  *)
(***************************************************************************)
ProofFitsHead ==
    \A c \in Caller :
        call[c].op = "QueryInclusionProof" /\ done[c] = "OK" =>
            out[c].size = call[c].size /\ out[c].size <= logSize
=============================================================================
