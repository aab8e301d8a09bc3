------------------------------ MODULE Auditing ------------------------------
(***************************************************************************)
(* The client side of an SCT: uploading a certificate, the TLS handshake   *)
(* with a server that presents it, and the audit of what the handshake     *)
(* saved (client/ct.cc, client/ssl_client.cc, client/client.cc and the     *)
(* checks of log/log_verifier.cc).  The log is honest: it signs SCTs and   *)
(* merges their entries later.                                             *)
(***************************************************************************)
EXTENDS Naturals, Sequences, FiniteSets

CONSTANTS Cert,        \* certificates of the TLS server
          MaxTime      \* bounds the clock

VARIABLES clock,   \* of the log and of the client
          issued,  \* SCTs of the log
          sth,     \* the log's tree head: its leaves, each an SCT's, and time
          connected, \* connected_ of the SSLClient
          args,    \* its VerifyCallbackArgs
          peer,    \* the entry of the certificate of the last handshake
          saved,   \* the ct_data_out file
          audit,   \* the result of the last audit
          fatal    \* a CHECK has failed

vars == <<clock, issued, sth, connected, args, peer, saved, audit, fatal>>

\* A certificate with an embedded list is logged as a precertificate.
Entry == [cert : Cert, precert : BOOLEAN]
NoEntry == [cert |-> "none", precert |-> FALSE]

\* A token of a list: an SCT of the log, or one the verifier cannot read.
Garbled == [entry |-> NoEntry, time |-> 0]
Tokens == issued \cup {Garbled}

NoData == [entry |-> NoEntry, scts |-> {}]
FreshArgs == [sct_verified |-> FALSE, require_sct |-> FALSE, ct_extension |-> {}, data |-> NoData]

Init ==
    /\ clock = 0
    /\ issued = {} /\ sth = [leaves |-> {}, time |-> 0]
    /\ connected = FALSE
    /\ args = FreshArgs
    /\ peer = NoEntry
    /\ saved = NoData
    /\ audit = "none"
    /\ fatal = FALSE

----------------------------------------------------------------------------
(* The log. *)

Tick ==
    /\ clock < MaxTime
    /\ clock' = clock + 1
    /\ UNCHANGED <<issued, sth, connected, args, peer, saved, audit, fatal>>

\* Every leaf of a head is at most as old as the head.
Sign(leaves) ==
    /\ leaves \subseteq issued /\ sth.leaves \subseteq leaves /\ leaves # sth.leaves
    /\ sth' = [leaves |-> leaves, time |-> clock]
    /\ UNCHANGED <<clock, issued, connected, args, peer, saved, audit, fatal>>

----------------------------------------------------------------------------
(* LogVerifier, whose clock allows a second of slack. *)

Slack == 1

IsBetween(t, earliest, latest) == t >= earliest /\ t <= latest

VerifySignedCertificateTimestamp(entry, sct) ==
    IsBetween(sct.time, 0, clock + Slack) /\ sct \in issued /\ sct.entry = entry

\* The head is made of the proof: its root from the leaf and the path.
VerifyMerkleAuditProof(entry, sct, proof) ==
    /\ IsBetween(proof.time, sct.time, clock + Slack)
    /\ [sct EXCEPT !.entry = entry] \in proof.leaves

----------------------------------------------------------------------------
(* The handshake. *)

\* VerifyCallback: the embedded list, else that of a superfluous certificate,
\* else the extension of the handshake.
SerializedScts(p, a) ==
    IF p.embedded # {} THEN p.embedded
    ELSE IF p.attached # {} THEN p.attached
    ELSE a.ct_extension

\* X509ChainToEntry.
Reconstructed(p) == [cert |-> p.cert, precert |-> p.embedded # {}]

\* VerifySCT, for each of the list.
Verified(p, a) ==
    {s \in SerializedScts(p, a) : VerifySignedCertificateTimestamp(Reconstructed(p), s)}

VerifyCallback(p, a) ==
    IF SerializedScts(p, a) = {} THEN a
    ELSE [a EXCEPT !.data = [entry |-> Reconstructed(p), scts |-> @.scts \cup Verified(p, a)],
                   !.sct_verified = @ \/ Verified(p, a) # {}]

\* ct_extension is not reset.
ResetVerifyCallbackArgs(a, strict) ==
    [a EXCEPT !.sct_verified = FALSE, !.require_sct = strict, !.data = NoData]

\* ExtensionCallback, when the server sends the extension.
ExtensionCallback(p, a) ==
    IF p.extension = {} THEN a ELSE [a EXCEPT !.ct_extension = p.extension]

\* A server that cannot be reached changes nothing.
SSLConnect(strict, p) ==
    /\ ~fatal /\ ~connected
    /\ LET reset == ResetVerifyCallbackArgs(args, strict)
           heard == ExtensionCallback(p, reset)
           checked == IF p.valid THEN VerifyCallback(p, heard) ELSE heard
       IN  /\ fatal' = (p.extension # {} /\ args.ct_extension # {})
           /\ args' = checked
           /\ peer' = Reconstructed(p)
           /\ connected' = (p.valid /\ (strict => checked.sct_verified))
    /\ UNCHANGED <<clock, issued, sth, saved, audit>>

\* Client::Connect checks that it is not connected.
ConnectTwice ==
    /\ ~fatal /\ connected
    /\ fatal' = TRUE
    /\ UNCHANGED <<clock, issued, sth, connected, args, peer, saved, audit>>

Disconnect ==
    /\ ~fatal /\ connected
    /\ connected' = FALSE
    /\ UNCHANGED <<clock, issued, sth, args, peer, saved, audit, fatal>>

\* ct.cc's Connect: GetSSLClientCTData, written where there is an SCT.
WriteSSLClientCTData ==
    /\ ~fatal /\ connected /\ args.data.scts # {}
    /\ saved' = args.data
    /\ UNCHANGED <<clock, issued, sth, connected, args, peer, audit, fatal>>

----------------------------------------------------------------------------
(* The other commands. *)

\* The entry of a certificate with an embedded list is made with its issuer;
\* what the log signed for it then verifies.
CheckSCT(entry, issuer) == entry.precert => issuer

\* Upload: the log signs an SCT, and the client checks it.  That of a
\* precertificate without its issuer it does not check.
Upload(entry, issuer) ==
    /\ ~fatal
    /\ ~\E s \in issued : s.entry = entry
    /\ issued' = issued \cup {[entry |-> entry, time |-> clock]}
    /\ fatal' \in {FALSE, ~CheckSCT(entry, issuer)}
    /\ UNCHANGED <<clock, sth, connected, args, peer, saved, audit>>

\* Audit: a proof of one of the SCTs is enough.
Audit ==
    /\ ~fatal /\ saved.scts # {}
    /\ audit' = IF \E s \in saved.scts :
                      s \in sth.leaves /\ VerifyMerkleAuditProof(saved.entry, s, sth)
                THEN "PROOF_OK" ELSE "PROOF_NOT_FOUND"
    /\ UNCHANGED <<clock, issued, sth, connected, args, peer, saved, fatal>>

\* The server sends a list, in one or two of the three ways; one attached to a
\* certificate that has another embedded is not looked at, and neither is that of a
\* chain that is not valid.
Lists == {l \in SUBSET Tokens : Cardinality(l) <= 1}
Ways == {{"embedded"}, {"attached"}, {"extension"}, {"embedded", "extension"},
         {"attached", "extension"}}

Next ==
    \/ Tick
    \/ \E leaves \in SUBSET issued : Sign(leaves)
    \/ \E entry \in Entry, issuer \in BOOLEAN : Upload(entry, issuer)
    \/ /\ ~fatal /\ ~connected
       /\ \E strict, valid \in BOOLEAN, c \in Cert, list \in Lists, ways \in Ways :
             /\ (valid /\ list # {}) \/ ways = {"extension"}
             /\ SSLConnect(strict, [cert |-> c, valid |-> valid,
                                    embedded |-> IF "embedded" \in ways THEN list ELSE {},
                                    attached |-> IF "attached" \in ways THEN list ELSE {},
                                    extension |-> IF "extension" \in ways THEN list ELSE {}])
    \/ ConnectTwice
    \/ Disconnect
    \/ WriteSSLClientCTData
    \/ Audit

Spec == Init /\ [][Next]_vars

----------------------------------------------------------------------------

(***************************************************************************)
(* What a connection claims is about the certificate of its own handshake: *)
(* the SCTs it hands out were signed by the log for that certificate, and  *)
(* one that required an SCT has one, whatever earlier handshakes of the    *)
(* same SSLClient left behind.                                             *)
(***************************************************************************)
ConnectedIsVerified ==
    connected =>
       /\ args.require_sct => args.data.scts # {}
       /\ args.data.scts \subseteq {s \in issued : s.entry = peer}

(***************************************************************************)
(* An audit finds a proof exactly when there is one: PROOF_OK is returned  *)
(* if and only if the tree the log has signed contains the entry of an SCT *)
(* that was saved, even in the millisecond in which it was signed.         *)
(***************************************************************************)
AuditIsExact ==
    audit' # audit => (audit' = "PROOF_OK" <=> saved.scts \cap sth.leaves # {})
=============================================================================
