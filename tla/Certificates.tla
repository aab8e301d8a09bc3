---------------------------- MODULE Certificates ----------------------------
(***************************************************************************)
(* What a log accepts: the trusted store and the chain checks of           *)
(* cert_checker.cc, the chains and to-be-signed certificates of cert.cc,   *)
(* and the entries cert_submission_handler.cc makes of them.               *)
(*                                                                         *)
(* A certificate is a record: its names, its key, the key that signed it,  *)
(* the sequence of its extensions ("ca" is BasicConstraints CA:true, "eku" *)
(* the precertificate signing usage, "akid" the authority key identifier,  *)
(* whose value is the field akid), whether its poison is critical, and     *)
(* whether its signature algorithm is one the library refuses.  OpenSSL is *)
(* external.                                                               *)
(***************************************************************************)
EXTENDS Naturals, Sequences, SequencesExt, FiniteSets

CONSTANTS Cert,      \* the certificates there are
          File,      \* the files of trusted certificates, as sets
          MaxLength  \* the longest chain that is submitted

VARIABLES trusted,   \* CertChecker::trusted_
          asked,     \* the chain as it was submitted
          result     \* what the last submission returned

vars == <<trusted, asked, result>>

None == "none"

Status(code, at) == [code |-> code, at |-> at]
OK == Status("OK", None)

----------------------------------------------------------------------------
(* One certificate. *)

HasExtension(c, e) == e \in ToSet(c.exts)

HasCriticalExtension(c) == HasExtension(c, "poison") /\ c.critical

HasBasicConstraintCATrue(c) == HasExtension(c, "ca")

HasExtendedKeyUsage(c) == HasExtension(c, "eku")

\* External: X509_check_issued compares the names and, when there is one, the
\* authority key identifier.
IsIssuedBy(c, issuer) ==
    /\ c.issuer = issuer.name
    /\ HasExtension(c, "akid") => c.akid = issuer.key

IsSelfSigned(c) == IsIssuedBy(c, c)

\* "yes", "no", or the error of an algorithm that is not supported.
IsSignedBy(c, issuer) ==
    IF c.weak THEN "UNIMPLEMENTED"
              ELSE IF c.signedBy = issuer.key THEN "yes" ELSE "no"

----------------------------------------------------------------------------
(* The part that is signed.  An extension is found by its index, from zero. *)

TbsCertificate(c) ==
    [name |-> c.name, key |-> c.key, issuer |-> c.issuer,
     exts |-> c.exts, akid |-> c.akid]

ExtensionIndex(tbs, e) ==
    (CHOOSE i \in 1 .. Len(tbs.exts) :
        /\ tbs.exts[i] = e
        /\ \A j \in 1 .. i - 1 : tbs.exts[j] # e) - 1

\* [ok, tbs]: a second copy of the extension is an error.
DeleteExtension(tbs, e) ==
    IF ~HasExtension(tbs, e) THEN [ok |-> FALSE, tbs |-> tbs]
    ELSE LET without == [tbs EXCEPT !.exts =
                            RemoveAt(@, ExtensionIndex(tbs, e) + 1)]
         IN [ok |-> ~HasExtension(without, e), tbs |-> without]

\* The issuer of from becomes the issuer of tbs, and so does the key
\* identifier, when tbs has one.  Index 0 is taken for a failed look-up.
CopyIssuerFrom(tbs, from) ==
    LET named == [tbs EXCEPT !.issuer = from.issuer] IN
    IF ~HasExtension(tbs, "akid") THEN [ok |-> TRUE, tbs |-> named]
    ELSE IF ExtensionIndex(tbs, "akid") = 0 \/ ~HasExtension(from, "akid")
         THEN [ok |-> FALSE, tbs |-> named]
         ELSE [ok |-> TRUE, tbs |-> [named EXCEPT !.akid = from.akid]]

----------------------------------------------------------------------------
(* A chain: the leaf first. *)

RemoveCertsAfterFirstSelfSigned(chain) ==
    LET selfs == {i \in 1 .. Len(chain) : IsSelfSigned(chain[i])} IN
    IF selfs = {} THEN chain
    ELSE SubSeq(chain, 1, CHOOSE i \in selfs : \A j \in selfs : i <= j)

IsValidCaIssuerChainMaybeLegacyRoot(chain) ==
    \A i \in 1 .. Len(chain) - 1 :
        /\ IsSelfSigned(chain[i + 1]) \/ HasBasicConstraintCATrue(chain[i + 1])
        /\ IsIssuedBy(chain[i], chain[i + 1])

\* The first link that fails decides.
IsValidSignatureChain(chain) ==
    LET bad == {i \in 1 .. Len(chain) - 1 :
                   IsSignedBy(chain[i], chain[i + 1]) # "yes"} IN
    IF bad = {} THEN OK
    ELSE LET i == CHOOSE k \in bad : \A j \in bad : k <= j
         IN IF chain[i].weak THEN Status("UNIMPLEMENTED", "signature")
                             ELSE Status("INVALID_ARGUMENT", "signature")

UsesPrecertSigningCertificate(chain) ==
    Len(chain) >= 2 /\ HasExtendedKeyUsage(chain[2])

IsWellFormed(chain) ==
    /\ HasCriticalExtension(chain[1])
    /\ UsesPrecertSigningCertificate(chain) /\ HasExtension(chain[1], "akid")
           => HasExtension(chain[2], "akid")

----------------------------------------------------------------------------
(* The checker.  A check returns a status and the chain as it leaves it.    *)

Checked(status, chain) == [status |-> status, chain |-> chain]

\* A trusted certificate of its name is identical to it.
IsTrusted(c) == c \in {t \in trusted : t.name = c.name}

\* The last certificate is trusted, or a trusted one of its issuer's name
\* signed it and is added.
GetTrustedCa(chain) ==
    LET subject == Last(chain)
        signers == {c \in trusted : /\ c.name = subject.issuer
                                    /\ IsSignedBy(subject, c) = "yes"}
        named == {c \in trusted : c.name = subject.issuer}
    IN CASE trusted = {} ->
              {Checked(Status("FAILED_PRECONDITION", "store"), chain)}
         [] trusted # {} /\ IsTrusted(subject) -> {Checked(OK, chain)}
         [] trusted # {} /\ ~IsTrusted(subject)
                /\ subject.name = subject.issuer ->
              {Checked(Status("FAILED_PRECONDITION", "self-signed"), chain)}
         [] OTHER ->
              IF subject.weak /\ named # {}
              THEN {Checked(Status("INVALID_ARGUMENT", "algorithm"), chain)}
              ELSE IF signers = {}
              THEN {Checked(Status("FAILED_PRECONDITION", "root"), chain)}
              ELSE {Checked(OK, Append(chain, c)) : c \in signers}

CheckIssuerChain(submitted) ==
    LET chain == RemoveCertsAfterFirstSelfSigned(submitted) IN
    IF ~IsValidCaIssuerChainMaybeLegacyRoot(chain)
    THEN {Checked(Status("INVALID_ARGUMENT", "issuer"), chain)}
    ELSE IF IsValidSignatureChain(chain) # OK
    THEN {Checked(IsValidSignatureChain(chain), chain)}
    ELSE GetTrustedCa(chain)

CheckCertChain(chain) ==
    IF chain = <<>> THEN {Checked(Status("INVALID_ARGUMENT", "empty"), chain)}
    ELSE IF HasCriticalExtension(chain[1])
    THEN {Checked(Status("INVALID_ARGUMENT", "poison"), chain)}
    ELSE CheckIssuerChain(chain)

\* Mutant: the key of whoever signed the precertificate.
IssuerOfPreCertDirect(chain) == chain[2]

\* The certificate whose key will sign the final certificate.
IssuerOfPreCert(chain) ==
    IF UsesPrecertSigningCertificate(chain) THEN chain[3] ELSE chain[2]

\* The rest of CheckPreCertChain, once CheckIssuerChain has passed: the hash of
\* the issuer's key and the certificate to be signed, or the step that failed.
PreCertInput(chain) ==
    LET usesPreIssuer == UsesPrecertSigningCertificate(chain)
        tbs == DeleteExtension(TbsCertificate(chain[1]), "poison")
        copied == CopyIssuerFrom(tbs.tbs, chain[2])
    IN IF Len(chain) < (IF usesPreIssuer THEN 3 ELSE 2)
       THEN [status |-> Status("INTERNAL", "issuer")]
       ELSE IF ~tbs.ok THEN [status |-> Status("INTERNAL", "DeleteExtension")]
       ELSE IF usesPreIssuer /\ ~copied.ok
       THEN [status |-> Status("INTERNAL", "CopyIssuerFrom")]
       ELSE [status |-> OK,
             keyHash |-> IssuerOfPreCert(chain).key,
             tbs |-> IF usesPreIssuer THEN copied.tbs ELSE tbs.tbs]

----------------------------------------------------------------------------
(* The entries. *)

PrecertEntry(keyHash, tbs) ==
    [type |-> "PRECERT", keyHash |-> keyHash, tbs |-> tbs]

NoEntry == [type |-> None]

X509Entry(c) == [type |-> "X509", leaf |-> c]

SerializedTbs(c) ==
    IF HasExtension(c, "proof")
    THEN DeleteExtension(TbsCertificate(c), "proof")
    ELSE [ok |-> TRUE, tbs |-> TbsCertificate(c)]

\* The entry a client makes of a chain it was served, to verify the proofs in it.
X509ChainToEntry(chain) ==
    IF chain = <<>> THEN NoEntry
    ELSE IF ~HasExtension(chain[1], "proof") THEN X509Entry(chain[1])
    ELSE IF Len(chain) < 2 \/ ~SerializedTbs(chain[1]).ok THEN NoEntry
    ELSE PrecertEntry(chain[2].key, SerializedTbs(chain[1]).tbs)

\* All the outcomes: the trusted certificate found may be one of several.
ProcessX509Submission(chain) ==
    {IF c.status = OK
     THEN [status |-> OK, chain |-> c.chain, entry |-> X509Entry(c.chain[1])]
     ELSE [status |-> c.status, chain |-> c.chain, entry |-> NoEntry] :
        c \in CheckCertChain(chain)}

ProcessPreCertSubmission(chain) ==
    IF chain = <<>>
    THEN {[status |-> Status("INVALID_ARGUMENT", "empty"),
           chain |-> chain, entry |-> NoEntry]}
    ELSE IF ~IsWellFormed(chain)
    THEN {[status |-> Status("INVALID_ARGUMENT", "prechain"),
           chain |-> chain, entry |-> NoEntry]}
    ELSE {IF c.status # OK
          THEN [status |-> c.status, chain |-> c.chain, entry |-> NoEntry]
          ELSE LET input == PreCertInput(c.chain) IN
               [status |-> input.status, chain |-> c.chain,
                entry |-> IF input.status = OK
                          THEN PrecertEntry(input.keyHash, input.tbs)
                          ELSE NoEntry] :
             c \in CheckIssuerChain(chain)}

----------------------------------------------------------------------------

Chains == UNION {[1 .. n -> Cert] : n \in 0 .. MaxLength}

NoResult == [status |-> Status("NONE", None), chain |-> <<>>, entry |-> NoEntry]

Init ==
    /\ trusted = {}
    /\ asked = <<>>
    /\ result = NoResult

\* A file is read in full before anything is added to the store: an error in
\* it (valid is FALSE), or a file with no certificate, leaves the store alone.
LoadTrustedCertificatesFromBIO(file, valid) ==
    trusted' = IF valid /\ file # {} THEN trusted \cup {c \in file : ~IsTrusted(c)}
               ELSE trusted

LoadTrustedCertificates(file, opens, valid) ==
    /\ IF opens THEN LoadTrustedCertificatesFromBIO(file, valid) ELSE UNCHANGED trusted
    /\ UNCHANGED <<asked, result>>

AddChain(chain) ==
    /\ asked' = chain
    /\ result' \in ProcessX509Submission(chain)
    /\ UNCHANGED trusted

AddPreChain(chain) ==
    /\ asked' = chain
    /\ result' \in ProcessPreCertSubmission(chain)
    /\ UNCHANGED trusted

\* The files are loaded before the server starts; a submission changes nothing
\* for the next, so one is enough.
Next ==
    \/ result = NoResult /\ \E file \in File, opens, valid \in BOOLEAN :
          LoadTrustedCertificates(file, opens, valid)
    \/ result = NoResult /\ \E chain \in Chains : AddChain(chain)
    \/ result = NoResult /\ \E chain \in Chains : AddPreChain(chain)

Spec == Init /\ [][Next]_vars

----------------------------------------------------------------------------

Accepted == result.entry # NoEntry

(***************************************************************************)
(* An accepted chain is rooted: it ends in a trusted certificate, every    *)
(* certificate of it carries the name of the next one's and the signature  *)
(* of its key, every certificate between the leaf and the root is a CA,    *)
(* and nothing follows a self-signed one (CheckIssuerChain, GetTrustedCa). *)
(***************************************************************************)
AcceptedIsRooted ==
    Accepted =>
        /\ Last(result.chain) \in trusted
        /\ \A i \in 1 .. Len(result.chain) - 1 :
              /\ result.chain[i].issuer = result.chain[i + 1].name
              /\ result.chain[i].signedBy = result.chain[i + 1].key
              /\ ~IsSelfSigned(result.chain[i])
              /\ i > 1 => HasBasicConstraintCATrue(result.chain[i])

\* The certificate a CA issues for a precertificate: the poison gives way to
\* the proof, and the CA's own name and key are in the place of those of a
\* precertificate signing certificate.
Final(pre, ca) ==
    [pre EXCEPT !.exts = [i \in DOMAIN @ |-> IF @[i] = "poison" THEN "proof"
                                                               ELSE @[i]],
                !.issuer = ca.name, !.signedBy = ca.key,
                !.akid = IF HasExtension(pre, "akid") THEN ca.key ELSE @]

(***************************************************************************)
(* The promise made for a precertificate is the promise the client checks: *)
(* the entry that is logged for it (CheckPreCertChain) is the one          *)
(* X509ChainToEntry derives from the chain of the final certificate,       *)
(* whether or not a precertificate signing certificate was used.           *)
(***************************************************************************)
PrecertMatchesFinal ==
    Accepted /\ result.entry.type = "PRECERT" =>
        LET ca == IF HasExtendedKeyUsage(result.chain[2])
                  THEN result.chain[3] ELSE result.chain[2]
        IN X509ChainToEntry(<<Final(result.chain[1], ca), ca>>) = result.entry

(***************************************************************************)
(* "Should always succeed as we've already verified that the chain is      *)
(* well-formed" (cert_checker.cc, of the call of CopyIssuerFrom): a        *)
(* well-formed chain is never refused by the copy of the issuer.           *)
(***************************************************************************)
CopyAlwaysSucceeds == result.status.at # "CopyIssuerFrom"
=============================================================================
