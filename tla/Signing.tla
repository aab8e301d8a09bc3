------------------------------ MODULE Signing ------------------------------
(***************************************************************************)
(* Signing and verifying SCTs and tree heads: LogSigner, LogSigVerifier and *)
(* LogVerifier.  A signature is the key and the bytes that were signed; to  *)
(* whom it is shown may have another idea of any one field.                 *)
(***************************************************************************)
EXTENDS TlsEncoding

CONSTANTS
    Key,        \* key ids, which are byte strings
    Now         \* the verifier's clock, with the second of slack

VARIABLES
    made,       \* what was signed, or None
    shown,      \* what is verified
    signature,  \* its signature
    verdict

vars == <<made, shown, signature, verdict>>

NoSignature == [hash |-> 0, algo |-> 0, key |-> None, input |-> <<>>]

\* What a field may be.
Field == [version |-> {V1, V2, 2}, type |-> 0..3, time |-> {0, 1}, key |-> Key,
          cert |-> {<<>>, <<1>>, <<0, 1>>}, issuer |-> {<<>>, <<0>>, <<1>>},
          ext |-> {<<>>, <<1>>}, size |-> {0, 1}, root |-> {<<>>, <<0>>, <<1>>}]

Entry == [what : {"sct"}, version : Field.version, type : Field.type, time : Field.time,
          key : Key, cert : Field.cert, issuer : Field.issuer, ext : Field.ext]
Tree == [what : {"sth"}, version : {V1, 2}, time : Field.time, size : Field.size, key : Key,
         root : Field.root]

\* The bytes that are signed.
SctInput(e) ==
    IF e.version \notin {V1, V2} THEN Failed("UNSUPPORTED_VERSION")
    ELSE SerializeSCTSignatureInput([version |-> e.version, type |-> e.type, time |-> e.time,
                                     key |-> e.issuer, cert |-> e.cert, ext |-> e.ext,
                                     exts |-> <<>>])
SthInput(h) ==
    IF h.version \notin {V1, V2} THEN Failed("UNSUPPORTED_VERSION")
    ELSE SerializeSTHSignatureInput([version |-> h.version, time |-> h.time, size |-> h.size,
                                     root |-> h.root, key |-> h.key, exts |-> <<>>])

Init == made = None /\ shown = None /\ signature = NoSignature /\ verdict = "none"

-----------------------------------------------------------------------------
(* LogSigner.                                                              *)

\* LogSigner's: the others are fatal.
GetSerializeError(error) ==
    IF error \in {"INVALID_ENTRY_TYPE", "EMPTY_CERTIFICATE", "CERTIFICATE_TOO_LONG",
                  "INVALID_HASH_LENGTH", "UNSUPPORTED_VERSION", "EXTENSIONS_TOO_LONG"}
    THEN error ELSE "DIE"

RawSign(key, input) == [hash |-> 1, algo |-> 1, key |-> key, input |-> input]

Sign(key, e, in) ==
    /\ made = None /\ verdict = "none"
    /\ IF in.result = "OK"
       THEN /\ signature' = RawSign(key, in.bytes)
            /\ made' = [e EXCEPT !.key = key] /\ shown' = made' /\ UNCHANGED verdict
       ELSE /\ verdict' = GetSerializeError(in.result)
            /\ UNCHANGED <<made, shown, signature>>

SignCertificateTimestamp(key, e) == Sign(key, e, SctInput(e))

SignTreeHead(key, h) == Sign(key, h, SthInput(h))

\* Those that return the signature alone make the same SCT and tree head.
SignV1CertificateTimestamp(key, e) ==
    /\ e.version = V1 /\ e.type = X509_ENTRY
    /\ Sign(key, e, SctInput(e))

SignV1PrecertificateTimestamp(key, e) ==
    /\ e.version = V1 /\ e.type = PRECERT_ENTRY
    /\ Sign(key, e, SctInput(e))

SignV1TreeHead(key, h) ==
    /\ h.version = V1
    /\ Sign(key, h, SthInput(h))

-----------------------------------------------------------------------------
(* What the verifier is shown differs in a field, or the signature in an    *)
(* algorithm.                                                               *)

ShowOther(f, x) ==
    /\ made # None /\ shown = made /\ verdict = "none"
    /\ f \in DOMAIN shown /\ (made.what = "sth" /\ f = "version" => x # V2)
    /\ shown' = [shown EXCEPT ![f] = x]
    /\ UNCHANGED <<made, signature, verdict>>

ShowOtherAlgorithm(hash, algo) ==
    /\ made # None /\ shown = made /\ verdict = "none"
    /\ signature' = [signature EXCEPT !.hash = hash, !.algo = algo]
    /\ UNCHANGED <<made, shown, verdict>>

-----------------------------------------------------------------------------
(* LogSigVerifier.                                                         *)

Verify(key, input, sig) ==
    IF sig.hash # 1 THEN "HASH_ALGORITHM_MISMATCH"
    ELSE IF sig.algo # 1 THEN "SIGNATURE_ALGORITHM_MISMATCH"
    ELSE IF sig.key = key /\ sig.input = input THEN "OK" ELSE "INVALID_SIGNATURE"

GetVerifySerializeError(error) ==
    IF error \in {"INVALID_ENTRY_TYPE", "EMPTY_CERTIFICATE", "CERTIFICATE_TOO_LONG",
                  "INVALID_HASH_LENGTH", "UNSUPPORTED_VERSION", "EXTENSIONS_TOO_LONG"}
    THEN error ELSE "DIE"

VerifyInput(key, in, sig) ==
    IF in.result # "OK" THEN GetVerifySerializeError(in.result)
    ELSE Verify(key, in.bytes, sig)

VerifySCTSignature(key, e, sig) ==
    IF e.key # key THEN "KEY_ID_MISMATCH" ELSE VerifyInput(key, SctInput(e), sig)

VerifySTHSignature(key, h, sig) ==
    IF h.key # key THEN "KEY_ID_MISMATCH" ELSE VerifyInput(key, SthInput(h), sig)

GetDeserializeSignatureError(error) ==
    IF error \in {"INPUT_TOO_SHORT", "INVALID_HASH_ALGORITHM", "INVALID_SIGNATURE_ALGORITHM",
                  "INPUT_TOO_LONG"}
    THEN error ELSE "DIE"

\* The signature comes as bytes: those of the one that was made, or others.
VerifyBytes(key, bytes, in) ==
    LET sig == ReadDigitallySigned(Reader(bytes))
    IN  IF bytes = <<>> THEN VerifyInput(key, in, signature)
        ELSE IF sig.result # "OK" THEN GetDeserializeSignatureError(sig.result)
        ELSE IF sig.rest # <<>> THEN GetDeserializeSignatureError("INPUT_TOO_LONG")
        ELSE IF in.result # "OK" THEN GetVerifySerializeError(in.result)
        ELSE "INVALID_SIGNATURE"

Shown(what) == made # None /\ verdict = "none" /\ shown.what = what

VerifyV1CertSCTSignature(key, bytes) ==
    /\ Shown("sct") /\ shown.version = V1 /\ shown.type = X509_ENTRY
    /\ verdict' = VerifyBytes(key, bytes, SctInput(shown))
    /\ UNCHANGED <<made, shown, signature>>

VerifyV1PrecertSCTSignature(key, bytes) ==
    /\ Shown("sct") /\ shown.version = V1 /\ shown.type = PRECERT_ENTRY
    /\ verdict' = VerifyBytes(key, bytes, SctInput(shown))
    /\ UNCHANGED <<made, shown, signature>>

VerifyV1STHSignature(key, bytes) ==
    /\ Shown("sth") /\ shown.version = V1
    /\ verdict' = VerifyBytes(key, bytes, SthInput(shown))
    /\ UNCHANGED <<made, shown, signature>>

-----------------------------------------------------------------------------
(* LogVerifier.                                                            *)

IsBetween(time, earliest, latest) == time >= earliest /\ time <= latest

LeafOf(e) ==
    SerializeSCTMerkleTreeLeaf([version |-> e.version, type |-> e.type, time |-> e.time,
                                key |-> e.issuer, cert |-> e.cert, ext |-> e.ext, exts |-> <<>>])

\* By a caller that wants the leaf hash.
VerifySignedCertificateTimestamp(key) ==
    /\ Shown("sct")
    /\ LET sig == VerifySCTSignature(key, shown, signature)
       IN  verdict' = IF ~IsBetween(shown.time, 0, Now) THEN "INVALID_TIMESTAMP"
                      ELSE IF sig = "DIE" THEN "DIE"
                      ELSE IF sig # "OK" THEN "REFUSED"
                      ELSE IF LeafOf(shown).result # "OK" THEN "DIE"
                      ELSE "OK"
    /\ UNCHANGED <<made, shown, signature>>

VerifySignedTreeHead(key) ==
    /\ Shown("sth")
    /\ LET sig == VerifySTHSignature(key, shown, signature)
       IN  verdict' = IF ~IsBetween(shown.time, 0, Now) THEN "INVALID_TIMESTAMP"
                      ELSE IF sig \in {"OK", "DIE"} THEN sig ELSE "REFUSED"
    /\ UNCHANGED <<made, shown, signature>>

Next ==
    \/ /\ made = None
       /\ \E key \in Key :
          \/ \E e \in Entry : \/ SignCertificateTimestamp(key, e)
                             \/ SignV1CertificateTimestamp(key, e)
                             \/ SignV1PrecertificateTimestamp(key, e)
          \/ \E h \in Tree : SignTreeHead(key, h) \/ SignV1TreeHead(key, h)
    \/ \E f \in DOMAIN Field : \E x \in Field[f] : ShowOther(f, x)
    \/ \E hash, algo \in 0..1 : ShowOtherAlgorithm(hash, algo)
    \/ \E key \in Key, bytes \in {<<>>, <<2>>, <<1>>, <<1, 2>>, <<1, 1>>, <<1, 1, 1, 0>>,
                                  <<1, 1, 0, 0>>} :
          \/ VerifyV1CertSCTSignature(key, bytes) \/ VerifyV1PrecertSCTSignature(key, bytes)
          \/ VerifyV1STHSignature(key, bytes)
    \/ \E key \in Key : VerifySignedCertificateTimestamp(key) \/ VerifySignedTreeHead(key)

Spec == Init /\ [][Next]_vars

-----------------------------------------------------------------------------
(* Properties.                                                             *)

\* The fields that are of no account in what was signed: the key hash of an issuer
\* where the entry is a certificate of V1.
SameMeaning(a, b) ==
    \A f \in DOMAIN a \ {"key"} :
        a[f] = b[f] \/ (f = "issuer" /\ a.version = V1 /\ a.type # PRECERT_ENTRY)
                    \/ (f = "ext" /\ a.version = V2)

\* What verifies is what the log signed with its key, with no field changed that was
\* signed and no other algorithm named: a log can be held to each of its promises and to
\* no other.  The signature alone says nothing of the key id.
OnlySigned ==
    verdict = "OK"
    => /\ SameMeaning(made, shown)
       /\ signature.hash = 1 /\ signature.algo = 1

\* An SCT and a tree head of V1 that the log signed have its key id and a signature
\* that verifies.
SignedVerifies ==
    made # None /\ made.version = V1 /\ signature.hash = 1 /\ signature.algo = 1
    => (IF made.what = "sct" THEN VerifySCTSignature(signature.key, made, signature)
        ELSE VerifySTHSignature(signature.key, made, signature)) = "OK"

\* "Unexpected Serializer error code", and the CHECK that what verifies has a leaf:
\* neither ends the process over an entry or a signature of V1.
NoneFatal == verdict = "DIE" => shown # None /\ shown.version = V2
=============================================================================
