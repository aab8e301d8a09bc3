----------------------------- MODULE TlsEncoding -----------------------------
(***************************************************************************)
(* The TLS encoding of SCTs, signature inputs, Merkle leaves and chains, as *)
(* written by Serializer and read back by Deserializer: tls_encoding,       *)
(* serializer, cert_serializer and xjson_serializer.  The widths are small: *)
(* a byte has Base values, a timestamp, a hash and a key id are one byte,   *)
(* and every kMax... that is 2^8k - 1 in the code is Base - 1.              *)
(***************************************************************************)
EXTENDS Integers, Sequences, SequencesExt, FiniteSetsExt

CONSTANT Base       \* values of a byte

Byte == 0..(Base - 1)
kMaxLength == Base - 1
kMaxV2ExtensionsCount == Base - 2

V1 == 0
V2 == 1
CERTIFICATE_TIMESTAMP == 0
TREE_HEAD == 1
TIMESTAMPED_ENTRY == 0
X509_ENTRY == 0
PRECERT_ENTRY == 1
PRECERT_ENTRY_V2 == 2
X_JSON_ENTRY == 3
HashAlgorithms == 0..1
SignatureAlgorithms == 0..1

None == [none |-> TRUE]

-----------------------------------------------------------------------------
(* tls_encoding.                                                           *)

\* ceil(log2(max) / 8)
PrefixLength(max) == CHOOSE k \in 0..4 : Base ^ k >= max /\ (k = 0 \/ Base ^ (k - 1) < max)

WriteUint(n, bytes) == [i \in 1..bytes |-> (n \div (Base ^ (bytes - i))) % Base]

WriteVarBytes(in, max) == WriteUint(Len(in), PrefixLength(max)) \o in

Ok(bytes) == [result |-> "OK", bytes |-> bytes]
Failed(error) == [result |-> error, bytes |-> <<>>]

\* The first check that fails, or the bytes.
FirstError(checks, bytes) ==
    LET failing == {i \in 1..Len(checks) : checks[i] # "OK"}
    IN  IF failing = {} THEN Ok(bytes) ELSE Failed(checks[Min(failing)])

FlattenBytes(strings) == FoldLeft(LAMBDA a, b : a \o b, <<>>, strings)

Length(list, max) ==
    FoldLeft(LAMBDA n, e : n + Len(e) + PrefixLength(max), 0, list)

WriteList(list, maxElem, maxTotal) ==
    FirstError(
        <<IF \E e \in ToSet(list) : e = <<>> THEN "EMPTY_ELEM_IN_LIST" ELSE "OK",
          IF \E e \in ToSet(list) : Len(e) > maxElem THEN "LIST_ELEM_TOO_LONG" ELSE "OK",
          IF Length(list, maxElem) > maxTotal THEN "LIST_TOO_LONG" ELSE "OK">>,
        WriteUint(Length(list, maxElem), PrefixLength(maxTotal))
        \o FlattenBytes([i \in 1..Len(list) |-> WriteVarBytes(list[i], maxElem)]))

CheckSignatureFormat(sig) ==
    CASE sig.hash \notin HashAlgorithms -> "INVALID_HASH_ALGORITHM"
      [] sig.hash \in HashAlgorithms /\ sig.algo \notin SignatureAlgorithms ->
            "INVALID_SIGNATURE_ALGORITHM"
      [] OTHER -> IF Len(sig.bytes) > kMaxLength THEN "SIGNATURE_TOO_LONG" ELSE "OK"

WriteDigitallySigned(sig) ==
    FirstError(<<CheckSignatureFormat(sig)>>,
               WriteUint(sig.hash, 1) \o WriteUint(sig.algo, 1)
               \o WriteVarBytes(sig.bytes, kMaxLength))

\* A TLSDeserializer: what is left, what was read, and whether all of it could be.
Reader(in) == [rest |-> in, vals |-> <<>>, ok |-> TRUE]

ReadUint(d, bytes) ==
    IF ~d.ok \/ Len(d.rest) < bytes THEN [d EXCEPT !.ok = FALSE]
    ELSE [rest |-> SubSeq(d.rest, bytes + 1, Len(d.rest)), ok |-> TRUE,
          vals |-> Append(d.vals, FoldLeft(LAMBDA n, b : n * Base + b, 0,
                                           SubSeq(d.rest, 1, bytes)))]

ReadFixedBytes(d, bytes) ==
    IF ~d.ok \/ Len(d.rest) < bytes THEN [d EXCEPT !.ok = FALSE]
    ELSE [rest |-> SubSeq(d.rest, bytes + 1, Len(d.rest)), ok |-> TRUE,
          vals |-> Append(d.vals, SubSeq(d.rest, 1, bytes))]

ReadVarBytes(d, max) ==
    LET p == ReadUint(d, PrefixLength(max))
        n == p.vals[Len(p.vals)]
    IN  IF ~p.ok \/ n > max THEN [d EXCEPT !.ok = FALSE]
        ELSE ReadFixedBytes([p EXCEPT !.vals = d.vals], n)

ReachedEnd(d) == d.rest = <<>>

\* The fields of an encoding, one after the other, as far as they can be read.
ReadField(d, field) ==
    CASE field = "uint" -> ReadUint(d, 1)
      [] field = "fixed" -> ReadFixedBytes(d, 1)
      [] field = "var" -> ReadVarBytes(d, kMaxLength)
ReadFields(d, fields) == FoldLeft(ReadField, d, fields)
HasRead(d, n) == Len(d.vals) >= n

Read(result, value) == [result |-> result, value |-> value]
ReadFailed(error) == Read(error, None)

\* The elements of a list, and what was wrong with it.
RECURSIVE ReadElements(_, _)
ReadElements(d, max) ==
    IF ReachedEnd(d) THEN Read("OK", d.vals)
    ELSE LET e == ReadVarBytes(d, max)
         IN  IF ~e.ok THEN ReadFailed("INVALID_LIST_ENCODING")
             ELSE IF e.vals[Len(e.vals)] = <<>> THEN ReadFailed("EMPTY_ELEM_IN_LIST")
             ELSE ReadElements(e, max)

ReadList(d, maxTotal, maxElem) ==
    LET l == ReadVarBytes(d, maxTotal)
    IN  IF ~l.ok THEN ReadFailed("INPUT_TOO_SHORT")
        ELSE IF ~ReachedEnd(l) THEN ReadFailed("INPUT_TOO_LONG")
        ELSE ReadElements(Reader(l.vals[Len(l.vals)]), maxElem)

\* The signature at the end of what d has left; s: what of it was read.
DigitallySigned(s) ==
    CASE ~HasRead(s, 1) -> ReadFailed("INPUT_TOO_SHORT")
      [] HasRead(s, 1) /\ s.vals[1] \notin HashAlgorithms ->
            ReadFailed("INVALID_HASH_ALGORITHM")
      [] OTHER ->
            IF ~HasRead(s, 2) THEN ReadFailed("INPUT_TOO_SHORT")
            ELSE IF s.vals[2] \notin SignatureAlgorithms
                 THEN ReadFailed("INVALID_SIGNATURE_ALGORITHM")
            ELSE IF ~HasRead(s, 3) THEN ReadFailed("INPUT_TOO_SHORT")
            ELSE [result |-> "OK", rest |-> s.rest,
                  value |-> [hash |-> s.vals[1], algo |-> s.vals[2], bytes |-> s.vals[3]]]

ReadDigitallySigned(d) ==
    DigitallySigned(ReadFields([d EXCEPT !.vals = <<>>], <<"uint", "uint", "var">>))

-----------------------------------------------------------------------------
(* The checks of serializer.cc and cert_serializer.cc.                     *)

CheckCertificateFormat(cert) ==
    IF cert = <<>> THEN "EMPTY_CERTIFICATE"
    ELSE IF Len(cert) > kMaxLength THEN "CERTIFICATE_TOO_LONG" ELSE "OK"
CheckKeyHashFormat(hash) == IF Len(hash) # 1 THEN "INVALID_HASH_LENGTH" ELSE "OK"
CheckKeyId(id) == IF Len(id) # 1 THEN "INVALID_KEYID_LENGTH" ELSE "OK"
CheckExtensionsFormat(ext) ==
    IF Len(ext) > kMaxLength THEN "EXTENSIONS_TOO_LONG" ELSE "OK"

\* CheckSctExtensionsFormat and CheckSthExtensionsFormat: ordered by their types.
CheckV2ExtensionsFormat(exts) ==
    IF Len(exts) > kMaxV2ExtensionsCount THEN "EXTENSIONS_TOO_LONG"
    ELSE IF \E i \in 1..Len(exts) : Len(exts[i].data) > kMaxLength THEN "EXTENSIONS_TOO_LONG"
    ELSE IF \E i \in 1..(Len(exts) - 1) : exts[i + 1].type < exts[i].type
         THEN "EXTENSIONS_NOT_ORDERED"
    ELSE "OK"

WriteSctExtension(exts) ==
    WriteUint(Len(exts), 1)
    \o FlattenBytes([i \in 1..Len(exts) |->
           WriteUint(exts[i].type, 1) \o WriteVarBytes(exts[i].data, kMaxLength)])

-----------------------------------------------------------------------------
(* What is signed and what is hashed.                                      *)

\* The fields all of them begin with.
Header(version, what, time, type) ==
    WriteUint(version, 1) \o WriteUint(what, 1) \o WriteUint(time, 1) \o WriteUint(type, 1)

CertInput(what, s) ==
    FirstError(<<CheckCertificateFormat(s.cert), CheckExtensionsFormat(s.ext)>>,
        Header(V1, what, s.time, s.type)
        \o WriteVarBytes(s.cert, kMaxLength) \o WriteVarBytes(s.ext, kMaxLength))

PrecertInput(what, s) ==
    FirstError(<<CheckCertificateFormat(s.cert), CheckKeyHashFormat(s.key),
                 CheckExtensionsFormat(s.ext)>>,
        Header(V1, what, s.time, s.type)
        \o s.key \o WriteVarBytes(s.cert, kMaxLength) \o WriteVarBytes(s.ext, kMaxLength))

V2Input(what, s, keyCheck) ==
    FirstError(<<CheckCertificateFormat(s.cert), keyCheck, CheckV2ExtensionsFormat(s.exts)>>,
        Header(V2, what, s.time, s.type)
        \o s.key \o WriteVarBytes(s.cert, kMaxLength) \o WriteSctExtension(s.exts))

SerializeV1CertSCTSignatureInput(s) == CertInput(CERTIFICATE_TIMESTAMP, s)
SerializeV1PrecertSCTSignatureInput(s) == PrecertInput(CERTIFICATE_TIMESTAMP, s)
SerializeV1CertSCTMerkleTreeLeaf(s) == CertInput(TIMESTAMPED_ENTRY, s)
SerializeV1PrecertSCTMerkleTreeLeaf(s) == PrecertInput(TIMESTAMPED_ENTRY, s)

SerializeV1SCTSignatureInput(s) ==
    CASE s.type = X509_ENTRY -> SerializeV1CertSCTSignatureInput(s)
      [] s.type = PRECERT_ENTRY -> SerializeV1PrecertSCTSignatureInput(s)
      [] OTHER -> Failed("INVALID_ENTRY_TYPE")

SerializeV1SCTMerkleTreeLeaf(s) ==
    CASE s.type = X509_ENTRY -> SerializeV1CertSCTMerkleTreeLeaf(s)
      [] s.type = PRECERT_ENTRY -> SerializeV1PrecertSCTMerkleTreeLeaf(s)
      [] OTHER -> Failed("INVALID_ENTRY_TYPE")

\* Of V2 only the leaf of a precertificate has its key hash checked.
SerializeV2CertSCTSignatureInput(s) == V2Input(CERTIFICATE_TIMESTAMP, s, "OK")
SerializeV2PrecertSCTSignatureInput(s) == V2Input(CERTIFICATE_TIMESTAMP, s, "OK")
SerializeV2CertSCTMerkleTreeLeaf(s) == V2Input(TIMESTAMPED_ENTRY, s, "OK")
SerializeV2PrecertSCTMerkleTreeLeaf(s) ==
    V2Input(TIMESTAMPED_ENTRY, s, CheckKeyHashFormat(s.key))

SerializeV2SCTSignatureInput(s) ==
    CASE s.type = X509_ENTRY -> SerializeV2CertSCTSignatureInput(s)
      [] s.type = PRECERT_ENTRY_V2 -> SerializeV2PrecertSCTSignatureInput(s)
      [] OTHER -> Failed("INVALID_ENTRY_TYPE")

SerializeV2SCTMerkleTreeLeaf(s) ==
    CASE s.type = X509_ENTRY -> SerializeV2CertSCTMerkleTreeLeaf(s)
      [] s.type = PRECERT_ENTRY_V2 -> SerializeV2PrecertSCTMerkleTreeLeaf(s)
      [] OTHER -> Failed("INVALID_ENTRY_TYPE")

\* xjson_serializer, whose limits are those of a certificate.
SerializeV1JsonSCTSignatureInput(s) == CertInput(CERTIFICATE_TIMESTAMP, s)
SerializeV1JsonSCTMerkleTreeLeaf(s) == CertInput(TIMESTAMPED_ENTRY, s)

\* What the log was configured for: certificates of V1, of V2, or JSON.
SerializeSCTSignatureInput(s) ==
    CASE s.version = V2 -> SerializeV2SCTSignatureInput(s)
      [] s.type = X_JSON_ENTRY -> SerializeV1JsonSCTSignatureInput(s)
      [] OTHER -> SerializeV1SCTSignatureInput(s)

SerializeSCTMerkleTreeLeaf(s) ==
    CASE s.version = V2 -> SerializeV2SCTMerkleTreeLeaf(s)
      [] s.type = X_JSON_ENTRY -> SerializeV1JsonSCTMerkleTreeLeaf(s)
      [] OTHER -> SerializeV1SCTMerkleTreeLeaf(s)

TreeInput(h) == WriteUint(h.time, 1) \o WriteUint(h.size, 1) \o h.root

SerializeV1STHSignatureInput(h) ==
    FirstError(<<CheckKeyHashFormat(h.root)>>,
               WriteUint(V1, 1) \o WriteUint(TREE_HEAD, 1) \o TreeInput(h))

SerializeV2STHSignatureInput(h) ==
    FirstError(<<CheckKeyHashFormat(h.root), CheckV2ExtensionsFormat(h.exts), CheckKeyId(h.key)>>,
               WriteUint(V2, 1) \o WriteUint(TREE_HEAD, 1) \o h.key \o TreeInput(h)
               \o WriteSctExtension(h.exts))

SerializeSTHSignatureInput(h) ==
    IF h.version = V1 THEN SerializeV1STHSignatureInput(h) ELSE SerializeV2STHSignatureInput(h)

-----------------------------------------------------------------------------
(* SCTs.                                                                   *)

SctHeader(s) == WriteUint(s.version, 1) \o s.key \o WriteUint(s.time, 1)

WriteSCTV1(s) ==
    LET signed == WriteDigitallySigned(s.sig)
    IN  FirstError(<<CheckExtensionsFormat(s.ext), CheckKeyId(s.key), signed.result>>,
                   SctHeader(s) \o WriteVarBytes(s.ext, kMaxLength) \o signed.bytes)

WriteSCTV2(s) ==
    LET signed == WriteDigitallySigned(s.sig)
    IN  FirstError(<<CheckV2ExtensionsFormat(s.exts), CheckKeyId(s.key), signed.result>>,
                   SctHeader(s) \o WriteSctExtension(s.exts) \o signed.bytes)

SerializeSCT(s) == IF s.version = V1 THEN WriteSCTV1(s) ELSE WriteSCTV2(s)

\* n extensions of V2.
RECURSIVE ReadExtensions(_, _)
ReadExtensions(d, n) ==
    IF n = 0 \/ ~d.ok THEN d
    ELSE ReadExtensions(ReadVarBytes(ReadUint(d, 1), kMaxLength), n - 1)

\* ReadSctExtension: the extensions there are, as a list.
ReadSctExtension(d) ==
    LET c == ReadUint([d EXCEPT !.vals = <<>>], 1)
        n == c.vals[1]
        e == ReadExtensions([c EXCEPT !.vals = <<>>], n)
        exts == [i \in 1..n |-> [type |-> e.vals[2 * i - 1], data |-> e.vals[2 * i]]]
    IN  IF ~c.ok THEN ReadFailed("INPUT_TOO_SHORT")
        ELSE IF n > kMaxV2ExtensionsCount THEN ReadFailed("EXTENSIONS_TOO_LONG")
        ELSE IF ~e.ok THEN ReadFailed("INPUT_TOO_SHORT")
        ELSE IF CheckV2ExtensionsFormat(exts) # "OK" THEN ReadFailed("EXTENSIONS_NOT_ORDERED")
        ELSE [result |-> "OK", rest |-> e.rest, value |-> exts]

\* The signature that ends an SCT whose other fields were read.
WithSignature(sct, sig) ==
    IF sig.result # "OK" THEN ReadFailed(sig.result)
    ELSE IF sig.rest # <<>> THEN ReadFailed("INPUT_TOO_LONG")
    ELSE Read("OK", [sct EXCEPT !.sig = sig.value])

SctFields(d, exts) ==
    [version |-> d.vals[1], key |-> d.vals[2], time |-> d.vals[3],
     ext |-> <<>>, exts |-> exts, sig |-> None]

\* ReadSCTV1: the extensions are read and not set.
ReadSCTV1(d) ==
    IF ~HasRead(d, 4) THEN ReadFailed("INPUT_TOO_SHORT")
    ELSE WithSignature(SctFields(d, <<>>), ReadDigitallySigned(d))

\* e: the extensions that d has left.
ReadSCTV2(d, e) ==
    IF ~HasRead(d, 3) THEN ReadFailed("INPUT_TOO_SHORT")
    ELSE IF e.result # "OK" THEN ReadFailed(e.result)
    ELSE WithSignature(SctFields(d, e.value), ReadDigitallySigned([d EXCEPT !.rest = e.rest]))

\* d: the fields both versions begin with.
SctOfVersion(d) ==
    IF ~HasRead(d, 1) THEN ReadFailed("INPUT_TOO_SHORT")
    ELSE IF d.vals[1] \notin {V1, V2} THEN ReadFailed("UNSUPPORTED_VERSION")
    ELSE IF d.vals[1] = V1 THEN ReadSCTV1(ReadFields(d, <<"var">>))
    ELSE ReadSCTV2(d, ReadSctExtension(d))

DeserializeSCT(in) == SctOfVersion(ReadFields(Reader(in), <<"uint", "fixed", "uint">>))

-----------------------------------------------------------------------------
(* Leaves, lists and chains.                                               *)

\* Mutant: what follows the extensions is not looked at.
EndIgnored(leaf, d) ==
    IF ~d.ok THEN ReadFailed("INPUT_TOO_SHORT")
    ELSE Read("OK", [leaf EXCEPT !.ext = d.vals[Len(d.vals)]])

\* ReadExtensionsV1, which d has read last, and the end of the input.
WithExtensions(leaf, d) ==
    IF ~d.ok THEN ReadFailed("INPUT_TOO_SHORT")
    ELSE IF ~ReachedEnd(d) THEN ReadFailed("INPUT_TOO_LONG")
    ELSE Read("OK", [leaf EXCEPT !.ext = d.vals[Len(d.vals)]])

\* The fields of a leaf up to its entry.
LeafHeader(d, version) ==
    IF ~HasRead(d, 1) THEN "INPUT_TOO_SHORT"
    ELSE IF d.vals[1] # version THEN "UNSUPPORTED_VERSION"
    ELSE IF ~HasRead(d, 2) THEN "INPUT_TOO_SHORT"
    ELSE IF d.vals[2] # TIMESTAMPED_ENTRY THEN "UNKNOWN_LEAF_TYPE"
    ELSE IF ~HasRead(d, 4) THEN "INPUT_TOO_SHORT" ELSE "OK"

ReadLeafHeader(in) == ReadFields(Reader(in), <<"uint", "uint", "uint", "uint">>)

NewLeaf(d, key, cert) ==
    [version |-> d.vals[1], time |-> d.vals[3], type |-> d.vals[4],
     key |-> key, cert |-> cert, ext |-> <<>>]

\* The entry and the extensions that follow the header d, without a key hash and
\* with one.
CertLeaf(d) ==
    IF ~HasRead(d, 5) THEN ReadFailed("INPUT_TOO_SHORT")
    ELSE WithExtensions(NewLeaf(d, <<>>, d.vals[5]), d)
PrecertLeaf(d) ==
    IF ~HasRead(d, 6) THEN ReadFailed("INPUT_TOO_SHORT")
    ELSE WithExtensions(NewLeaf(d, d.vals[5], d.vals[6]), d)
ReadCertLeaf(d) == CertLeaf(ReadFields(d, <<"var", "var">>))
ReadPrecertLeaf(d) == PrecertLeaf(ReadFields(d, <<"fixed", "var", "var">>))

\* DeserializeMerkleTreeLeaf as configured for certificates of V1: "DIE" where the
\* CHECK fails.
V1Leaf(d, header) ==
    CASE header # "OK" -> ReadFailed(header)
      [] header = "OK" /\ d.vals[4] = X509_ENTRY -> ReadCertLeaf(d)
      [] header = "OK" /\ d.vals[4] = PRECERT_ENTRY -> ReadPrecertLeaf(d)
      [] OTHER -> ReadFailed("DIE")
DeserializeV1SCTMerkleTreeLeaf(in) ==
    V1Leaf(ReadLeafHeader(in), LeafHeader(ReadLeafHeader(in), V1))

\* The same for JSON.
JsonLeaf(d, header) ==
    CASE header # "OK" -> ReadFailed(header)
      [] header = "OK" /\ d.vals[4] = X_JSON_ENTRY -> ReadCertLeaf(d)
      [] OTHER -> ReadFailed("UNKNOWN_LOGENTRY_TYPE")
DeserializeV1JsonSCTMerkleTreeLeaf(in) ==
    JsonLeaf(ReadLeafHeader(in), LeafHeader(ReadLeafHeader(in), V1))

\* The same for V2, whose extensions are read as if they were those of V1.
V2Leaf(d, header) ==
    CASE header # "OK" -> ReadFailed(header)
      [] header = "OK" /\ d.vals[4] \in {X509_ENTRY, PRECERT_ENTRY_V2} -> ReadPrecertLeaf(d)
      [] OTHER -> ReadFailed("DIE")
DeserializeV2SCTMerkleTreeLeaf(in) ==
    V2Leaf(ReadLeafHeader(in), LeafHeader(ReadLeafHeader(in), V2))

SerializeSCTList(list) ==
    IF list = <<>> THEN Failed("EMPTY_LIST") ELSE WriteList(list, kMaxLength, Base ^ 2 - 1)

DeserializeSCTList(in) ==
    LET l == ReadList(Reader(in), Base ^ 2 - 1, kMaxLength)
    IN  IF l.result = "OK" /\ l.value = <<>> THEN ReadFailed("EMPTY_LIST") ELSE l

SerializeX509Chain(chain) == WriteList(chain, kMaxLength, Base ^ 2 - 1)

DeserializeX509Chain(in) == ReadList(Reader(in), Base ^ 2 - 1, kMaxLength)

\* SerializePrecertChainEntry: a precertificate and its chain, which may be empty.
SerializePrecertChainEntry(cert, chain) ==
    LET list == WriteList(chain, kMaxLength, Base ^ 2 - 1)
    IN  FirstError(<<IF Len(cert) > kMaxLength THEN "CERTIFICATE_TOO_LONG"
                     ELSE IF cert = <<>> THEN "EMPTY_CERTIFICATE" ELSE "OK",
                     list.result>>,
                   WriteVarBytes(cert, kMaxLength) \o list.bytes)

DeserializePrecertChainEntry(in) ==
    LET c == ReadVarBytes(Reader(in), kMaxLength)
        l == ReadList(c, Base ^ 2 - 1, kMaxLength)
    IN  IF ~c.ok THEN ReadFailed("INPUT_TOO_SHORT")
        ELSE IF l.result # "OK" THEN l
        ELSE Read("OK", <<c.vals[1]>> \o l.value)
=============================================================================
