------------------------------ MODULE Encoding ------------------------------
(***************************************************************************)
(* What Serializer writes, Deserializer reads: leaves, SCTs, SCT lists and  *)
(* precertificate chains are written, perhaps damaged on the way, and read; *)
(* and whole entries go from the database of a node, through get-entries    *)
(* and the client of another, to a LoggedEntry there.                       *)
(***************************************************************************)
EXTENDS TlsEncoding

CONSTANTS
    Text,       \* the byte strings that certificates and extensions are
    Times,      \* timestamps
    Damaging    \* whether what was written is damaged before it is read

VARIABLES
    item,       \* what was written
    wire,       \* the result of writing it, and the bytes
    got         \* the result of reading them, and what was read

vars == <<item, wire, got>>

Keys == {<<>>, <<0>>, <<1>>}
ShortText == {<<>>, <<1>>}
Ext == [type : {0, 1}, data : ShortText]
Exts == {<<>>} \cup {<<a>> : a \in Ext}
        \cup {<<a, b>> : a, b \in {e \in Ext : e.data # <<>>}}
Sig == [hash : {0}, algo : 0..1, bytes : {<<0>>}]
       \cup [hash : {1}, algo : {2}, bytes : {[i \in 1..Base |-> 1]}]
Lists == {<<>>} \cup {<<a>> : a \in Text} \cup {<<a, b>> : a, b \in Text}

Entry == [version : {V1}, type : {X509_ENTRY, X_JSON_ENTRY, PRECERT_ENTRY_V2},
          time : Times, key : {<<0>>}, cert : Text, ext : Text, exts : {<<>>}]
         \cup
         [version : {V1}, type : {PRECERT_ENTRY},
          time : {1}, key : Keys, cert : Text, ext : ShortText, exts : {<<>>}]
         \cup
         [version : {V2}, type : {X509_ENTRY, PRECERT_ENTRY_V2, PRECERT_ENTRY},
          time : {1}, key : Keys, cert : ShortText, ext : {<<>>}, exts : Exts]
Tree == [version : {V1, V2}, time : Times, size : {0, 1}, root : Keys, key : {<<0>>, <<>>},
         exts : {<<>>, <<[type |-> 0, data |-> <<1>>]>>}]
Sct == [version : {V1}, key : Keys, time : {1}, ext : Text, exts : {<<>>}, sig : Sig]
       \cup [version : {V2}, key : {<<0>>}, time : {1}, ext : {<<>>}, exts : Exts, sig : Sig]

Logged == [version : {V1}, type : {X509_ENTRY}, time : {1}, key : {<<>>}, cert : Text,
           ext : ShortText, exts : {<<>>}, chain : Lists, precert : {<<>>}, sig : Sig]
          \cup
          [version : {V1}, type : {PRECERT_ENTRY}, time : {1}, key : Keys, cert : ShortText,
           ext : ShortText, exts : {<<>>}, chain : Lists, precert : Text, sig : Sig]
          \cup
          [version : {V1}, type : {X_JSON_ENTRY}, time : {1}, key : {<<>>}, cert : Text,
           ext : ShortText, exts : {<<>>}, chain : {<<>>}, precert : {<<>>}, sig : Sig]

Init == item = None /\ wire = None /\ got = None

\* What a V1 leaf says of its entry, and a V2 one.
Meant(s) ==
    [version |-> s.version, time |-> s.time, type |-> s.type, cert |-> s.cert,
     key |-> IF s.version = V1 /\ s.type # PRECERT_ENTRY THEN <<>> ELSE s.key,
     ext |-> s.ext]

Written(kind, value) ==
    CASE kind = "leaf" -> SerializeSCTMerkleTreeLeaf(value)
      [] kind = "sct" -> SerializeSCT(value)
      [] kind = "list" -> SerializeSCTList(value)
      [] kind = "chain" -> SerializePrecertChainEntry(value.cert, value.list)

Serialize(kind, value) ==
    /\ item = None
    /\ item' = [kind |-> kind, value |-> value, damaged |-> FALSE]
    /\ wire' = Written(kind, value)
    /\ UNCHANGED got

-----------------------------------------------------------------------------
(* An entry as a node sends it to another.                                 *)

LogId == <<0>>
SctOf(e) == [version |-> V1, key |-> LogId, time |-> e.time, ext |-> e.ext, sig |-> e.sig]

SerializeForLeaf(e) == SerializeSCTMerkleTreeLeaf(e)

SerializeExtraData(e) ==
    CASE e.type = X509_ENTRY -> SerializeX509Chain(e.chain)
      [] e.type = PRECERT_ENTRY -> SerializePrecertChainEntry(e.precert, e.chain)
      [] OTHER -> Ok(<<>>)

\* BlockingGetEntries, with the SCT where include_scts asks for it.
Sent(leaf, extra, sct) ==
    [result |-> FirstError(<<leaf.result, extra.result, sct.result>>, <<>>).result,
     leaf |-> leaf.bytes, extra |-> extra.bytes, sct |-> sct.bytes]

GetEntry(e, include_scts) ==
    /\ item = None
    /\ wire' = Sent(SerializeForLeaf(e), SerializeExtraData(e),
                    IF include_scts THEN SerializeSCT(SctOf(e)) ELSE Ok(<<>>))
    /\ item' = [kind |-> "entry", value |-> e, damaged |-> FALSE, scts |-> include_scts]
    /\ UNCHANGED got

\* "entry.entry is incomplete": the leaf has the rest.
CopyFromClientLogEntry(leaf, chain) ==
    [version |-> V1, type |-> leaf.type, time |-> leaf.time, ext |-> leaf.ext, exts |-> <<>>,
     cert |-> leaf.cert, key |-> leaf.key,
     precert |-> IF leaf.type = PRECERT_ENTRY THEN Head(chain) ELSE <<>>,
     chain |-> IF leaf.type = PRECERT_ENTRY THEN Tail(chain) ELSE chain]

\* DoneGetEntries, for one entry: its leaf, extra data and SCT as they were read.
DoneGetEntry(leaf, chain, sct) ==
    IF leaf.result # "OK" THEN ReadFailed("BAD_RESPONSE")
    ELSE IF item.scts /\ sct.result # "OK" THEN ReadFailed("BAD_RESPONSE")
    ELSE Read("OK", [entry |-> CopyFromClientLogEntry(leaf.value, chain),
                     sct |-> IF item.scts THEN sct.value ELSE None])

\* WriteToDatabase: the SCT that came takes the place of the one made from the leaf.
Stored(r) ==
    IF r.result # "OK" \/ ~item.scts THEN r
    ELSE [r EXCEPT !.value.entry = [@ EXCEPT !.time = r.value.sct.time,
                                             !.ext = r.value.sct.ext]]

FetchEntry ==
    /\ item # None /\ item.kind = "entry" /\ wire.result = "OK" /\ got = None
    /\ got' = Stored(DoneGetEntry(
                 IF item.value.type = X_JSON_ENTRY
                 THEN DeserializeV1JsonSCTMerkleTreeLeaf(wire.leaf)
                 ELSE DeserializeV1SCTMerkleTreeLeaf(wire.leaf),
                 CASE item.value.type = X509_ENTRY -> DeserializeX509Chain(wire.extra).value
                   [] item.value.type = PRECERT_ENTRY ->
                         DeserializePrecertChainEntry(wire.extra).value
                   [] OTHER -> <<>>,
                 DeserializeSCT(wire.sct)))
    /\ UNCHANGED <<item, wire>>

-----------------------------------------------------------------------------
\* One byte is changed, lost or added.
Damage(bytes) ==
    /\ Damaging /\ item # None /\ got = None /\ wire.result = "OK" /\ ~item.damaged
    /\ wire' = Ok(bytes)
    /\ item' = [item EXCEPT !.damaged = TRUE]
    /\ UNCHANGED got

ReadBack(in) ==
    CASE item.kind = "leaf" ->
            IF item.value.version = V2 THEN DeserializeV2SCTMerkleTreeLeaf(in)
            ELSE IF item.value.type = X_JSON_ENTRY THEN DeserializeV1JsonSCTMerkleTreeLeaf(in)
            ELSE DeserializeV1SCTMerkleTreeLeaf(in)
      [] item.kind = "sct" -> DeserializeSCT(in)
      [] item.kind = "list" -> DeserializeSCTList(in)
      [] item.kind = "chain" -> DeserializePrecertChainEntry(in)

Deserialize ==
    /\ item # None /\ item.kind # "entry" /\ wire.result = "OK" /\ got = None
    /\ got' = ReadBack(wire.bytes)
    /\ UNCHANGED <<item, wire>>

Damaged(bytes) ==
    {[bytes EXCEPT ![i] = b] : i \in 1..Len(bytes), b \in Byte}
    \cup {SubSeq(bytes, 1, i) : i \in 0..(Len(bytes) - 1)}
    \cup {Append(bytes, b) : b \in Byte}

Next ==
    \/ /\ item = None
       /\ \/ \E s \in Entry : Serialize("leaf", s)
          \/ \E s \in Sct : Serialize("sct", s)
          \/ \E l \in Lists : Serialize("list", l)
          \/ \E c \in Text, l \in Lists : Serialize("chain", [cert |-> c, list |-> l])
          \/ \E e \in Logged, include_scts \in BOOLEAN : GetEntry(e, include_scts)
    \/ /\ item # None /\ item.kind # "entry" /\ wire.result = "OK"
       /\ \E bytes \in Damaged(wire.bytes) : Damage(bytes)
    \/ Deserialize \/ FetchEntry

Spec == Init /\ [][Next]_vars

-----------------------------------------------------------------------------
(* Properties.                                                             *)

Intact == item # None /\ got # None /\ ~item.damaged
ReadAs(value) == got.result = "OK" /\ got.value = value
SignatureInput == [s \in Entry |-> SerializeSCTSignatureInput(s)]
TreeInputs == {SerializeSTHSignatureInput(h) : h \in Tree}
Leaf == [s \in Entry |-> SerializeSCTMerkleTreeLeaf(s)]

\* A V1 leaf is read back as the entry it was written from, and so is a V2 one with
\* no extensions and a key hash of the right length: the fetcher gets from its peers
\* what they logged.
LeafRoundTrip ==
    /\ Intact /\ item.kind = "leaf"
    /\ item.value.version = V1 \/ (item.value.exts = <<>> /\ Len(item.value.key) = 1)
    => ReadAs(Meant(item.value))

\* An SCT list and a chain are read back as they were written.
ListRoundTrip ==
    /\ Intact /\ item.kind = "list" => ReadAs(item.value)
    /\ Intact /\ item.kind = "chain"
       => ReadAs(<<item.value.cert>> \o item.value.list)

\* What a node fetches from another has the leaf and the extra data that the other has
\* for it, so that their trees agree, with include_scts and without; FrontendSigner
\* leaves no extensions in an SCT.
FetchedIsLogged ==
    /\ Intact /\ item.kind = "entry" /\ (item.scts => item.value.ext = <<>>)
    => /\ got.result = "OK"
       /\ SerializeForLeaf(got.value.entry) = Ok(wire.leaf)
       /\ SerializeExtraData(got.value.entry) = Ok(wire.extra)

\* There is one encoding of a value: bytes that are read as a value which can be
\* written are the bytes written for it, whatever happened to them on the way.
Canonical ==
    /\ item # None /\ got # None /\ got.result = "OK"
    /\ item.kind \notin {"sct", "entry"} /\ (item.kind = "leaf" => item.value.version = V1)
    =>
        LET again == IF item.kind = "chain"
                     THEN SerializePrecertChainEntry(got.value[1], Tail(got.value))
                     ELSE Written(item.kind, got.value)
        IN  again.result = "OK" => again = wire

\* Entries that differ in a field their version signs are signed as different bytes,
\* and no input of an SCT is the input of a tree head: a signature says one thing.
InputsDiffer ==
    item # None /\ item.kind = "leaf" /\ got = None /\ ~item.damaged =>
        LET in == SignatureInput[item.value]
            leaf == Leaf[item.value]
        IN  /\ \A s \in Entry :
                  \/ in.result = "OK" /\ in = SignatureInput[s]
                  \/ leaf.result = "OK" /\ leaf = Leaf[s]
                  => Meant(s) = Meant(item.value) /\ s.exts = item.value.exts
            /\ in.result = "OK" => in \notin TreeInputs

\* "If SCT verification succeeded, then we should never fail here": what was signed
\* in V1 has a leaf.
SignedHasLeaf ==
    item # None /\ item.kind = "leaf" /\ item.value.version = V1
    => (SerializeSCTSignatureInput(item.value).result = "OK"
        <=> SerializeSCTMerkleTreeLeaf(item.value).result = "OK")
=============================================================================
