---------------------------- MODULE CompactCodec ----------------------------
(***************************************************************************)
(* The message codecs of src/encoding.rs (the wire proof messages and tree *)
(* nodes) and of the oplog Header in src/oplog/mod.rs, on top of the       *)
(* compact_encoding State: a `start` cursor and an `end` size.  Every      *)
(* codec is the same three passes over a list of fields: preencode grows   *)
(* `end` by each field's size, the caller allocates a buffer of `end`      *)
(* zero bytes, encode writes each field at `start` and advances it, and    *)
(* decode reads the fields back from a state over the whole buffer.        *)
(*                                                                         *)
(* A codec is modelled by the field lists its three functions walk, in     *)
(* the order the source walks them; the primitive encodings (varints,      *)
(* byte strings, fixed_32) belong to the compact_encoding crate, not under *)
(* src/, and follow spec section 6.  A byte is a number in 0..255; a hash  *)
(* or key is a sequence of such bytes of its real length.                  *)
(***************************************************************************)
EXTENDS Naturals, Sequences, SequencesExt

CONSTANTS
    Kinds,     \* the message types a run encodes
    Uints,     \* the u64 values a field may hold
    Payloads,  \* the byte strings a `bytes` or `string` field may hold
    Hashes,    \* the 32-byte hashes a Node may hold
    MaxNodes,  \* bound: the most nodes in an array<Node> field
    Tampers,   \* byte values a peer may put in place of one byte it sends
    TamperAt   \* bound: the buffer positions a peer may alter

ASSUME CodecAssumption ==
    /\ Uints \subseteq 0..(2^30 - 1)
    /\ Payloads \subseteq Seq(0..255)
    /\ Hashes \subseteq [1..32 -> 0..255]
    /\ MaxNodes \in Nat
    /\ Tampers \subseteq 0..255
    /\ TamperAt \subseteq Nat \ {0}

VARIABLES
    msg,    \* the value being encoded
    st,     \* the encoder / decoder State: [start, end]
    buf,    \* the buffer
    phase,  \* "idle", "preencoded", "allocated", "encoded", "decoded", "failed"
    out,    \* the value decode returned
    reserved \* the largest Vec::with_capacity the last decode asked for

vars == <<msg, st, buf, phase, out, reserved>>

-----------------------------------------------------------------------------
(* Primitives of the compact_encoding crate (spec 6).                      *)

\* Little-endian bytes of v, n of them.
LE(v, n) == [i \in 1..n |-> (v \div 256^(i - 1)) % 256]

\* Every decoded value at or above 2^30 is represented by BigU64: such a
\* value only meets comparisons with buffer lengths and positions, which
\* it exceeds whatever it is (and TLC's integers stop at 2^31).
BigU64 == 2^30

\* The value of the n little-endian bytes after position s, saturated at
\* BigU64 (a nonzero byte past the fourth, or a fourth byte of 64 or more).
FromLE(b, s, n) ==
    LET m == IF n < 4 THEN n ELSE 4
        f[k \in 0..m] == IF k = 0 THEN 0 ELSE f[k - 1] + b[s + k] * 256^(k - 1)
    IN  IF \/ \E k \in 5..n : b[s + k] # 0
           \/ n >= 4 /\ b[s + 4] >= 64
        THEN BigU64 ELSE f[m]

\* u64 / usize: one byte up to 252, else a tag and 2, 4 or 8 bytes
\* (v <= 2^32 - 1 is written so that TLC's 32-bit integers can test it).
VarintCells(v) ==
    IF v <= 252 THEN << v >>
    ELSE IF v <= 65535 THEN << 253 >> \o LE(v, 2)
    ELSE IF v \div 65536 <= 65535 THEN << 254 >> \o LE(v, 4)
    ELSE << 255 >> \o LE(v, 8)

\* The cells of a primitive field.  A `bytes` field is a Vec<u8>, a
\* String or a Box<[u8]> (length, then payload); `strings` a Vec<String>.
PrimCells(kind, v) ==
    CASE kind = "u64"     -> VarintCells(v)
      [] kind = "bytes"   -> VarintCells(Len(v)) \o v
      [] kind = "fixed32" -> v
      [] kind = "strings" ->
            VarintCells(Len(v))
              \o FlattenSeq([i \in 1..Len(v) |-> VarintCells(Len(v[i])) \o v[i]])

Fail == [ok |-> FALSE, val |-> << >>, at |-> 0]
Got(v, at) == [ok |-> TRUE, val |-> v, at |-> at]

\* Decode a varint at position s; reading past the end is an error.
DecVarint(b, s) ==
    IF s + 1 > Len(b) THEN Fail
    ELSE LET t == b[s + 1]
             n == CASE t = 253 -> 2 [] t = 254 -> 4 [] OTHER -> 8
         IN  IF t <= 252 THEN Got(t, s + 1)
             ELSE IF s + 1 + n > Len(b) THEN Fail
             ELSE Got(FromLE(b, s + 1, n), s + 1 + n)

\* Decode n raw bytes at position s.
DecRaw(b, s, n) ==
    IF s + n > Len(b) THEN Fail ELSE Got(SubSeq(b, s + 1, s + n), s + n)

\* Decode a length-prefixed byte string.
DecBytes(b, s) ==
    LET l == DecVarint(b, s)
    IN  IF ~l.ok THEN Fail ELSE DecRaw(b, l.at, l.val)

\* Decode a primitive field.  An array whose length prefix exceeds the
\* bytes left fails here at once; the code fails at the first element
\* that runs past the end (after Vec::with_capacity(len)).
DecPrim(kind, b, s) ==
    CASE kind = "u64"     -> DecVarint(b, s)
      [] kind = "bytes"   -> DecBytes(b, s)
      [] kind = "fixed32" -> DecRaw(b, s, 32)
      [] kind = "strings" ->
            LET l == DecVarint(b, s)
            IN  IF ~l.ok \/ l.val > Len(b) - l.at THEN Fail
                ELSE FoldLeft(LAMBDA r, i :
                                 IF ~r.ok THEN r
                                 ELSE LET e == DecBytes(b, r.at)
                                      IN  IF e.ok THEN Got(Append(r.val, e.val), e.at)
                                          ELSE Fail,
                              Got(<< >>, l.at), [i \in 1..l.val |-> i])

\* Public and secret keys: Box<[u8]> fields whose decode unwraps
\* PublicKey::from_bytes / SecretKey::from_bytes, which panic unless the
\* bytes are a 32-byte key; an empty secret decodes to None.
DecKey(b, s, optional) ==
    LET e == DecBytes(b, s)
    IN  IF ~e.ok THEN Fail
        ELSE IF Len(e.val) = 32 \/ (optional /\ e.val = << >>) THEN e
        ELSE Fail

-----------------------------------------------------------------------------
(* Codecs: the fields each of preencode, encode and decode walks, in the   *)
(* source's order, as <<name, kind>>.                                      *)

F(name, kind) == << name, kind >>

\* Mutant of NodeCodec: decode reads length before index.
NodeCodecDecodeSwapped ==
    [pre |-> << F("index", "u64"), F("length", "u64"), F("hash", "fixed32") >>,
     enc |-> << F("index", "u64"), F("length", "u64"), F("hash", "fixed32") >>,
     dec |-> << F("length", "u64"), F("index", "u64"), F("hash", "fixed32") >>]

\* impl CompactEncoding<Node> for HypercoreState.
NodeCodec ==
    [pre |-> << F("index", "u64"), F("length", "u64"), F("hash", "fixed32") >>,
     enc |-> << F("index", "u64"), F("length", "u64"), F("hash", "fixed32") >>,
     dec |-> << F("index", "u64"), F("length", "u64"), F("hash", "fixed32") >>]

\* A Node's size, cells and decoding, through NodeCodec.
NodeSize(n) ==
    FoldLeft(LAMBDA a, f : a + Len(PrimCells(f[2], n[f[1]])), 0, NodeCodec.pre)
NodeCells(n) ==
    FlattenSeq([i \in 1..Len(NodeCodec.enc) |->
                  PrimCells(NodeCodec.enc[i][2], n[NodeCodec.enc[i][1]])])
DecNode(b, s) ==
    FoldLeft(LAMBDA r, f :
               IF ~r.ok THEN r
               ELSE LET e == DecPrim(f[2], b, r.at)
                    IN  IF e.ok THEN Got(r.val @@ (f[1] :> e.val), e.at) ELSE Fail,
             Got([x \in {} |-> 0], s), NodeCodec.dec)

\* Mutant of NodesSize: the array's length prefix is left out of the size.
NodesSizeNoPrefix(v) ==
    FoldLeft(LAMBDA a, n : a + NodeSize(n), 0, v)

\* impl CompactEncoding<Vec<Node>>: the length, then each node.
NodesSize(v) ==
    FoldLeft(LAMBDA a, n : a + NodeSize(n), Len(VarintCells(Len(v))), v)
NodesCells(v) ==
    VarintCells(Len(v)) \o FlattenSeq([i \in 1..Len(v) |-> NodeCells(v[i])])
\* The code loops len times and fails at the first node that runs past the
\* end; a node takes at least one byte, so a len above the bytes left
\* always fails, which the guard decides without the loop.  What the code
\* allocates first is Reserved, below.
DecNodes(b, s) ==
    LET l == DecVarint(b, s)
    IN  IF ~l.ok \/ l.val > Len(b) - l.at THEN Fail
        ELSE FoldLeft(LAMBDA r, i :
                        IF ~r.ok THEN r
                        ELSE LET e == DecNode(b, r.at)
                             IN  IF e.ok THEN Got(Append(r.val, e.val), e.at)
                                 ELSE Fail,
                      Got(<< >>, l.at), [i \in 1..l.val |-> i])

\* The wire messages: one codec per impl block of src/encoding.rs.
RequestBlockCodec ==
    LET fs == << F("index", "u64"), F("nodes", "u64") >>
    IN  [pre |-> fs, enc |-> fs, dec |-> fs]
RequestSeekCodec ==
    LET fs == << F("bytes", "u64") >>
    IN  [pre |-> fs, enc |-> fs, dec |-> fs]
RequestUpgradeCodec ==
    LET fs == << F("start", "u64"), F("length", "u64") >>
    IN  [pre |-> fs, enc |-> fs, dec |-> fs]
DataBlockCodec ==
    LET fs == << F("index", "u64"), F("value", "bytes"), F("nodes", "nodes") >>
    IN  [pre |-> fs, enc |-> fs, dec |-> fs]
DataHashCodec ==
    LET fs == << F("index", "u64"), F("nodes", "nodes") >>
    IN  [pre |-> fs, enc |-> fs, dec |-> fs]
DataSeekCodec ==
    LET fs == << F("bytes", "u64"), F("nodes", "nodes") >>
    IN  [pre |-> fs, enc |-> fs, dec |-> fs]
\* Mutant of DataUpgradeCodec: decode stops before the signature.
DataUpgradeCodecNoSignature ==
    LET fs == << F("start", "u64"), F("length", "u64"), F("nodes", "nodes"),
                 F("additional_nodes", "nodes"), F("signature", "bytes") >>
    IN  [pre |-> fs, enc |-> fs, dec |-> SubSeq(fs, 1, 4)]
DataUpgradeCodec ==
    LET fs == << F("start", "u64"), F("length", "u64"), F("nodes", "nodes"),
                 F("additional_nodes", "nodes"), F("signature", "bytes") >>
    IN  [pre |-> fs, enc |-> fs, dec |-> fs]

\* impl CompactEncoding<Header> for State, with the HeaderTypes,
\* HeaderTree, HeaderSigner and HeaderHints impls it calls inlined.
\* "version" is the leading version byte: preencode adds 1 to `start`,
\* encode writes buffer[0] = 0 and adds 1 to `start`, decode reads a usize
\* and panics unless it is 0.  A None secret key preencodes as 1 byte and
\* encodes as a 0 byte: the encoding of an empty Box<[u8]>.
HeaderCodec ==
    LET fs == << F("version", "version"),
                 F("types.tree", "bytes"), F("types.bitfield", "bytes"),
                 F("types.signer", "bytes"),
                 F("tree.fork", "u64"), F("tree.length", "u64"),
                 F("signer.public_key", "key"), F("signer.secret_key", "optkey"),
                 F("hints.reorgs", "strings"),
                 F("contiguous_length", "u64") >>
    IN  [pre |-> fs, enc |-> fs, dec |-> fs]

Codec(k) ==
    CASE k = "Node"           -> NodeCodec
      [] k = "Nodes"          -> [pre |-> << F("nodes", "nodes") >>,
                                  enc |-> << F("nodes", "nodes") >>,
                                  dec |-> << F("nodes", "nodes") >>]
      [] k = "RequestBlock"   -> RequestBlockCodec
      [] k = "RequestSeek"    -> RequestSeekCodec
      [] k = "RequestUpgrade" -> RequestUpgradeCodec
      [] k = "DataBlock"      -> DataBlockCodec
      [] k = "DataHash"       -> DataHashCodec
      [] k = "DataSeek"       -> DataSeekCodec
      [] k = "DataUpgrade"    -> DataUpgradeCodec
      [] k = "Header"         -> HeaderCodec

-----------------------------------------------------------------------------
(* The three passes over a field list.                                     *)

FieldSize(kind, v) ==
    CASE kind = "nodes" -> NodesSize(v)
      [] kind \in {"key", "optkey"} -> Len(PrimCells("bytes", v))
      [] OTHER -> Len(PrimCells(kind, v))

FieldCells(kind, v) ==
    CASE kind = "nodes" -> NodesCells(v)
      [] kind \in {"key", "optkey"} -> PrimCells("bytes", v)
      [] OTHER -> PrimCells(kind, v)

DecField(kind, b, s) ==
    CASE kind = "nodes"   -> DecNodes(b, s)
      [] kind = "key"     -> DecKey(b, s, FALSE)
      [] kind = "optkey"  -> DecKey(b, s, TRUE)
      [] kind = "version" -> LET v == DecVarint(b, s)
                             IN  IF v.ok /\ v.val = 0 THEN v ELSE Fail
      [] OTHER            -> DecPrim(kind, b, s)

\* preencode: each field adds its size to `end`; the version byte adds 1
\* to `start` (oplog/mod.rs line 192).
Preencode(fs, m, s) ==
    FoldLeft(LAMBDA t, f :
               IF f[2] = "version" THEN [t EXCEPT !.start = @ + 1]
               ELSE [t EXCEPT !.end = @ + FieldSize(f[2], m[f[1]])],
             s, fs)

\* Write cells at `start` and advance it; a write past the end of the
\* buffer panics (buffer[self.start] = ..) or is Err(OutOfBounds).
Put(r, cells) ==
    IF r.st.start + Len(cells) <= Len(r.buf)
    THEN [ok  |-> TRUE,
          buf |-> [i \in 1..Len(r.buf) |->
                     IF r.st.start < i /\ i <= r.st.start + Len(cells)
                     THEN cells[i - r.st.start] ELSE r.buf[i]],
          st  |-> [r.st EXCEPT !.start = @ + Len(cells)]]
    ELSE [r EXCEPT !.ok = FALSE]

\* encode: each field written at `start`; the version byte at index 0.
Encode(fs, m, s, b) ==
    FoldLeft(LAMBDA r, f :
               IF ~r.ok THEN r
               ELSE IF f[2] = "version"
                 THEN IF Len(r.buf) >= 1
                      THEN [r EXCEPT !.buf[1] = 0, !.st.start = @ + 1]
                      ELSE [r EXCEPT !.ok = FALSE]
               ELSE Put(r, FieldCells(f[2], m[f[1]])),
             [ok |-> TRUE, buf |-> b, st |-> s], fs)

\* decode from State::from_buffer (start 0): each field read in turn.
Decode(fs, b) ==
    FoldLeft(LAMBDA r, f :
               IF ~r.ok THEN r
               ELSE LET e == DecField(f[2], b, r.at)
                    IN  IF ~e.ok THEN Fail
                        ELSE IF f[2] = "version" THEN Got(r.val, e.at)
                        ELSE Got(r.val @@ (f[1] :> e.val), e.at),
             Got([x \in {} |-> 0], 0), fs)

\* The allocation of a decode: each array<Node> field reads its length and
\* calls Vec::with_capacity(len) before decoding any element; the largest
\* such length over the fields decode reaches.
Reserved(fs, b) ==
    FoldLeft(LAMBDA r, f :
               IF ~r.ok THEN r
               ELSE LET e == DecField(f[2], b, r.at)
                        l == DecVarint(b, r.at)
                    IN  [ok  |-> e.ok, at |-> e.at,
                         cap |-> IF f[2] = "nodes" /\ l.ok /\ l.val > r.cap
                                 THEN l.val ELSE r.cap],
             [ok |-> TRUE, at |-> 0, cap |-> 0], fs).cap

-----------------------------------------------------------------------------
(* The values a run encodes: every combination of field values from the   *)
(* bounded sets.                                                           *)

NodeVals ==
    {[index |-> i, length |-> l, hash |-> h] : i \in Uints, l \in Uints, h \in Hashes}

FieldVals(kind) ==
    CASE kind = "u64"     -> Uints
      [] kind = "bytes"   -> Payloads
      [] kind = "fixed32" -> Hashes
      [] kind = "key"     -> Hashes
      [] kind = "optkey"  -> Hashes \cup {<< >>}
      [] kind = "strings" -> {<< >>} \cup {<< p >> : p \in Payloads}
      [] kind = "nodes"   -> BoundedSeq(NodeVals, MaxNodes)

Msgs(k) ==
    FoldLeft(LAMBDA acc, f :
               IF f[2] = "version" THEN acc
               ELSE {m @@ (f[1] :> v) : m \in acc, v \in FieldVals(f[2])},
             {[x \in {} |-> 0]}, Codec(k).enc)

-----------------------------------------------------------------------------
NoState == [start |-> 0, end |-> 0]

Init ==
    /\ msg = [kind |-> "none", val |-> [x \in {} |-> 0]]
    /\ st = NoState
    /\ buf = << >>
    /\ phase = "idle"
    /\ out = Fail
    /\ reserved = 0

\* A value of type k is handed to the codec with State::new().
Pick(k, m) ==
    /\ phase \in {"idle", "decoded", "overflow", "received"}
    /\ msg' = [kind |-> k, val |-> m]
    /\ st' = NoState
    /\ buf' = << >>
    /\ phase' = "new"
    /\ out' = Fail
    /\ reserved' = 0

\* state.preencode(&value).
DoPreencode ==
    /\ phase = "new"
    /\ st' = Preencode(Codec(msg.kind).pre, msg.val, st)
    /\ phase' = "preencoded"
    /\ UNCHANGED <<msg, buf, out, reserved>>

\* state.create_buffer(): `end` zero bytes; the State is kept.
Alloc ==
    /\ phase = "preencoded"
    /\ buf' = [i \in 1..st.end |-> 0]
    /\ phase' = "allocated"
    /\ UNCHANGED <<msg, st, out, reserved>>

\* state.encode(&value, &mut buffer).
DoEncode ==
    /\ phase = "allocated"
    /\ LET r == Encode(Codec(msg.kind).enc, msg.val, st, buf)
       IN  /\ st' = r.st
           /\ buf' = r.buf
           /\ phase' = IF r.ok THEN "encoded" ELSE "overflow"
    /\ UNCHANGED <<msg, out, reserved>>

\* The buffer crosses the wire and arrives with byte i replaced by v: a
\* faulty or hostile peer, since wire messages are decoded from whatever
\* bytes a peer sends.
Tamper(i, v) ==
    /\ phase = "encoded"
    /\ buf[i] # v
    /\ buf' = [buf EXCEPT ![i] = v]
    /\ phase' = "tampered"
    /\ UNCHANGED <<msg, st, out, reserved>>

\* State::from_buffer(&buffer).decode(): the decoded value, or the error,
\* of the bytes encode wrote or of the bytes received.
DoDecode ==
    /\ phase \in {"encoded", "tampered"}
    /\ LET r == Decode(Codec(msg.kind).dec, buf)
       IN  out' = [ok |-> r.ok, val |-> r.val, at |-> r.at]
    /\ reserved' = Reserved(Codec(msg.kind).dec, buf)
    /\ phase' = IF phase = "encoded" THEN "decoded" ELSE "received"
    /\ UNCHANGED <<msg, st, buf>>

Next ==
    \/ \E k \in Kinds : \E m \in Msgs(k) : Pick(k, m)
    \/ DoPreencode
    \/ Alloc
    \/ DoEncode
    \/ \E i \in TamperAt \cap 1..Len(buf) : \E v \in Tampers : Tamper(i, v)
    \/ DoDecode

Spec == Init /\ [][Next]_vars

-----------------------------------------------------------------------------
TypeOK ==
    /\ phase \in {"idle", "new", "preencoded", "allocated", "encoded",
                  "decoded", "overflow", "tampered", "received"}
    /\ st \in [start : Nat, end : Nat]
    /\ buf \in Seq(0..255)
    /\ out.ok \in BOOLEAN /\ out.at \in Nat
    /\ reserved \in Nat
    /\ phase = "decoded" /\ out.ok => out.val \in Msgs(msg.kind)

\* Spec 6 and every encode call in src/encoding.rs and oplog/mod.rs: the
\* bytes encode writes are exactly the `end` preencode computed, so the
\* buffer create_buffer allocates is never overrun and has no slack.
EncodeExact ==
    /\ phase # "overflow"
    /\ phase \in {"encoded", "decoded", "tampered", "received"} =>
         st.start = Len(buf)

\* Spec 8.3 (round trip) for every message type: decoding what encode
\* wrote yields the value encoded, with no bytes left over.
RoundTrip ==
    phase = "decoded" => out = [ok |-> TRUE, val |-> msg.val, at |-> Len(buf)]

\* A decoder of bytes from a peer reserves memory in proportion to the
\* bytes it was given: Vec<Node> decode never asks Vec::with_capacity for
\* more nodes than the buffer has bytes (a node takes at least 34).
DecodeReserveBounded == reserved <= Len(buf)
=============================================================================
