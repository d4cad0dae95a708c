--------------------------- MODULE MC_CompactCodec ---------------------------
EXTENDS CompactCodec

\* u64 values on both sides of the one-byte / 2-byte boundary (252, 253)
\* and one that takes the 4-byte form.
MCUints == {0, 253, 65536}
\* An empty and a one-byte payload; one 32-byte hash.
MCPayloads == {<< >>, << 7 >>}
MCHashes == {[i \in 1..32 |-> 9]}
\* The message types of src/encoding.rs.
MCWireKinds == {"Node", "Nodes", "RequestBlock", "RequestSeek", "RequestUpgrade",
                "DataBlock", "DataHash", "DataSeek", "DataUpgrade"}
\* A peer's byte: the largest one-byte length (an array claiming 252
\* elements, or a misread tag).
MCTampers == {252}
\* The first two bytes: a message's leading length or tag, and the byte
\* after it (a varint's first value byte, or a misaligned read).
MCTamperAt == {1, 2}
\* No tampering.
MCNoTampers == {}
\* The oplog header.
MCHeaderKinds == {"Header"}
=============================================================================
