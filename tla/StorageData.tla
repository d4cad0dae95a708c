---------------------------- MODULE StorageData ----------------------------
(***************************************************************************)
(* The block half of src/storage/mod.rs: node records in the `tree`        *)
(* segment (put_node, get_node), the byte range of a block computed from   *)
(* them (data_offset), and block writes and reads through that range       *)
(* (put_data, get_data).                                                   *)
(*                                                                         *)
(* The callers of these functions are not in src/ (replication verifies a  *)
(* block and its proof, then stores nodes and data in whatever order it    *)
(* receives them), so the environment adds verified blocks to the log and  *)
(* stores any node of the current tree, in any order.  A node record is    *)
(* abstracted to its length (its hash commits to the bytes under it); a    *)
(* record never written inside the segment reads as zero bytes, which      *)
(* Node::from_bytes decodes as a node of length 0.                         *)
(***************************************************************************)
EXTENDS Naturals, Sequences, SequencesExt, FiniteSetsExt, FlatTree

CONSTANTS
    Values,    \* the byte values a payload is made of (model values)
    ZeroByte,  \* what a read returns for a data cell never written
    Lens,      \* the byte lengths a block may have
    MaxBlocks  \* bound: the most blocks the log grows to

ASSUME StorageAssumption ==
    /\ ZeroByte \notin Values
    /\ Lens \subseteq Nat
    /\ MaxBlocks \in Nat

VARIABLES
    blocks,   \* the verified log: Seq of payloads (block i is blocks[i + 1])
    treeSeg,  \* the tree segment's node records: record f is treeSeg[f + 1]
    stored,   \* ghost: flat indices put_node has written
    data,     \* the data segment: Seq of byte cells
    written,  \* ghost: block indices put_data stored (returned Ok with data)
    result    \* ghost: the outcome of the last put_data / get_data

vars == <<blocks, treeSeg, stored, data, written, result>>

NoResult == [op |-> "none", index |-> 0, ok |-> TRUE, bytes |-> << >>]

-----------------------------------------------------------------------------
\* Reference: the byte length of node f, the sum of its blocks' lengths
\* (spec 3), and the byte offset of block i, the sum of the lengths before it.
NodeLen(f) == SumFunction([b \in Blocks(f) |-> Len(blocks[b + 1])])
ByteOffset(i) == SumFunction([b \in 0..(i - 1) |-> Len(blocks[b + 1])])

\* The flat indices of the nodes of the tree over the current log.
TreeNodes == {f \in 0..(2 * Len(blocks)) : Blocks(f) \subseteq 0..(Len(blocks) - 1)}

\* Mutant of WriteRecord: the backend's write sets the segment's length to
\* the end of the record, dropping the records after it.
WriteRecordTruncates(s, f, len) ==
    [i \in 1..(f + 1) |-> IF i = f + 1 THEN len ELSE IF i <= Len(s) THEN s[i] ELSE 0]

\* put_node: write the 40-byte record at HEADER_OFFSET + 40 * index; the
\* records skipped past the old end are zero-filled.
WriteRecord(s, f, len) ==
    [i \in 1..(IF Len(s) > f THEN Len(s) ELSE f + 1) |->
        IF i = f + 1 THEN len ELSE IF i <= Len(s) THEN s[i] ELSE 0]

\* get_node: Ok(length of record f) when the read is inside the segment.
NodeReadable(f) == f < Len(treeSeg)
NodeAt(f) == treeSeg[f + 1]

\* Mutant of DataOffset: the loop returns after the first root instead of
\* counting `pending` down to the last one.
DataOffsetFirstRoot(index, cached) ==
    LET roots  == RootCover(index)
        leaf   == TreeIndex(index)
        offset == IF roots = {} THEN 0 ELSE NodeAt(Min(roots))
        len    == IF leaf \in cached THEN NodeLen(leaf) ELSE NodeAt(leaf)
    IN  IF /\ \A r \in roots : NodeReadable(r)
           /\ leaf \in cached \/ NodeReadable(leaf)
        THEN [ok |-> TRUE, start |-> offset, end |-> offset + len]
        ELSE [ok |-> FALSE, start |-> 0, end |-> 0]

\* find_node over the cached nodes handed to data_offset: the proof nodes,
\* a set of flat indices whose lengths are those of the tree.
\* data_offset(index, cached_nodes): offset is the sum of the lengths of the
\* full roots left of the leaf, each read with get_node (the cache lookup
\* for roots is commented out, FIXME at line 266); the length is the
\* leaf's, from the cache if there, else get_node.  A failed read is Err.
DataOffset(index, cached) ==
    LET roots  == RootCover(index)
        leaf   == TreeIndex(index)
        offset == SumFunction([r \in roots |-> NodeAt(r)])
        len    == IF leaf \in cached THEN NodeLen(leaf) ELSE NodeAt(leaf)
    IN  IF /\ \A r \in roots : NodeReadable(r)
           /\ leaf \in cached \/ NodeReadable(leaf)
        THEN [ok |-> TRUE, start |-> offset, end |-> offset + len]
        ELSE [ok |-> FALSE, start |-> 0, end |-> 0]

\* RandomAccess::write(offset, bytes) on the data segment.
WriteAt(s, off, b) ==
    LET n == IF Len(s) >= off + Len(b) THEN Len(s) ELSE off + Len(b)
    IN  [i \in 1..n |-> IF off < i /\ i <= off + Len(b) THEN b[i - off]
                        ELSE IF i <= Len(s) THEN s[i] ELSE ZeroByte]

-----------------------------------------------------------------------------
\* Storage::new over fresh backends: the tree segment gets only its 32-byte
\* header (create_tree), so no node record; the data segment stays empty.
Init ==
    /\ blocks = << >>
    /\ treeSeg = << >>
    /\ stored = {}
    /\ data = << >>
    /\ written = {}
    /\ result = NoResult

\* Environment: a block is verified and becomes part of the log.
AddBlock(b) ==
    /\ Len(blocks) < MaxBlocks
    /\ blocks' = Append(blocks, b)
    /\ UNCHANGED <<treeSeg, stored, data, written, result>>

\* Mutant of PutNode: the record stores the index of the node's last byte
\* (length - 1) instead of its length.
PutNodeLastByte(f) ==
    /\ treeSeg' = WriteRecord(treeSeg, f, NodeLen(f) - 1)
    /\ stored' = stored \cup {f}
    /\ UNCHANGED <<blocks, data, written, result>>

\* put_node(node) for a node of the current tree.
PutNode(f) ==
    /\ treeSeg' = WriteRecord(treeSeg, f, NodeLen(f))
    /\ stored' = stored \cup {f}
    /\ UNCHANGED <<blocks, data, written, result>>

\* put_data(index, data, nodes): an empty block returns Ok at once; else
\* the range from data_offset, the length check, the write.
PutData(index, cached) ==
    LET b == blocks[index + 1]
        r == DataOffset(index, cached)
        ok == r.ok /\ r.end - r.start = Len(b)
    IN  /\ IF b = << >>
             THEN UNCHANGED <<data, written>>
           ELSE IF ok
             THEN /\ data' = WriteAt(data, r.start, b)
                  /\ written' = written \cup {index}
             ELSE UNCHANGED <<data, written>>
        /\ result' = [op |-> "put", index |-> index,
                      ok |-> (b = << >> \/ ok), bytes |-> << >>]
        /\ UNCHANGED <<blocks, treeSeg, stored>>

\* get_data(index): data_offset with no cached nodes, then a read of the
\* range, which fails past the end of the segment.
GetData(index) ==
    LET r == DataOffset(index, {})
        ok == r.ok /\ r.end <= Len(data)
    IN  /\ result' = [op |-> "get", index |-> index, ok |-> ok,
                      bytes |-> IF ok THEN SubSeq(data, r.start + 1, r.end)
                                      ELSE << >>]
        /\ UNCHANGED <<blocks, treeSeg, stored, data, written>>

Next ==
    \/ \E n \in Lens : \E b \in [1..n -> Values] : AddBlock(b)
    \/ \E f \in TreeNodes : PutNode(f)
    \/ \E i \in 0..(Len(blocks) - 1) :
         \/ \E c \in {{}, {TreeIndex(i)}} : PutData(i, c)
         \/ GetData(i)

Spec == Init /\ [][Next]_vars

-----------------------------------------------------------------------------
TypeOK ==
    /\ blocks \in Seq(Seq(Values))
    /\ treeSeg \in Seq(Nat)
    /\ stored \in SUBSET Nat
    /\ data \in Seq(Values \cup {ZeroByte})
    /\ written \in SUBSET Nat
    /\ result \in [op : {"none", "put", "get"}, index : Nat, ok : BOOLEAN,
                   bytes : Seq(Values \cup {ZeroByte})]

\* data_offset (full_roots, the summing loop with its `pending` count and
\* the pending == 0 case of block 0) returns the block's true byte range
\* whenever the roots left of the block and its leaf have been stored,
\* for every log and every order in which nodes were stored.
OffsetCorrect ==
    \A i \in 0..(Len(blocks) - 1) :
        RootCover(i) \cup {TreeIndex(i)} \subseteq stored =>
            DataOffset(i, {}) = [ok |-> TRUE, start |-> ByteOffset(i),
                                 end |-> ByteOffset(i) + Len(blocks[i + 1])]

\* Every node record put_node wrote still reads back (get_node) as that
\* node's true length, after any later put_node of another node (its zero
\* fill of skipped records included) and any growth of the log: the 40-byte
\* records at HEADER_OFFSET + 40 * index never overlap.
StoredRecords ==
    \A f \in stored : NodeReadable(f) /\ NodeAt(f) = NodeLen(f)

\* Spec 4.2/8.4: a block put_data stored lies at its own byte range, so no
\* later put_data of another block overwrites it.
PutDataInPlace ==
    \A i \in written :
        /\ ByteOffset(i) + Len(blocks[i + 1]) <= Len(data)
        /\ SubSeq(data, ByteOffset(i) + 1, ByteOffset(i) + Len(blocks[i + 1]))
             = blocks[i + 1]

\* The FIXME above get_data (storage/mod.rs line 180): "data_offset always
\* reads out index 0, length 0", i.e. get_data never returns a block's bytes.
GetDataReadsNothing ==
    result.op = "get" => result.bytes = << >>

=============================================================================
