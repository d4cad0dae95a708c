------------------------- MODULE StorageDataProofs -------------------------
(***************************************************************************)
(* Proofs about the block half of Storage for every value of the           *)
(* constants: a node record put_node wrote always reads back as the        *)
(* node's true length (StoredRecords), and so data_offset, once the roots  *)
(* left of a block and its leaf are stored, returns the sum of the true    *)
(* root lengths and the true leaf length.  That this sum is the block's    *)
(* byte offset (the roots partition the blocks before it) is arithmetic    *)
(* over sums of any size, left to TLC (OffsetCorrect).                    *)
(***************************************************************************)
EXTENDS StorageData, SequenceTheorems, TLAPS

\* The values a node record may hold: zero (a record never written) or a
\* sum of natural numbers over a set of block indices.  Which natural
\* number such a sum is needs induction over the set, so the proofs only
\* rely on a record being one of these values.
SumVals == {SumFunction(g) : g \in UNION {[S -> Nat] : S \in SUBSET Int}}
RecordVals == Nat \cup SumVals

\* The inductive invariant: the log and the tree segment are sequences,
\* put_node has only written nodes of the current tree, and every record
\* it wrote holds its node's length.
SInv ==
    /\ blocks \in Seq(Seq(Values))
    /\ treeSeg \in Seq(RecordVals)
    /\ stored \subseteq TreeNodes
    /\ StoredRecords

\* A node of the tree over the log has a length that is such a sum.
LEMMA NodeLenType ==
    ASSUME NEW f \in TreeNodes, blocks \in Seq(Seq(Values))
    PROVE  NodeLen(f) \in SumVals
<1> DEFINE g == [b \in Blocks(f) |-> Len(blocks[b + 1])]
<1>1. Blocks(f) \subseteq 0..(Len(blocks) - 1)
    BY DEF TreeNodes
<1>2. \A b \in Blocks(f) : blocks[b + 1] \in Seq(Values)
    BY <1>1, ElementOfSeq, LenProperties
<1>3. g \in [Blocks(f) -> Nat]
    BY <1>2, LenProperties
<1>4. Blocks(f) \in SUBSET Int
    BY <1>1, LenProperties
<1>5. QED
    BY <1>3, <1>4 DEF NodeLen, SumVals

\* put_node's write keeps every other record, puts the new one at f + 1,
\* and only grows the segment.
LEMMA WriteRecordProps ==
    ASSUME NEW R, NEW s \in Seq(R), NEW f \in Nat, NEW v \in R, 0 \in R
    PROVE  /\ WriteRecord(s, f, v) \in Seq(R)
           /\ Len(WriteRecord(s, f, v)) >= Len(s)
           /\ f < Len(WriteRecord(s, f, v))
           /\ WriteRecord(s, f, v)[f + 1] = v
           /\ \A i \in 1..Len(s) : i # f + 1 => WriteRecord(s, f, v)[i] = s[i]
<1> DEFINE n == IF Len(s) > f THEN Len(s) ELSE f + 1
           e(i) == IF i = f + 1 THEN v ELSE IF i <= Len(s) THEN s[i] ELSE 0
<1>1. n \in Nat /\ n >= Len(s) /\ n > f
    BY LenProperties
<1>2. \A i \in 1..n : e(i) \in R
    BY ElementOfSeq
<1>3. WriteRecord(s, f, v) = [i \in 1..n |-> e(i)]
    BY DEF WriteRecord
<1>4. [i \in 1..n |-> e(i)] \in Seq(R) /\ Len([i \in 1..n |-> e(i)]) = n
    BY <1>1, <1>2, IsASeq, LenProperties
<1>5. QED
    BY <1>1, <1>3, <1>4, LenProperties

\* Appending a block to the log keeps a node of the old tree in the tree
\* and keeps its length: the blocks under it are unchanged.
LEMMA AppendKeepsNode ==
    ASSUME blocks \in Seq(Seq(Values)), NEW x \in Seq(Values),
           blocks' = Append(blocks, x), NEW f \in TreeNodes
    PROVE  f \in TreeNodes' /\ NodeLen(f)' = NodeLen(f)
<1>1. Blocks(f) \subseteq 0..(Len(blocks) - 1) /\ f \in 0..(2 * Len(blocks))
    BY DEF TreeNodes
<1>2. Len(blocks') = Len(blocks) + 1
      /\ \A k \in 1..Len(blocks) : blocks'[k] = blocks[k]
    BY AppendProperties
<1>3. f \in TreeNodes'
    BY <1>1, <1>2, LenProperties DEF TreeNodes
<1>4. [b \in Blocks(f) |-> Len(blocks'[b + 1])]
        = [b \in Blocks(f) |-> Len(blocks[b + 1])]
    BY <1>1, <1>2, LenProperties
<1>5. QED
    BY <1>3, <1>4 DEF NodeLen

-----------------------------------------------------------------------------
THEOREM SInvInit == Init => SInv
<1> SUFFICES ASSUME Init PROVE SInv
    OBVIOUS
<1>1. << >> \in Seq(Seq(Values)) /\ << >> \in Seq(RecordVals)
    BY EmptySeq
<1>2. QED
    BY <1>1 DEF Init, SInv, StoredRecords

THEOREM SInvStep == SInv /\ [Next]_vars => SInv'
<1> SUFFICES ASSUME SInv, [Next]_vars PROVE SInv'
    OBVIOUS
<1>0. /\ blocks \in Seq(Seq(Values))
      /\ treeSeg \in Seq(RecordVals)
      /\ stored \subseteq TreeNodes
      /\ StoredRecords
    BY DEF SInv
\* A verified block joins the log: the tree segment is untouched and no
\* stored node changes its length.
<1>1. ASSUME NEW n \in Lens, NEW b \in [1..n -> Values], AddBlock(b)
      PROVE  SInv'
    <2>1. b \in Seq(Values)
        BY StorageAssumption, SeqDef
    <2>2. blocks' = Append(blocks, b) /\ UNCHANGED <<treeSeg, stored>>
        BY <1>1 DEF AddBlock
    <2>3. blocks' \in Seq(Seq(Values))
        BY <1>0, <2>1, <2>2, AppendProperties
    <2>4. \A f \in stored : f \in TreeNodes' /\ NodeLen(f)' = NodeLen(f)
        BY <1>0, <2>1, <2>2, AppendKeepsNode
    <2>5. QED
        BY <1>0, <2>2, <2>3, <2>4 DEF SInv, StoredRecords, NodeReadable, NodeAt
\* put_node writes node f's record and leaves the others as they were.
<1>2. ASSUME NEW f \in TreeNodes, PutNode(f) PROVE SInv'
    <2>1. f \in Nat
        BY DEF TreeNodes
    <2>2. NodeLen(f) \in RecordVals /\ 0 \in RecordVals
        BY <1>0, NodeLenType DEF RecordVals
    <2> DEFINE r == WriteRecord(treeSeg, f, NodeLen(f))
    <2>3. /\ r \in Seq(RecordVals)
          /\ Len(r) >= Len(treeSeg)
          /\ f < Len(r)
          /\ r[f + 1] = NodeLen(f)
          /\ \A i \in 1..Len(treeSeg) : i # f + 1 => r[i] = treeSeg[i]
        BY <1>0, <2>1, <2>2, WriteRecordProps
    <2> HIDE DEF r
    <2>4. treeSeg' = r /\ stored' = stored \cup {f} /\ UNCHANGED blocks
        BY <1>2 DEF PutNode, r
    <2>5. StoredRecords'
        <3> SUFFICES ASSUME NEW g \in stored'
                     PROVE  g < Len(treeSeg') /\ treeSeg'[g + 1] = NodeLen(g)'
            BY DEF StoredRecords, NodeReadable, NodeAt
        <3>1. NodeLen(g)' = NodeLen(g)
            BY <2>4 DEF NodeLen
        <3>2. CASE g = f
            BY <3>1, <3>2, <2>3, <2>4
        <3>3. CASE g # f
            <4>1. g \in stored /\ g \in Nat
                BY <3>3, <2>4, <1>0 DEF TreeNodes
            <4>2. g < Len(treeSeg) /\ treeSeg[g + 1] = NodeLen(g)
                BY <4>1, <1>0 DEF StoredRecords, NodeReadable, NodeAt
            <4>3. g + 1 \in 1..Len(treeSeg) /\ g + 1 # f + 1
                BY <4>1, <4>2, <3>3, <2>1, <1>0, LenProperties
            <4>4. Len(r) \in Nat /\ Len(treeSeg) \in Nat
                BY <2>3, <1>0, LenProperties
            <4>5. g < Len(r)
                BY <4>1, <4>2, <4>4, <2>3
            <4>6. r[g + 1] = NodeLen(g)
                BY <4>2, <4>3, <2>3
            <4>7. QED
                BY <4>5, <4>6, <3>1, <2>4
        <3>4. QED
            BY <3>2, <3>3
    <2>6. stored' \subseteq TreeNodes'
        BY <2>4, <1>0 DEF TreeNodes
    <2>7. QED
        BY <2>3, <2>4, <2>5, <2>6, <1>0 DEF SInv
\* put_data and get_data write only the data segment and the result.
<1>3. CASE UNCHANGED <<blocks, treeSeg, stored>>
    <2>1. StoredRecords' = StoredRecords /\ TreeNodes' = TreeNodes
        BY <1>3 DEF StoredRecords, NodeReadable, NodeAt, NodeLen, TreeNodes
    <2>2. QED
        BY <1>0, <1>3, <2>1 DEF SInv
<1>4. QED
    <2>1. ASSUME NEW i \in 0..(Len(blocks) - 1), NEW c, PutData(i, c)
          PROVE  UNCHANGED <<blocks, treeSeg, stored>>
        BY <2>1 DEF PutData
    <2>2. ASSUME NEW i \in 0..(Len(blocks) - 1), GetData(i)
          PROVE  UNCHANGED <<blocks, treeSeg, stored>>
        BY <2>2 DEF GetData
    <2>3. QED
        BY <1>1, <1>2, <1>3, <2>1, <2>2 DEF Next, vars

\* Every record put_node (storage/mod.rs 306-317) wrote reads back as its
\* node's length through any later put_node, zero fill and log growth.
THEOREM StoredRecordsHold == Spec => []StoredRecords
<1>1. SInv => StoredRecords
    BY DEF SInv
<1>2. QED
    BY <1>1, SInvInit, SInvStep, PTL DEF Spec

\* The sum of the true lengths of the full roots left of block i.
RootSum(i) == SumFunction([r \in RootCover(i) |-> NodeLen(r)])

\* data_offset (storage/mod.rs 243-292) with no cached nodes, for a block
\* whose roots and leaf put_node stored, succeeds and returns the true
\* lengths: the sum of the roots' lengths as the start, and the start plus
\* the leaf's length as the end.
OffsetFromStoredNodes ==
    \A i \in 0..(Len(blocks) - 1) :
        RootCover(i) \cup {TreeIndex(i)} \subseteq stored =>
            DataOffset(i, {}) = [ok |-> TRUE, start |-> RootSum(i),
                                 end |-> RootSum(i) + NodeLen(TreeIndex(i))]

\* data_offset over stored records: the roots and the leaf read back as
\* their lengths, so the range is their sum and the leaf's length after it.
LEMMA OffsetFromRecords ==
    ASSUME StoredRecords, NEW i, RootCover(i) \cup {TreeIndex(i)} \subseteq stored
    PROVE  DataOffset(i, {}) = [ok |-> TRUE, start |-> RootSum(i),
                                end |-> RootSum(i) + NodeLen(TreeIndex(i))]
<1>1. \A r \in RootCover(i) \cup {TreeIndex(i)} :
         NodeReadable(r) /\ NodeAt(r) = NodeLen(r)
    BY DEF StoredRecords
<1>2. [r \in RootCover(i) |-> NodeAt(r)] = [r \in RootCover(i) |-> NodeLen(r)]
    BY <1>1
<1>3. TreeIndex(i) \notin {}
    OBVIOUS
<1> HIDE DEF NodeAt, NodeLen, NodeReadable
<1>4. QED
    BY <1>1, <1>2, <1>3 DEF DataOffset, RootSum

THEOREM OffsetFromStoredNodesHolds == Spec => []OffsetFromStoredNodes
<1>1. StoredRecords => OffsetFromStoredNodes
    BY OffsetFromRecords DEF OffsetFromStoredNodes
<1>2. QED
    BY <1>1, StoredRecordsHold, PTL
=============================================================================
