-------------------------- MODULE HypercoreProofs --------------------------
(***************************************************************************)
(* Proofs about Hypercore for every value of the constants: the type       *)
(* invariant, DataBeforeOplog (a replayed tree upgrade never reaches past  *)
(* the end of the data segment) and AckedDurable (an acknowledged frame    *)
(* stays in the oplog body at its position).                               *)
(***************************************************************************)
EXTENDS Hypercore, SequenceTheorems, TLAPS

\* The inductive invariant.  DataBeforeOplog alone is not inductive: the
\* step that writes an entry (FlushOplog) needs that the changeset's bytes
\* already reach the data segment, which holds because FlushData wrote
\* them at tree.byteLength, and the tree has not moved since the changeset
\* was built from it.  OplogWrite at `pos` needs pos within the body.
\* AckedDurable is not inductive either: a frame write at `pos` keeps only
\* the frames before it, so every acknowledged frame must lie at or below
\* the Oplog's write position.
AckedWithinPos == \A a \in acked : a.at <= pos

IInv ==
    /\ TypeOK
    /\ pos <= Len(body)
    /\ DataBeforeOplog
    /\ pc # "idle" => /\ status = "up"
                      /\ cs.byteLength = tree.byteLength + Len(cs.bytes)
    /\ pc = "flushOplog" => cs.byteLength <= Len(data)
    /\ AckedDurable
    /\ AckedWithinPos

Cells == Values \cup {ZeroByte}

\* A bounded sequence is a sequence.
LEMMA BoundedSeqIsSeq ==
    ASSUME NEW S, NEW n, NEW s \in BoundedSeq(S, n)
    PROVE  s \in Seq(S)
<1>1. PICK m \in 0..n : s \in [1..m -> S]
    BY DEF BoundedSeq, SeqOf
<1>2. QED
    BY <1>1, SeqDef

\* WriteAt yields a sequence of cells as long as the longer of the old
\* segment and the end of the write.
LEMMA WriteAtType ==
    ASSUME NEW s \in Seq(Cells), NEW off \in Nat, NEW b \in Seq(Values)
    PROVE  /\ WriteAt(s, off, b) \in Seq(Cells)
           /\ Len(WriteAt(s, off, b)) >= Len(s)
           /\ Len(WriteAt(s, off, b)) >= off + Len(b)
<1> DEFINE n == IF Len(s) >= off + Len(b) THEN Len(s) ELSE off + Len(b)
           e(i) == IF off < i /\ i <= off + Len(b) THEN b[i - off]
                   ELSE IF i <= Len(s) THEN s[i] ELSE ZeroByte
<1>1. n \in Nat
    BY LenProperties
<1>2. \A i \in 1..n : e(i) \in Cells
    BY ElementOfSeq DEF Cells
<1>3. WriteAt(s, off, b) = [i \in 1..n |-> e(i)]
    BY DEF WriteAt
<1>4. [i \in 1..n |-> e(i)] \in Seq(Cells)
    BY <1>1, <1>2, IsASeq
<1>5. Len([i \in 1..n |-> e(i)]) = n
    BY <1>1, <1>4, LenProperties
<1>6. QED
    BY <1>3, <1>4, <1>5

\* A frame written at position p < Len(b), followed by a run t of the
\* frames that came after the old frame at p + 1: the p frames before are
\* kept, the new frame is at p + 1, every frame is the new one or an old one.
LEMMA SpliceProps ==
    ASSUME NEW S, NEW b \in Seq(S), NEW p \in Nat, p < Len(b), NEW e \in S,
           NEW t \in Seq(S), Len(t) <= Len(b) - (p + 1),
           \A i \in 1..Len(t) : t[i] = b[p + 1 + i]
    PROVE  LET r == Append(SubSeq(b, 1, p), e) \o t
           IN  /\ r \in Seq(S)
               /\ Len(r) >= p + 1
               /\ \A i \in 1..p : r[i] = b[i]
               /\ r[p + 1] = e
               /\ \A i \in 1..Len(r) : r[i] = e \/ \E j \in 1..Len(b) : r[i] = b[j]
<1> DEFINE pre == SubSeq(b, 1, p)
           a   == Append(pre, e)
           r   == a \o t
<1>0. Len(b) \in Nat /\ Len(t) \in Nat
    BY LenProperties
<1>1. pre \in Seq(S) /\ Len(pre) = p /\ \A i \in 1..p : pre[i] = b[i]
    BY SubSeqProperties, ElementOfSeq
<1>2. /\ a \in Seq(S) /\ Len(a) = p + 1
      /\ \A i \in 1..p : a[i] = b[i]
      /\ a[p + 1] = e
    BY <1>1, AppendProperties
<1>3. /\ r \in Seq(S)
      /\ Len(r) = p + 1 + Len(t)
      /\ \A i \in 1..(p + 1 + Len(t)) :
            r[i] = IF i <= p + 1 THEN a[i] ELSE t[i - (p + 1)]
    BY <1>2, ConcatProperties
<1>4. \A i \in 1..Len(r) : r[i] = e \/ \E j \in 1..Len(b) : r[i] = b[j]
    <2> TAKE i \in 1..Len(r)
    <2>1. CASE i <= p
        <3>1. r[i] = a[i]
            BY <1>0, <1>3, <2>1
        <3>2. QED
            BY <3>1, <2>1, <1>2, <1>0
    <2>2. CASE i = p + 1
        BY <1>0, <1>3, <1>2, <2>2
    <2>3. CASE i > p + 1
        <3>1. r[i] = t[i - (p + 1)] /\ i - (p + 1) \in 1..Len(t)
            BY <1>0, <1>3, <2>3
        <3>2. QED
            BY <3>1, <1>0
    <2>4. QED
        BY <2>1, <2>2, <2>3, <1>0, <1>3
<1>5. QED
    BY <1>0, <1>2, <1>3, <1>4

\* Writing a frame at position p keeps the p frames before it, puts the
\* new frame at p + 1, and every frame of the result is the new one or a
\* frame of the old body (a torn tail only drops frames).
LEMMA OplogWriteProps ==
    ASSUME NEW S, NEW b \in Seq(S), NEW p \in 0..Len(b), NEW e \in S
    PROVE  LET r == OplogWrite(b, p, e)
           IN  /\ r \in Seq(S)
               /\ Len(r) >= p + 1
               /\ \A i \in 1..p : r[i] = b[i]
               /\ r[p + 1] = e
               /\ \A i \in 1..Len(r) : r[i] = e \/ \E j \in 1..Len(b) : r[i] = b[j]
<1>0. Len(b) \in Nat /\ p \in Nat
    BY LenProperties
<1>1. CASE p >= Len(b)
    <2>1. OplogWrite(b, p, e) = Append(b, e) /\ p = Len(b)
        BY <1>0, <1>1 DEF OplogWrite
    <2>2. QED
        BY <2>1, AppendProperties
<1>2. CASE p < Len(b)
    <2> DEFINE t == IF FrameSize(b[p + 1]) = FrameSize(e)
                    THEN SubSeq(b, p + 2, Len(b)) ELSE << >>
    <2>1. OplogWrite(b, p, e) = Append(SubSeq(b, 1, p), e) \o t
        <3>1. ~(p >= Len(b))
            BY <1>0, <1>2
        <3>2. QED
            BY <3>1, Zenon DEF OplogWrite, t
    <2>2. /\ t \in Seq(S)
          /\ Len(t) <= Len(b) - (p + 1)
          /\ \A i \in 1..Len(t) : t[i] = b[p + 1 + i]
        <3>1. CASE FrameSize(b[p + 1]) = FrameSize(e)
            <4>1. t = SubSeq(b, p + 2, Len(b))
                BY <3>1, Zenon DEF t
            <4>2. \A i \in (p + 2)..Len(b) : b[i] \in S
                BY <1>0, ElementOfSeq
            <4>3. QED
                BY <4>1, <4>2, <1>0, <1>2, SubSeqProperties
        <3>2. CASE FrameSize(b[p + 1]) # FrameSize(e)
            <4>1. t = << >>
                BY <3>2, Zenon DEF t
            <4>2. QED
                BY <4>1, <1>0, <1>2, EmptySeq
        <3>3. QED
            BY <3>1, <3>2
    <2> HIDE DEF t
    <2>3. LET r == Append(SubSeq(b, 1, p), e) \o t
          IN  /\ r \in Seq(S)
              /\ Len(r) >= p + 1
              /\ \A i \in 1..p : r[i] = b[i]
              /\ r[p + 1] = e
              /\ \A i \in 1..Len(r) : r[i] = e \/ \E j \in 1..Len(b) : r[i] = b[j]
        BY <2>2, <1>0, <1>2, SpliceProps
    <2>4. QED
        BY <2>1, <2>3, Zenon
<1>3. QED
    BY <1>1, <1>2

\* Every frame of a well-typed body has natural-number lengths.
LEMMA BodyFields ==
    ASSUME TypeOK, NEW i \in 1..Len(body)
    PROVE  body[i] \in Entries /\ body[i].byteLength \in Nat
           /\ body[i].length \in Nat
<1>1. body[i] \in Entries
    BY ElementOfSeq DEF TypeOK
<1>2. QED
    BY <1>1 DEF Entries

-----------------------------------------------------------------------------
\* The initial state (empty segments, no header, nothing in flight)
\* satisfies the inductive invariant.
THEOREM IInvInit == Init => IInv
<1> SUFFICES ASSUME Init PROVE IInv
    OBVIOUS
<1>1. /\ << >> \in Seq(Values \cup {ZeroByte}) /\ << >> \in Seq(Entries)
      /\ << >> \in Seq(Lens) /\ << >> \in Seq(Values)
      /\ Len(<< >>) = 0
    BY EmptySeq
<1>2. TypeOK
    BY <1>1 DEF Init, TypeOK, FreshTree, NoChangeset, Changesets
<1>3. QED
    BY <1>1, <1>2 DEF Init, IInv, DataBeforeOplog, AckedDurable, AckedWithinPos

\* Every step of the next-state relation, and every stutter, preserves the
\* inductive invariant.
THEOREM IInvStep == IInv /\ [Next]_vars => IInv'
<1> SUFFICES ASSUME IInv, [Next]_vars PROVE IInv'
    OBVIOUS
<1>0. /\ TypeOK
      /\ pos <= Len(body)
      /\ DataBeforeOplog
      /\ pc # "idle" => /\ status = "up"
                        /\ cs.byteLength = tree.byteLength + Len(cs.bytes)
      /\ pc = "flushOplog" => cs.byteLength <= Len(data)
      /\ AckedDurable
      /\ AckedWithinPos
    BY DEF IInv
<1>1. CASE Start
    \* The storage is opened only when nothing is up, so no append is in flight.
    <2>1. pc = "idle"
        BY <1>0, <1>1 DEF Start
    <2>2. QED
        BY <2>1, <1>0, <1>1, ConstantsAssumption
        DEF Start, IInv, TypeOK, DataBeforeOplog, AckedDurable, AckedWithinPos
<1>2. ASSUME NEW hs \in BOOLEAN, Open(hs) PROVE IInv'
    <2>1. pc = "idle"
        BY <1>0, <1>2 DEF Open
    <2>2. ReplayLength \in Nat /\ ReplayByteLength \in Nat
        <3>1. CASE body = << >>
            BY <3>1 DEF ReplayLength, ReplayByteLength
        <3>2. CASE body # << >>
            <4>1. Len(body) \in 1..Len(body)
                BY <3>2, <1>0, EmptySeq DEF TypeOK
            <4>2. Last(body) \in Entries
                BY <4>1, <1>0, ElementOfSeq DEF TypeOK, Last
            <4>3. QED
                BY <4>2, <3>2 DEF ReplayLength, ReplayByteLength, Entries
        <3>3. QED
            BY <3>1, <3>2
    <2>3. TypeOK'
        BY <2>2, <1>0, <1>2, LenProperties DEF Open, TypeOK, FreshTree
    \* A replayed header moves the write position to the end of the body;
    \* a fresh one forgets what was acknowledged under the old header.
    <2>4. AckedDurable' /\ AckedWithinPos'
        <3>1. CASE headerValid
            <4>1. body' = body /\ acked' = acked /\ pos' = Len(body)
                BY <3>1, <1>2 DEF Open
            <4>2. QED
                BY <4>1, <1>0, LenProperties DEF AckedDurable, AckedWithinPos, TypeOK
        <3>2. CASE ~headerValid
            BY <3>2, <1>2 DEF Open, AckedDurable, AckedWithinPos
        <3>3. QED
            BY <3>1, <3>2
    <2>5. QED
        BY <2>1, <2>3, <2>4, <1>0, <1>2 DEF Open, IInv, DataBeforeOplog
<1>3. ASSUME NEW lens \in BoundedSeq(Lens, MaxBatch),
             NEW bytes \in BoundedSeq(Values, LensSum(lens)),
             AppendBatch(lens, bytes)
      PROVE  IInv'
    <2>1. lens \in Seq(Lens) /\ bytes \in Seq(Values)
        BY BoundedSeqIsSeq
    <2>2. Changeset(lens, bytes) \in Changesets
        BY <2>1, <1>0, LenProperties DEF Changeset, Changesets, TypeOK
    <2>3. QED
        BY <2>1, <2>2, <1>0, <1>3
        DEF AppendBatch, Changeset, IInv, TypeOK, DataBeforeOplog,
            AckedDurable, AckedWithinPos
<1>4. CASE FlushData
    <2>1. /\ cs.bytes \in Seq(Values)
          /\ tree.byteLength \in Nat
          /\ data \in Seq(Cells)
        BY <1>0 DEF TypeOK, Changesets, Cells
    <2>2. /\ data' \in Seq(Cells)
          /\ Len(data') >= Len(data)
          /\ Len(data') >= tree.byteLength + Len(cs.bytes)
        BY <2>1, <1>4, WriteAtType DEF FlushData
    <2>3. TypeOK'
        BY <2>2, <1>0, <1>4 DEF FlushData, TypeOK, Cells
    <2>4. DataBeforeOplog'
        <3>1. body' = body
            BY <1>4 DEF FlushData
        <3>2. SUFFICES ASSUME NEW i \in 1..Len(body)
                       PROVE  body[i].byteLength <= Len(data')
            BY <3>1 DEF DataBeforeOplog
        <3>3. body[i].byteLength \in Nat /\ body[i].byteLength <= Len(data)
            BY <1>0, BodyFields DEF DataBeforeOplog
        <3>4. QED
            BY <3>3, <2>1, <2>2, LenProperties DEF Cells
    <2>5. QED
        BY <2>2, <2>3, <2>4, <1>0, <1>4
        DEF FlushData, IInv, AckedDurable, AckedWithinPos
<1>5. CASE FlushOplog
    <2> DEFINE e == OplogEntry(cs)
    <2>1. e \in Entries /\ e.byteLength = cs.byteLength
        BY <1>0 DEF OplogEntry, Entries, TypeOK, Changesets
    <2> HIDE DEF e
    <2>2. pos \in 0..Len(body)
        BY <1>0, LenProperties DEF TypeOK
    <2>3. LET r == OplogWrite(body, pos, e)
          IN  /\ r \in Seq(Entries)
              /\ Len(r) >= pos + 1
              /\ \A i \in 1..Len(r) : r[i] = e \/ \E j \in 1..Len(body) : r[i] = body[j]
        <3>1. body \in Seq(Entries)
            BY <1>0 DEF TypeOK
        <3>2. QED
            BY <3>1, <2>1, <2>2, OplogWriteProps
    <2>10. LET r == OplogWrite(body, pos, e)
           IN  /\ \A i \in 1..pos : r[i] = body[i]
               /\ r[pos + 1] = e
        BY <2>1, <2>2, <1>0, OplogWriteProps DEF TypeOK
    <2>4. body' = OplogWrite(body, pos, e) /\ pos' = pos + 1
        BY <1>5 DEF FlushOplog, e
    <2>5. cs.byteLength <= Len(data) /\ data' = data
        BY <1>0, <1>5 DEF FlushOplog
    <2>6. TypeOK'
        BY <2>1, <2>3, <2>4, <1>0, <1>5
        DEF FlushOplog, TypeOK, NoChangeset, Changesets, e
    <2>7. DataBeforeOplog'
        <3>1. SUFFICES ASSUME NEW i \in 1..Len(body')
                       PROVE  body'[i].byteLength <= Len(data')
            BY DEF DataBeforeOplog
        <3>2. CASE body'[i] = e
            BY <3>2, <2>1, <2>5
        <3>3. CASE \E j \in 1..Len(body) : body'[i] = body[j]
            <4>1. PICK j \in 1..Len(body) : body'[i] = body[j]
                BY <3>3
            <4>2. QED
                BY <4>1, <2>5, <1>0 DEF DataBeforeOplog
        <3>4. QED
            BY <3>2, <3>3, <2>3, <2>4
    \* The frames below pos are kept and the new frame lands at pos + 1.
    <2>8. AckedDurable' /\ AckedWithinPos'
        <3>1. acked' = acked \cup {[at |-> pos + 1, entry |-> e]}
            BY <1>5 DEF FlushOplog, e
        <3>2. SUFFICES ASSUME NEW a \in acked'
                       PROVE  a.at <= Len(body') /\ body'[a.at] = a.entry
                              /\ a.at <= pos'
            BY DEF AckedDurable, AckedWithinPos
        <3>3. CASE a \in acked
            <4>1. a.at \in 1..pos /\ body[a.at] = a.entry
                BY <3>3, <1>0 DEF AckedDurable, AckedWithinPos, TypeOK
            <4>2. QED
                BY <4>1, <2>3, <2>10, <2>4, <2>2
        <3>4. CASE a = [at |-> pos + 1, entry |-> e]
            BY <3>4, <2>3, <2>10, <2>4, <2>2
        <3>5. QED
            BY <3>1, <3>3, <3>4
    <2>9. QED
        BY <2>3, <2>4, <2>6, <2>7, <2>8, <1>5 DEF FlushOplog, IInv
<1>6. CASE Crash
    <2>1. /\ status' = "down" /\ pc' = "idle" /\ cs' = NoChangeset
          /\ UNCHANGED <<headerValid, secret, tree, pos, acked, starts>>
        BY <1>6 DEF Crash
    <2>2. NoChangeset \in Changesets
        BY EmptySeq DEF NoChangeset, Changesets
    <2>3. CASE pc = "flushData"
        <3>1. PICK k \in 0..Len(cs.bytes) :
                 data' = WriteAt(data, tree.byteLength, SubSeq(cs.bytes, 1, k))
            BY <2>3, <1>6 DEF Crash
        <3>2. /\ cs.bytes \in Seq(Values) /\ tree.byteLength \in Nat
              /\ data \in Seq(Cells)
            BY <1>0 DEF TypeOK, Changesets, Cells
        <3>3. SubSeq(cs.bytes, 1, k) \in Seq(Values)
            BY <3>2, ElementOfSeq, SubSeqProperties
        <3>4. data' \in Seq(Cells) /\ Len(data') >= Len(data)
            BY <3>1, <3>2, <3>3, WriteAtType
        <3>5. body' = body
            BY <2>3, <1>6 DEF Crash
        <3>6. DataBeforeOplog'
            <4>1. SUFFICES ASSUME NEW i \in 1..Len(body)
                           PROVE  body[i].byteLength <= Len(data')
                BY <3>5 DEF DataBeforeOplog
            <4>2. QED
                BY <1>0, <3>2, <3>4, BodyFields, LenProperties
                DEF DataBeforeOplog, Cells
        <3>7. QED
            BY <2>1, <2>2, <3>4, <3>5, <3>6, <1>0
            DEF IInv, TypeOK, Cells, AckedDurable, AckedWithinPos
    <2>4. CASE pc = "flushOplog"
        <3>1. data' = data
            BY <2>4, <1>6 DEF Crash
        <3>2. CASE body' = body
            BY <3>1, <3>2, <2>1, <2>2, <1>0
            DEF IInv, TypeOK, DataBeforeOplog, AckedDurable, AckedWithinPos
        <3>3. CASE body' = SubSeq(body, 1, pos)
            <4>1. /\ body' \in Seq(Entries) /\ Len(body') = pos
                  /\ \A i \in 1..pos : body'[i] = body[i]
                BY <3>3, <1>0, ElementOfSeq, SubSeqProperties DEF TypeOK
            <4>2. DataBeforeOplog'
                BY <4>1, <3>1, <1>0 DEF DataBeforeOplog
            \* A torn frame at pos + 1 cuts the body to the acknowledged frames.
            <4>3. AckedDurable' /\ AckedWithinPos'
                BY <4>1, <2>1, <1>0, LenProperties
                DEF AckedDurable, AckedWithinPos, TypeOK
            <4>4. QED
                BY <4>1, <4>2, <4>3, <3>1, <2>1, <2>2, <1>0 DEF IInv, TypeOK
        <3>4. QED
            BY <3>2, <3>3, <2>4, <1>6 DEF Crash
    <2>5. CASE pc = "idle"
        <3>1. data' = data /\ body' = body
            BY <2>5, <1>6 DEF Crash
        <3>2. QED
            BY <3>1, <2>1, <2>2, <1>0
            DEF IInv, TypeOK, DataBeforeOplog, AckedDurable, AckedWithinPos
    <2>6. QED
        BY <2>3, <2>4, <2>5, <1>0 DEF TypeOK
<1>9. CASE UNCHANGED vars
    BY <1>0, <1>9
    DEF vars, IInv, TypeOK, DataBeforeOplog, AckedDurable, AckedWithinPos
<1>10. QED
    BY <1>1, <1>2, <1>3, <1>4, <1>5, <1>6, <1>9 DEF Next

\* The inductive invariant holds in every reachable state.
THEOREM IInvHolds == Spec => []IInv
BY IInvInit, IInvStep, PTL DEF Spec

\* Type correctness of the append path, the open path and the crashes.
THEOREM TypeCorrect == Spec => []TypeOK
<1>1. IInv => TypeOK
    BY DEF IInv
<1>2. QED
    BY <1>1, IInvHolds, PTL

\* append_batch awaits the data slice before the oplog entry (core.rs,
\* lines 101-109): for every number of blocks, crashes and restarts, no
\* oplog frame a reopen replays reaches past the end of the data segment.
THEOREM DataBeforeOplogHolds == Spec => []DataBeforeOplog
<1>1. IInv => DataBeforeOplog
    BY DEF IInv
<1>2. QED
    BY <1>1, IInvHolds, PTL

\* Every oplog frame append_batch acknowledged (core.rs, lines 107-116)
\* since the last fresh header stays at its position in the body through
\* every later append, torn frame, crash and reopen.
THEOREM AckedDurableHolds == Spec => []AckedDurable
<1>1. IInv => AckedDurable
    BY DEF IInv
<1>2. QED
    BY <1>1, IInvHolds, PTL
=============================================================================
