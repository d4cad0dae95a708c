------------------------- MODULE HypercoreLogProofs -------------------------
(***************************************************************************)
(* Hypercore implements ReplayLog (the replay law of spec 8.5) under the   *)
(* refinement mapping log <- body, image <- tree: every step of the open  *)
(* and append paths, every restart and every crash, is a ReplayLog step   *)
(* or a stutter.                                                           *)
(***************************************************************************)
EXTENDS HypercoreProofs

\* Why the mapping works.  The Oplog's write position is always the end
\* of the body (a torn write cuts the body back to it, an open replays the whole body), so OplogWrite appends; the header is
\* invalid only before the first open, when the body is still empty, so
\* a fresh open's empty tree is the state of the body; and an up core has
\* a valid header.
LogInv ==
    /\ IInv
    /\ pos = Len(body)
    /\ ~headerValid => body = << >>
    /\ status = "up" => headerValid

\* The first `Len(b)` elements of Append(b, e) are b.
LEMMA AppendPrefix ==
    ASSUME NEW S, NEW b \in Seq(S), NEW e \in S
    PROVE  /\ Len(Append(b, e)) = Len(b) + 1
           /\ SubSeq(Append(b, e), 1, Len(b)) = b
           /\ Last(Append(b, e)) = e
<1>1. /\ Append(b, e) \in Seq(S)
      /\ Len(Append(b, e)) = Len(b) + 1
      /\ \A i \in 1..Len(b) : Append(b, e)[i] = b[i]
      /\ Append(b, e)[Len(b) + 1] = e
    BY AppendProperties
<1>2. Len(b) \in Nat
    BY LenProperties
<1>3. /\ SubSeq(Append(b, e), 1, Len(b)) \in Seq(S)
      /\ Len(SubSeq(Append(b, e), 1, Len(b))) = Len(b)
      /\ \A i \in 1..Len(b) :
            SubSeq(Append(b, e), 1, Len(b))[i] = Append(b, e)[i]
    BY <1>1, <1>2, SubSeqProperties
<1>4. SubSeq(Append(b, e), 1, Len(b)) = b
    BY <1>1, <1>3, SeqEqual
<1>5. QED
    BY <1>1, <1>4 DEF Last

THEOREM LogInvInit == Init => LogInv
<1> SUFFICES ASSUME Init PROVE LogInv
    OBVIOUS
<1>1. IInv
    BY IInvInit
<1>2. Len(<< >>) = 0
    BY EmptySeq
<1>3. QED
    BY <1>1, <1>2 DEF Init, LogInv

THEOREM LogInvStep == LogInv /\ [Next]_vars => LogInv'
<1> SUFFICES ASSUME LogInv, [Next]_vars PROVE LogInv'
    OBVIOUS
<1>0. /\ IInv'
      /\ TypeOK
      /\ pos = Len(body)
      /\ ~headerValid => body = << >>
      /\ status = "up" => headerValid
    BY IInvStep DEF LogInv, IInv
<1>1. CASE Start
    BY <1>0, <1>1 DEF Start, LogInv
<1>2. ASSUME NEW hs \in BOOLEAN, Open(hs) PROVE LogInv'
    <2>1. CASE headerValid
        BY <1>0, <1>2, <2>1 DEF Open, LogInv
    <2>2. CASE ~headerValid
        <3>1. Len(<< >>) = 0
            BY EmptySeq
        <3>2. QED
            BY <1>0, <1>2, <2>2, <3>1 DEF Open, LogInv
    <2>5. QED
        BY <2>1, <2>2
<1>3. ASSUME NEW lens \in BoundedSeq(Lens, MaxBatch),
             NEW bytes \in BoundedSeq(Values, LensSum(lens)),
             AppendBatch(lens, bytes)
      PROVE  LogInv'
    BY <1>0, <1>3 DEF AppendBatch, LogInv
<1>4. CASE FlushData
    BY <1>0, <1>4 DEF FlushData, LogInv
<1>5. CASE FlushOplog
    <2> DEFINE e == OplogEntry(cs)
    <2>1. e \in Entries
        BY <1>0 DEF TypeOK, OplogEntry, Changesets, Entries
    <2>2. body \in Seq(Entries)
        BY <1>0 DEF TypeOK
    <2>3. body' = Append(body, e)
        BY <1>0, <1>5 DEF FlushOplog, OplogWrite
    <2>4. Len(body') = Len(body) + 1
        BY <2>1, <2>2, <2>3, AppendPrefix
    <2>5. QED
        BY <1>0, <1>5, <2>4 DEF FlushOplog, LogInv
<1>6. CASE Crash
    <2>1. body \in Seq(Entries)
        BY <1>0 DEF TypeOK
    <2>2. SubSeq(body, 1, pos) = body
        BY <1>0, <2>1, SubSeqFull
    <2>3. body' = body
        BY <1>6, <2>2 DEF Crash
    <2>4. QED
        BY <1>0, <1>6, <2>3 DEF Crash, LogInv
<1>7. CASE UNCHANGED vars
    BY <1>0, <1>7 DEF vars, LogInv
<1>8. QED
    BY <1>1, <1>2, <1>3, <1>4, <1>5, <1>6, <1>7 DEF Next

\* Each step of Hypercore, from a LogInv state, is a ReplayLog step or a
\* stutter of the mapped variables.
THEOREM LogStep == LogInv /\ [Next]_vars => [Log!Next]_<<body, tree>>
<1> SUFFICES ASSUME LogInv, [Next]_vars PROVE [Log!Next]_<<body, tree>>
    OBVIOUS
<1>0. /\ TypeOK
      /\ pos = Len(body)
      /\ ~headerValid => body = << >>
      /\ body \in Seq(Entries)
    BY DEF LogInv, IInv, TypeOK
<1>1. CASE Start
    BY <1>1 DEF Start
<1>2. ASSUME NEW hs \in BOOLEAN, Open(hs) PROVE [Log!Next]_<<body, tree>>
    <2>1. CASE headerValid /\ TreeOpens(ReplayLength)
        <3>1. tree' = Log!StateOf(body)
            BY <1>2, <2>1
            DEF Open, ReplayLength, ReplayByteLength, Log!StateOf, Log!Last, Last
        <3>2. QED
            BY <1>2, <3>1 DEF Open, Log!Next, Log!Open
    <2>2. CASE headerValid /\ ~TreeOpens(ReplayLength)
        BY <1>2, <2>2 DEF Open
    <2>5. CASE ~headerValid
        <3>1. tree' = Log!StateOf(body)
            BY <1>0, <1>2, <2>5 DEF Open, FreshTree, Log!StateOf
        <3>2. QED
            BY <1>2, <3>1 DEF Open, Log!Next, Log!Open
    <2>8. QED
        BY <2>1, <2>2, <2>5
<1>3. ASSUME NEW lens \in BoundedSeq(Lens, MaxBatch),
             NEW bytes \in BoundedSeq(Values, LensSum(lens)),
             AppendBatch(lens, bytes)
      PROVE  UNCHANGED <<body, tree>>
    BY <1>3 DEF AppendBatch
<1>4. CASE FlushData
    BY <1>4 DEF FlushData
<1>5. CASE FlushOplog
    <2> DEFINE e == OplogEntry(cs)
    <2>1. e \in Entries
        BY <1>0 DEF TypeOK, OplogEntry, Changesets, Entries
    <2>2. body' = Append(body, e)
        BY <1>0, <1>5 DEF FlushOplog, OplogWrite
    <2>3. /\ Len(body') = Len(body) + 1
          /\ SubSeq(body', 1, Len(body)) = body
          /\ Last(body') \in Entries
        BY <1>0, <2>1, <2>2, AppendPrefix
    <2>4. QED
        BY <1>5, <2>3 DEF FlushOplog, Log!Next, Log!Commit, Log!Last, Last
<1>6. CASE Crash
    <2>1. SubSeq(body, 1, pos) = body
        BY <1>0, SubSeqFull
    <2>2. QED
        BY <1>6, <2>1 DEF Crash
<1>7. CASE UNCHANGED vars
    BY <1>7 DEF vars
<1>8. QED
    BY <1>1, <1>2, <1>3, <1>4, <1>5, <1>6, <1>7 DEF Next

\* The replay law (spec 8.5) for the code's open and append paths: the
\* oplog body that Hypercore::new_with_key_pair replays only ever grew by the entries append_batch committed, in order,
\* and every open's tree is the state of the whole body.
THEOREM ReplayRefinementHolds == Spec => ReplayRefinement
<1>1. Init => Log!Init
    <2>1. Len(<< >>) = 0
        BY EmptySeq
    <2>2. QED
        BY DEF Init, FreshTree, Log!Init, Log!StateOf
<1>2. QED
    BY <1>1, LogInvInit, LogInvStep, LogStep, PTL
    DEF Spec, ReplayRefinement, Log!Spec
=============================================================================
