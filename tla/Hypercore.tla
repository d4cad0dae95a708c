----------------------------- MODULE Hypercore -----------------------------
(***************************************************************************)
(* The log state engine of src/core.rs: a Hypercore opened over its        *)
(* storage segments (Hypercore::new_with_key_pair) and the                *)
(* append_batch commit path, with crashes at every suspension point.       *)
(*                                                                         *)
(* Durable state: the `data` segment (one cell per byte), the oplog's      *)
(* header slot A (valid or not) and the entry frames of the oplog body     *)
(* that parse.  In-memory state: the MerkleTree's length and byte_length,  *)
(* the Oplog's write position, the key pair's secret, and the changeset of *)
(* the append_batch in flight.  The Storage (storage_v10), Oplog,          *)
(* MerkleTree and BlockStore code called from core.rs is not under src/;   *)
(* those operators follow the spec (sections 4.1-4.3, 7) and are marked as *)
(* such.                                                                   *)
(***************************************************************************)
EXTENDS Naturals, Sequences, SequencesExt, FlatTree

CONSTANTS
    Values,     \* the byte values a payload is made of (model values)
    ZeroByte,   \* the byte a storage backend returns for a never-written cell
    Lens,       \* the byte lengths a block may have
    MaxBatch,   \* the most blocks in one append_batch call
    MaxEntries, \* bound: the most oplog entries written since the last open
    MaxStarts   \* bound: the most process starts (storage opened again)

ASSUME ConstantsAssumption ==
    /\ ZeroByte \notin Values
    /\ Lens \subseteq Nat
    /\ MaxBatch \in Nat
    /\ MaxEntries \in Nat
    /\ MaxStarts \in Nat

VARIABLES
    data,        \* the data segment: Seq of byte cells
    headerValid, \* oplog header slot A decodes with a good CRC
    body,        \* the oplog body frames that parse, in file order
    status,      \* "down", "storage" (segments opened), "up", "failed"
    secret,      \* the key pair handed to new_with_key_pair has a secret
    tree,        \* in-memory MerkleTree: [length, byteLength]
    pos,         \* in-memory Oplog: number of entry frames before the next write
    pc,          \* where append_batch is: "idle", "flushData", "flushOplog"
    cs,          \* the changeset of the append_batch in flight
    acked,       \* ghost: [at, entry] of each frame append_batch acknowledged
                 \* since the last fresh header
    starts       \* ghost: number of process starts, bounded by MaxStarts

vars == <<data, headerValid, body, status, secret, tree, pos, pc, cs,
          acked, starts>>

-----------------------------------------------------------------------------
(* Data. A changeset (spec 4.1) carries the prior length (its ancestors),  *)
(* the new length and byte_length, the leaf lengths and the leaf contents; *)
(* a leaf's hash commits to exactly its length and bytes, so the model     *)
(* keeps those in place of the hashes.  An oplog entry's tree_upgrade      *)
(* carries the same fields.                                                *)

Changesets == [ancestors : Nat, length : Nat, byteLength : Nat,
               lens : Seq(Lens), bytes : Seq(Values)]

Entries == [ancestors : Nat, length : Nat, byteLength : Nat,
            lens : Seq(Lens), bytes : Seq(Values)]

NoChangeset == [ancestors |-> 0, length |-> 0, byteLength |-> 0,
                lens |-> << >>, bytes |-> << >>]

\* Sum of the leaf lengths of a batch.
LensSum(lens) ==
    LET s[k \in 0..Len(lens)] == IF k = 0 THEN 0 ELSE s[k - 1] + lens[k]
    IN  s[Len(lens)]

\* RandomAccess::write(offset, bytes): overwrite or extend the segment;
\* cells skipped past the old end read as ZeroByte.
WriteAt(s, off, b) ==
    LET n == IF Len(s) >= off + Len(b) THEN Len(s) ELSE off + Len(b)
    IN  [i \in 1..n |-> IF off < i /\ i <= off + Len(b) THEN b[i - off]
                        ELSE IF i <= Len(s) THEN s[i] ELSE ZeroByte]

\* The node records in the tree segment: nothing on the core's path
\* (new_with_key_pair, append_batch) writes Store::Tree, so none.
StoredNodes == {}

\* MerkleTree::open succeeds iff every root of the cover can be read.
TreeOpens(L) == RootCover(L) \subseteq StoredNodes

\* Header::new_from_keys: the fresh header's tree is fork 0, length 0
\* (and so byte_length 0).
FreshTree == [length |-> 0, byteLength |-> 0]

\* Mutant of Changeset: ancestors taken as the index of the last block
\* instead of the number of blocks before the batch.
ChangesetAncestorsLastIndex(lens, bytes) ==
    [ancestors  |-> tree.length - 1,
     length     |-> tree.length + Len(lens),
     byteLength |-> tree.byteLength + Len(bytes),
     lens       |-> lens,
     bytes      |-> bytes]

\* MerkleTree::changeset() seeded from the in-memory tree, then one
\* changeset.append per block of the batch (spec 4.1 steps 1-2).
Changeset(lens, bytes) ==
    [ancestors  |-> tree.length,
     length     |-> tree.length + Len(lens),
     byteLength |-> tree.byteLength + Len(bytes),
     lens       |-> lens,
     bytes      |-> bytes]

\* Oplog::append_changeset: the entry's tree_upgrade.
OplogEntry(c) ==
    [ancestors |-> c.ancestors, length |-> c.length,
     byteLength |-> c.byteLength, lens |-> c.lens, bytes |-> c.bytes]

\* Two frames have the same encoded size when their tree upgrades have the
\* same ancestors, length and leaf lengths (same node count and varints).
FrameSize(e) == <<e.ancestors, e.length, e.lens>>

\* The body after writing frame e at frame position p.  Frames after p
\* still parse only if the new frame ends exactly where the old one did.
OplogWrite(b, p, e) ==
    IF p >= Len(b) THEN Append(b, e)
    ELSE Append(SubSeq(b, 1, p), e)
           \o (IF FrameSize(b[p + 1]) = FrameSize(e)
                 THEN SubSeq(b, p + 2, Len(b)) ELSE << >>)

\* The tree state the oplog replays to: the fresh header's (0, 0), then
\* each tree_upgrade in order, the last one winning.
ReplayLength == IF body = << >> THEN 0 ELSE Last(body).length
ReplayByteLength == IF body = << >> THEN 0 ELSE Last(body).byteLength

-----------------------------------------------------------------------------
Init ==
    /\ data = << >>
    /\ headerValid = FALSE
    /\ body = << >>
    /\ status = "down"
    /\ secret = FALSE
    /\ tree = FreshTree
    /\ pos = 0
    /\ pc = "idle"
    /\ cs = NoChangeset
    /\ acked = {}
    /\ starts = 0

\* The process starts and opens its Storage (storage_v10, spec 7): only
\* the segments' read/write/len contract is used, so opening them writes
\* nothing and the segments keep what the last process left.
Start ==
    /\ status \in {"down", "failed"}
    /\ starts < MaxStarts
    /\ status' = "storage"
    /\ starts' = starts + 1
    /\ UNCHANGED <<data, headerValid, body, secret, tree, pos, pc, cs, acked>>

\* Hypercore::new_with_key_pair: Oplog::open (fresh header when slot A is
\* invalid, else replay of the body), flush of its slices, MerkleTree::open
\* from the header's tree.
Open(hasSecret) ==
    /\ status = "storage"
    /\ headerValid' = TRUE
    /\ secret' = hasSecret
    /\ IF headerValid
         THEN /\ pos' = Len(body)
              /\ UNCHANGED acked
              /\ IF TreeOpens(ReplayLength)
                   THEN /\ status' = "up"
                        /\ tree' = [length |-> ReplayLength,
                                    byteLength |-> ReplayByteLength]
                   ELSE /\ status' = "failed"
                        /\ UNCHANGED tree
         ELSE /\ pos' = 0
              /\ acked' = {}
              /\ status' = "up"
              /\ tree' = FreshTree
    /\ UNCHANGED <<data, body, pc, cs, starts>>

\* append_batch, up to its first await: the NoSecret guard, the changeset
\* built and signed.
AppendBatch(lens, bytes) ==
    /\ status = "up"
    /\ pc = "idle"
    /\ secret
    /\ pos < MaxEntries
    /\ cs' = Changeset(lens, bytes)
    /\ pc' = "flushData"
    /\ UNCHANGED <<data, headerValid, body, status, secret, tree, pos,
                   acked, starts>>

\* Mutant of FlushData: the flush_slice future is dropped unawaited, so the
\* slice never reaches the data segment.
FlushDataUnawaited ==
    /\ status = "up"
    /\ pc = "flushData"
    /\ pc' = "flushOplog"
    /\ UNCHANGED <<data, headerValid, body, status, secret, tree, pos, cs,
                   acked, starts>>

\* Mutant of FlushOplog: the Oplog's write position is not advanced past
\* the frame just written.
FlushOplogNoAdvance ==
    /\ status = "up"
    /\ pc = "flushOplog"
    /\ body' = OplogWrite(body, pos, OplogEntry(cs))
    /\ acked' = acked \cup {[at |-> pos + 1, entry |-> OplogEntry(cs)]}
    /\ pc' = "idle"
    /\ cs' = NoChangeset
    /\ UNCHANGED <<data, headerValid, status, secret, tree, pos, starts>>

\* BlockStore::append_batch gives the slice at self.tree.byte_length;
\* storage.flush_slice(Store::Data, slice) completes.
FlushData ==
    /\ status = "up"
    /\ pc = "flushData"
    /\ data' = WriteAt(data, tree.byteLength, cs.bytes)
    /\ pc' = "flushOplog"
    /\ UNCHANGED <<headerValid, body, status, secret, tree, pos, cs,
                   acked, starts>>

\* oplog.append_changeset, storage.flush_slices(Store::Oplog, ..) completes
\* and append_batch returns.  The changeset is never applied to the tree.
FlushOplog ==
    /\ status = "up"
    /\ pc = "flushOplog"
    /\ body' = OplogWrite(body, pos, OplogEntry(cs))
    /\ pos' = pos + 1
    /\ acked' = acked \cup {[at |-> pos + 1, entry |-> OplogEntry(cs)]}
    /\ pc' = "idle"
    /\ cs' = NoChangeset
    /\ UNCHANGED <<data, headerValid, status, secret, tree, starts>>

\* The process stops (crash, or the append_batch future is dropped) at any
\* await.  A data write in flight leaves a prefix of its bytes; an oplog
\* write in flight leaves either nothing or a torn frame at pos + 1, which
\* ends the parseable body there.
Crash ==
    /\ status # "down"
    /\ \/ /\ pc = "flushData"
          /\ \E k \in 0..Len(cs.bytes) :
                data' = WriteAt(data, tree.byteLength, SubSeq(cs.bytes, 1, k))
          /\ UNCHANGED body
       \/ /\ pc = "flushOplog"
          /\ body' \in {body, SubSeq(body, 1, pos)}
          /\ UNCHANGED data
       \/ /\ pc = "idle"
          /\ UNCHANGED <<data, body>>
    /\ status' = "down"
    /\ pc' = "idle"
    /\ cs' = NoChangeset
    /\ UNCHANGED <<headerValid, secret, tree, pos, acked, starts>>

Next ==
    \/ Start
    \/ \E s \in BOOLEAN : Open(s)
    \/ \E lens \in BoundedSeq(Lens, MaxBatch) :
         \E bytes \in BoundedSeq(Values, LensSum(lens)) :
            /\ Len(bytes) = LensSum(lens)
            /\ AppendBatch(lens, bytes)
    \/ FlushData
    \/ FlushOplog
    \/ Crash

Spec == Init /\ [][Next]_vars

-----------------------------------------------------------------------------
TypeOK ==
    /\ data \in Seq(Values \cup {ZeroByte})
    /\ headerValid \in BOOLEAN
    /\ body \in Seq(Entries)
    /\ status \in {"down", "storage", "up", "failed"}
    /\ secret \in BOOLEAN
    /\ tree \in [length : Nat, byteLength : Nat]
    /\ pos \in Nat
    /\ pc \in {"idle", "flushData", "flushOplog"}
    /\ cs \in Changesets
    /\ acked \in SUBSET [at : Nat \ {0}, entry : Entries]
    /\ starts \in Nat

\* Spec 4.4 (steps 3 before 4): a reader replaying the oplog never finds a
\* tree upgrade whose blocks reach past the end of the data segment, for
\* any crash point of append_batch and any restart.
DataBeforeOplog ==
    \A i \in 1..Len(body) : body[i].byteLength <= Len(data)

\* Spec 4.3/4.4: every entry append_batch acknowledged since the last fresh
\* header is still the frame it was written as, so replay meets it, whatever
\* crashes, torn frames and reopens happened since.
AckedDurable ==
    \A a \in acked : a.at <= Len(body) /\ body[a.at] = a.entry

\* Spec 8.4/8.5: the bytes of the blocks the oplog replays to are the bytes
\* in the data segment at their offsets, at every point a crash may hit,
\* including while a later append_batch is writing its slice.
ReplayedBytesOnDisk ==
    (headerValid /\ body # << >>) =>
        LET e == Last(body)
        IN  SubSeq(data, e.byteLength - Len(e.bytes) + 1, e.byteLength)
              = e.bytes

\* Spec 8.3: a Hypercore reopened over the storage of a committed state
\* opens (new_with_key_pair does not fail on it).
ReopenAfterCommit == status # "failed"

\* Spec 4.4 step 1: an empty batch has nothing to commit and returns the
\* current outcome, so no oplog entry carries an upgrade with no blocks.
\* append_batch has no such guard (core.rs 87-99).
NoEmptyEntry == \A i \in 1..Len(body) : body[i].lens # << >>

\* Spec 8.5, the replay law, as refinement: the oplog body only ever
\* grows by appending the entry append_batch commits (crashes, torn
\* frames, restarts and opens never drop or rewrite a frame), and every
\* successful open sets the in-memory tree to the state the whole body
\* replays to.
Log == INSTANCE ReplayLog WITH Entry <- Entries, log <- body, image <- tree

ReplayRefinement == Log!Spec

=============================================================================
