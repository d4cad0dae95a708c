# TLA+ models of gnostr-core's Hypercore storage and codecs

This directory holds TLA+ models of the Rust sources under `src/src/`.
Each model is checked with TLC on small instances. The main Hypercore
invariants are also proved with TLAPS for every value of the constants.
`PROJECT.json` lists the components, runs, mutants, the line map from each
definition to the code, the findings, the hazards and the theorems.

## The system

| Part | Source | What it does |
|------|--------|--------------|
| Hypercore controller | `core.rs` | `new_with_key_pair` reads the oplog, flushes the slices `Oplog::open` returns, and opens the Merkle tree from the header. `append_batch` builds a changeset, writes the batch to the data segment, then appends the changeset to the oplog. |
| Storage (legacy) | `storage/mod.rs` | Opens the `tree`, `data`, `bitfield` and `oplog` segments (`Storage::new`). Stores 40-byte node records (`put_node`/`get_node`) and block data at ranges computed from those nodes (`data_offset`, `put_data`, `get_data`). `core.rs` does not use this `Storage`: it imports `crate::storage_v10::Storage` (core.rs:3). |
| Oplog header codec | `oplog/mod.rs` | Preencode, encode and decode of the oplog `Header` and its four sub-structs. |
| Wire codecs | `encoding.rs` | `CompactEncoding` for `Node`, `Vec<Node>` and the seven request/data messages. |

`core.rs` calls `storage_v10`'s `Storage` (`read_all`, `flush_slice`, `flush_slices`, `read_slices`), `Oplog::open`, `append_changeset`, `MerkleTree` and `BlockStore`. None of that code is under `src/`: the `oplog` module there only holds the header. Those operators follow spec sections 4.1–4.3 and 7 (only the segments' read/write/len contract) and are marked `spec_modelled` in the map. The same goes for the `compact_encoding` primitives (varints, buffers, fixed 32-byte fields), which follow spec section 6.

## Modules

- **`FlatTree`**: `tree_index`, plus the flat-tree facts the other modules need: `Depth`, `Blocks(f)` (the leaves under node f) and `RootCover(L)` (the full roots left of leaf 2L).
- **`Hypercore`**: the controller and the durable state it leaves behind.
  - Variables:
    - `data`: the data segment, one cell per byte.
    - `headerValid`: oplog header slot A.
    - `body`: the oplog frames that parse.
    - `status`: down / storage / up / failed.
    - `secret`, `tree`, `pos`: the in-memory state.
    - `pc`, `cs`: the `append_batch` in flight.
    - Ghosts: `acked` (acknowledged frames) and `starts`.
  - Actions:
    - `Start` = the process starts and opens its `storage_v10` storage. The spec gives that storage only the segment read/write/len contract, so opening it changes no segment.
    - `Open` = `new_with_key_pair`.
    - `AppendBatch` = everything up to the first await.
    - `FlushData`, `FlushOplog` = the two awaited flushes.
    - `Crash` = the process stops, or the future is dropped, at any await. It leaves a prefix of a data write, or a torn frame.
- **`ReplayLog`**: the abstract oplog of spec 8.5, with no bytes, frames or crashes.
  - `log` is the committed entries; `image` is the in-memory tree.
  - `Commit` appends one entry; `Open` sets the image to the state the whole log replays to.
  - `Hypercore` instantiates it as `Log` with `log <- body`, `image <- tree`, `Entry <- Entries`. `ReplayRefinement == Log!Spec` is checked as a PROPERTY.
- **`StorageData`**: the block half of the legacy `Storage`, modelled on its own since the core does not use it. `Init` is `Storage::new` over fresh backends: the tree segment gets only its header, so no node record. The environment adds verified blocks (`AddBlock`) and may call `PutNode`, `PutData` (with or without the block's leaf as cached proof node) and `GetData` in any order. This is what replication does, and replication is not in `src/`. A node record is abstracted to its length. A record never written reads as zeros, i.e. length 0.
- **`CompactCodec`**: every codec as the list of fields its three passes walk.
  - `Preencode` grows `end`; the Header's version byte grows `start`, as in the code.
  - `Alloc` makes a buffer of `end` zero bytes.
  - `Encode` writes at `start` and fails past the buffer.
  - `Decode` reads back from offset 0.
  - `Tamper(i, v)` is a peer: between encode and decode, byte `i` (a position in `TamperAt`) becomes `v`. Wire messages are decoded from whatever bytes a peer sends, so the decoder meets bytes no encoder wrote.
  - `Reserved` is the capacity that `Vec<Node>` decode passes to `Vec::with_capacity`: the length it read, before any element is read.
  - Decoded values of 2^30 and above are saturated to `BigU64`. A tampered varint can reach 2^64, and TLC's integers stop at 2^31. Such a value only meets comparisons with buffer lengths and positions, and it exceeds them whatever it is.
  - One behaviour picks a value of one message type and takes it through the three passes.
- **`MC_*`**: the model values and bounds for TLC.
- **`HypercoreProofs`**: the TLAPS proofs of the Hypercore invariants.
- **`HypercoreLogProofs`**: the TLAPS proof that `Hypercore` refines `ReplayLog`.
- **`StorageDataProofs`**: the TLAPS proofs that `put_node` records read back as their nodes' lengths, and what `data_offset` then returns.

## Runs

| Run | Expect | Checks | Shows |
|-----|--------|--------|-------|
| `hypercore` | pass | `TypeOK`, `DataBeforeOplog`, `AckedDurable` | Consider any sequence of starts, opens, appends and crashes at every await. No parsed frame names bytes beyond the data segment. Every acknowledged entry remains in the body at its position. |
| `hypercore_bytes` | violation | `ReplayedBytesOnDisk` | The second batch overwrites the first batch's bytes: the changeset is never applied to `self.tree`, so `byte_length` stays 0 (core.rs:104). |
| `hypercore_reopen` | violation | `ReopenAfterCommit` | After one committed append, a reopen fails: `put_node` is never called, so `MerkleTree::open` finds no nodes. |
| `storagedata` | pass | `TypeOK`, `OffsetCorrect`, `StoredRecords` | `data_offset` returns the true byte range of a block once its roots and leaf are stored, and every record `put_node` wrote still reads back as its node's length (the 40-byte records never overlap, and a later record's zero fill never clears an earlier one). This holds for every log of up to 4 blocks of length 0 or 1 and every order of `put_node` calls. |
| `storagedata_inplace` | violation | `PutDataInPlace` | Suppose `put_data` gets the leaf as a cached node while a root is not yet stored. The hole reads as length 0, and the block is written over another block's bytes (FIXME at storage/mod.rs:266). |
| `storagedata_getdata` | violation | `GetDataReadsNothing` | The FIXME above `get_data` (storage/mod.rs:180) says `data_offset` always reads index 0, length 0. TLC finds `get_data` returning a block's byte once the records of its root and leaf are stored. The comment holds only when those records are zero-filled holes; a record past the segment's end makes `get_node` fail instead. `OffsetCorrect` is the positive statement: with the records stored, the range is the block's true one. |
| `hypercore_log` | pass | `ReplayRefinement` | Every step of `Hypercore` is a `ReplayLog` step or a stutter of `<<body, tree>>`. Crashes and torn frames never drop or rewrite a committed entry. Every open's tree is the state of the whole body. |
| `hypercore_empty` | violation | `NoEmptyEntry` | An empty batch takes the whole write path and commits an oplog entry with no blocks. Spec 4.4 step 1 returns early instead (core.rs:87). |
| `codec` | pass | `TypeOK`, `EncodeExact`, `RoundTrip` | Every `encoding.rs` codec fills exactly the buffer preencode sized. Each decodes to the value encoded. The values are u64s 0, 253 and 65536 (1, 3 and 5 bytes), payloads of length 0 and 1, and arrays of 0 or 1 nodes. A peer may also set byte 1 or 2 to 252; decoding those bytes must keep the types. |
| `codec_reserve` | violation | `DecodeReserveBounded` | The one-byte encoding of an empty `Vec<Node>`, with its length byte set to 252, makes decode reserve 252 nodes before it finds the buffer too short (encoding.rs:92). With a 9-byte varint a peer could ask for up to 2^64 nodes. |
| `codec_header` | violation | `EncodeExact` | The Header preencode adds the version byte to `start` rather than `end` (oplog/mod.rs:192). Encode then starts from that `start` and adds 1 again, so it writes the fields from offset 2, two bytes later than preencode sized them, into a buffer with no room for the version byte. The last field write overruns it. |

Each property of a passing run has a mutant in `PROJECT.json`. A mutant is a plausible bug in the mapped code, and TLC catches it under the run's own cfg:
- an unawaited data flush;
- an oplog position that is not advanced;
- ancestors off by one;
- a node record storing length−1;
- `data_offset` stopping at the first root;
- a `Vec<Node>` size without its length prefix;
- a Node decode that swaps index and length;
- a `DataUpgrade` decode that stops before the signature;
- an oplog position that is not advanced, which breaks the refinement;
- a `put_node` write that truncates the segment after its record, which breaks `StoredRecords`.

**Bounds.**
- `MC_Hypercore`:
  - 2 byte values (under symmetry), block lengths {1, 2}, 1 block per batch.
  - 3 entries per open and 3 starts.
  - This is enough for two batches across a crash and a reopen, and for a torn frame followed by a new frame at its position. Every finding above needs exactly such a sequence.
  - `hypercore_log` runs without symmetry, since it checks a temporal property.
- `MC_StorageData`: 4 blocks give blocks with 0, 1 and 2 full roots to their left (block 3 has roots 1 and 4). Lengths {0, 1} include empty blocks, which take `put_data`'s early return. The `storagedata` run uses `VIEW ResultlessView`, which leaves out the ghost `result` (what the last `put_data` or `get_data` returned). No action reads `result`, so two states that differ only in it have the same successors. The view cuts the run from 207,186 to 17,925 distinct states. Every transition is still generated, so every invariant and action property that does not mention `result` is checked in full. Only `TypeOK`'s conjunct on `result` is checked on the states the view keeps, not on every state. `storagedata_getdata` is about `result`, so it runs without the view.
- `MC_CompactCodec`: the u64 values straddle the 1-, 3- and 5-byte varint widths. The 9-byte width (values of 2^32 and above) is beyond TLC's 32-bit integers and is not encoded; on decode it is saturated, as above. Tampering is limited to bytes 1 and 2 and the value 252. That covers a message's leading length or tag byte and the byte after it, and keeps the run under a minute; all positions take over six minutes.

**Deadlock.** `hypercore` sets `CHECK_DEADLOCK FALSE`, for two reasons:
- A core that is up and idle once `MaxEntries` is reached and no restart is left has nothing to do. That is the bound, not the code.
- A failed open returns `Err` to a caller that may never retry.

`hypercore_log` sets it for the same reasons. The other passing runs have no deadlock.

**Fairness.** None is assumed. The one progress question the core raises, whether an `append_batch` in flight returns, depends on the storage backend and the executor completing the two awaited flushes. Neither is under `src/`, and weak fairness on the flushes would assume exactly that, so no liveness property is checked (hazard list, `liveness`).

**Refinement.** `ReplayRefinement` holds for every caller: opening the `storage_v10` storage changes no segment, so the only fresh header is written over an empty body.

## Proofs (`HypercoreProofs`)

The following are proved for all values of the constants allowed by `ConstantsAssumption`:
- `TypeCorrect`: `Spec => []TypeOK`.
- `DataBeforeOplogHolds`: `Spec => []DataBeforeOplog`.
- `AckedDurableHolds`: `Spec => []AckedDurable`.

All of them follow from `IInvHolds`: `Spec => []IInv`, with

```
IInv == TypeOK /\ pos <= Len(body) /\ DataBeforeOplog
        /\ (pc # "idle" => status = "up"
                           /\ cs.byteLength = tree.byteLength + Len(cs.bytes))
        /\ (pc = "flushOplog" => cs.byteLength <= Len(data))
        /\ AckedDurable /\ \A a \in acked : a.at <= pos
```

The two invariants are not inductive on their own. `FlushOplog` appends a frame whose byte length is `cs.byteLength`, and `DataBeforeOplog` survives that step only if the data already covers it. The `flushOplog` conjunct says so, and it holds because `FlushData` wrote exactly `cs.bytes` at `tree.byteLength`, which is the changeset conjunct. `OplogWrite` at `pos` keeps frames 1..pos. So acknowledged frames survive only if they all lie at or below `pos`, and a torn write cuts the body back to `pos`; that is why `acked` is bounded by `pos`.

The step proof has one step per action. The lemmas `WriteAtType` and `OplogWriteProps` state what the write helpers return. `SpliceProps` is a generic sequence-splice lemma. TLC checked `IInv` as an invariant of the `hypercore` run before it was proved.

## Proofs (`HypercoreLogProofs`)

`ReplayRefinementHolds` proves `Spec => ReplayRefinement` for every value of the constants. It rests on the inductive invariant

```
LogInv == IInv /\ pos = Len(body) /\ (~headerValid => body = << >>)
          /\ (status = "up" => headerValid)
```

- `pos = Len(body)` makes `OplogWrite` at `pos` an append. That makes `FlushOplog` a `Commit`. It also makes `Crash`'s cut of the body back to `pos` a no-op.
- The header is invalid only before the first open, when the body is still empty. So the fresh tree of such an open is the state of the empty body.
- An up core has a valid header.

`LogInvInit` and `LogInvStep` show that `LogInv` is inductive. `LogStep` shows that each `Hypercore` step from a `LogInv` state maps to `Log!Next` or a stutter: one step per action, and three cases of `Open`. The lemma `AppendPrefix` states the length, prefix and last element of `Append`. The theorem combines these with `PTL`.

## Proofs (`StorageDataProofs`)

The following are proved for all values of the constants allowed by `StorageAssumption`:
- `StoredRecordsHold`: `Spec => []StoredRecords`.
- `OffsetFromStoredNodesHolds`: `Spec => []OffsetFromStoredNodes`. Suppose the roots left of block `i` and its leaf are stored. Then `DataOffset(i, {})` succeeds with `start` = the sum of the roots' `NodeLen`, and `end` = that sum plus the leaf's `NodeLen` (lemma `OffsetFromRecords`).

Both rest on the inductive invariant

```
SInv == blocks \in Seq(Seq(Values)) /\ treeSeg \in Seq(RecordVals)
        /\ stored \subseteq TreeNodes /\ StoredRecords
```

- `StoredRecords` is not inductive alone. `AddBlock` keeps a stored node's length only because the node lies in the old tree (`stored \subseteq TreeNodes`), so the blocks under it are unchanged (lemma `AppendKeepsNode`).
- `PutNode` keeps every other record. `WriteRecordProps` states what the record write returns: the segment only grows, record `f` is the new length, and the others are kept.
- A record's value is only known to be zero or a `SumFunction` of natural numbers (`RecordVals`). Which natural number a sum is cannot be proved here (see below), and the proof does not need it.

The sums are written `SumFunction([b \in Blocks(f) |-> ...])`, so equal functions give equal sums without unfolding the fold. TLC checked `SInv` on the `storagedata` run before it was proved.

`OffsetCorrect` is `OffsetFromStoredNodes` plus one arithmetic fact: the lengths of the roots left of block `i` sum to the lengths of blocks `0..i-1`. That fact needs induction over the sums and stays with TLC.

**Left to TLC.**
- The codec properties and `StorageData`'s `TypeOK` and `OffsetCorrect`. They rest on what a fold over a sequence or a sum over a set evaluates to: a record is in `Nat`, and the roots' lengths sum to the byte offset. A proof would need induction over data. The installed provers cannot instantiate the library's induction theorems, and they cannot unfold `FoldLeft` or `SumFunction`.

## Not modelled

- `storage_v10`, the `Storage` the core uses: it is not under `src/`, and only its segment contract (spec 7) enters `Hypercore`.
- The overwrite path of the legacy `Storage::new` (storage/mod.rs 106-142), `write_data`, and the legacy signature, keypair and bitfield accessors (193–416). No caller under `src/` reaches them, and spec section 9 excludes the legacy layout.
- `Storage::new_memory` and `new_disk`, which only choose a backend.
- `AppendOutcome` returns a constant `0, 0` (core.rs:113). No state depends on it.
- The panics at oplog/mod.rs:216 and 164 on corrupted header bytes. The model treats a panic like an `Err`, as a failed decode. The header is read back from local storage behind a CRC that is outside `src/`, so no run tampers with it.

## Plan for later work

1. A proof of the partition identity behind `OffsetCorrect` (roots' lengths sum to the byte offset), once a prover can do induction over finite sets.
2. The 9-byte varint path on encode, by modelling u64 values symbolically.
