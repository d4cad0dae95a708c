----------------------------- MODULE ReplayLog -----------------------------
(***************************************************************************)
(* What the oplog promises its controller (spec 4.3 and the replay law of  *)
(* 8.5), with no bytes, frames or crashes in it: a durable log of tree     *)
(* upgrades that only ever grows by one committed entry at its end, and an *)
(* in-memory tree image that an open sets to the state the whole log       *)
(* replays to.  Crashes, torn writes and restarts are invisible here: each *)
(* must look like a step that leaves both unchanged.                       *)
(***************************************************************************)
EXTENDS Sequences, SequencesExt

CONSTANT Entry  \* the tree upgrades an entry may carry: [length, byteLength, ..]

VARIABLES
    log,    \* the committed entries, in commit order
    image   \* the in-memory tree: [length, byteLength]

\* The tree the entries of s replay to: the last upgrade wins; none is the
\* fresh header's empty tree.
StateOf(s) ==
    IF s = << >> THEN [length |-> 0, byteLength |-> 0]
    ELSE [length |-> Last(s).length, byteLength |-> Last(s).byteLength]

Init ==
    /\ log = << >>
    /\ image = StateOf(<< >>)

\* One entry becomes durable, after every entry committed before it.
Commit ==
    /\ Len(log') = Len(log) + 1
    /\ SubSeq(log', 1, Len(log)) = log
    /\ Last(log') \in Entry
    /\ UNCHANGED image

\* An open replays the log: the image becomes the state of all of it.
Open ==
    /\ image' = StateOf(log)
    /\ UNCHANGED log

Next == Commit \/ Open

Spec == Init /\ [][Next]_<<log, image>>
=============================================================================
