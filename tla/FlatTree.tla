------------------------------ MODULE FlatTree ------------------------------
(***************************************************************************)
(* Flat-tree arithmetic (spec 3, "Node" and "Root cover"): the in-order    *)
(* labelling of a complete binary tree over blocks, leaves at even flat    *)
(* indices 2i and internal nodes at odd ones.  storage/mod.rs uses it      *)
(* through tree_index and flat_tree::full_roots.                           *)
(***************************************************************************)
EXTENDS Naturals

\* tree_index: the flat index of block `index`'s leaf.
TreeIndex(index) == 2 * index

\* The depth of flat index f: f + 1 = 2^d * (an odd number).
Depth(f) == CHOOSE d \in 0..f : (f + 1) % 2^d = 0 /\ ((f + 1) \div 2^d) % 2 = 1

\* The blocks under flat index f: the k-th node of depth d covers
\* blocks [k * 2^d, (k + 1) * 2^d).
Blocks(f) ==
    LET d == Depth(f)
        k == (f + 1) \div 2^(d + 1)
    IN  (k * 2^d)..((k + 1) * 2^d - 1)

\* flat_tree::full_roots(2 * L): the roots of the complete subtrees that
\* together cover blocks [0, L), one per set bit k of L; the root over
\* blocks [a, a + 2^k) has flat index 2a + 2^k - 1.
RootCover(L) ==
    { 2 * ((L \div 2^(k + 1)) * 2^(k + 1)) + 2^k - 1 :
        k \in {j \in 0..L : (L \div 2^j) % 2 = 1} }
=============================================================================
