------------------------------- MODULE Merkle -------------------------------
(***************************************************************************)
(* The root a checkpoint signs: internal/ledger/merkle.go.                 *)
(*                                                                         *)
(* MerkleRoot hashes the leaves and then halves the level, round by round, *)
(* until one digest is left; a round is a step here.  The tree it promises *)
(* is that of RFC 6962, which is defined the other way round, by splitting *)
(* at the largest power of two.  SHA-256 is taken to be collision free: a  *)
(* digest is modelled by the bytes that were hashed.                       *)
(***************************************************************************)
EXTENDS Integers, Sequences, FiniteSetsExt, SequencesExt

CONSTANTS
    RowHashes,   \* values of row_hash
    MaxLeaves    \* the longest range sealed

VARIABLES
    leaves,      \* the argument of MerkleRoot
    level        \* the digests of the level under construction

Ranges == BoundedSeq(RowHashes, MaxLeaves)

LeafHash(l) == <<0, l>>
NodeHash(l, r) == <<1, l, r>>
EmptyHash == << >>

\* Mutant: an odd node at the end is paired with itself.
HalvedDoubling(lv) ==
    [i \in 1..((Len(lv) + 1) \div 2) |->
        NodeHash(lv[2 * i - 1], IF 2 * i > Len(lv) THEN lv[2 * i - 1] ELSE lv[2 * i])]

\* Pairs are hashed, an odd node at the end is promoted.
Halved(lv) ==
    [i \in 1..((Len(lv) + 1) \div 2) |->
        IF 2 * i > Len(lv) THEN lv[2 * i - 1] ELSE NodeHash(lv[2 * i - 1], lv[2 * i])]

Start(s) == [i \in DOMAIN s |-> LeafHash(s[i])]

-----------------------------------------------------------------------------
Begin ==
    /\ leaves \in Ranges
    /\ level = IF leaves = << >> THEN <<EmptyHash>> ELSE Start(leaves)

Round ==
    /\ Len(level) > 1
    /\ level' = Halved(level)
    /\ UNCHANGED leaves

-----------------------------------------------------------------------------
(* The definition of RFC 6962, section 2.1 *)

SplitAt(n) == Max({k \in 1..(n - 1) : \E e \in 0..n : k = 2 ^ e})

RECURSIVE MTH(_)
MTH(s) ==
    CASE Len(s) = 0 -> EmptyHash
      [] Len(s) = 1 -> LeafHash(s[1])
      [] OTHER -> LET k == SplitAt(Len(s))
                  IN  NodeHash(MTH(SubSeq(s, 1, k)), MTH(SubSeq(s, k + 1, Len(s))))

-----------------------------------------------------------------------------
(* Properties *)

Finished == Len(level) = 1

\* The root is the one RFC 6962 defines, whatever the number of leaves (the
\* comment of MerkleRoot: RFC 6962, unbalanced nodes promoted); so the signed
\* root commits to the rows of its range and to their order.
RootIsRFC6962 == Finished => level[1] = MTH(leaves)
=============================================================================
