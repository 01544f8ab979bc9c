---------------------------- MODULE MCAtomicFile ----------------------------
(***************************************************************************)
(* Instances of AtomicFile for TLC: a record that takes two writes, and    *)
(* the blank one, which takes one.                                         *)
(***************************************************************************)
EXTENDS AtomicFile, TLC

CONSTANTS big, blank, w1, w2, r1, i1, i2, i3, i4

RecordBlocks == big :> 2 @@ blank :> 1

\* Inodes are interchangeable, and so are the writers.
Symmetry == Permutations({i1, i2, i3, i4}) \cup Permutations({w1, w2})
=============================================================================
