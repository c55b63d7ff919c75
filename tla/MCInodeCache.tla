---------------------------- MODULE MCInodeCache ----------------------------
(* Constants for model checking InodeCache on a small server. *)
EXTENDS InodeCache, TLC

CONSTANTS i1, i2, i3, root, h1

MCInode == {i1, i2, i3}
MCHandle == {root, h1}
MCSymmetry == Permutations({i1, i2, i3})
=============================================================================
