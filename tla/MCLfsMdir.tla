------------------------------ MODULE MCLfsMdir -----------------------------
(* One metadata pair: the superblock, or a directory with one spare block.   *)
EXTENDS LfsMdir

SomePairs  == {<<1, 0>>, <<3, 2>>}
SomeBlocks == 0 .. 4
=============================================================================
