------------------------------ MODULE MCLfsAlloc -----------------------------
(* The allocator on a device of a few blocks, with a window smaller than it. *)
EXTENDS LfsAlloc

DoubleSize == {2 * BlockCount}
OneMore    == {BlockCount + 1}
=============================================================================
