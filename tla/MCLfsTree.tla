------------------------------ MODULE MCLfsTree -----------------------------
EXTENDS LfsTree

SomeBlocks == 0 .. 6
Costing(n, c, s, x) ==
    [calls |-> n, call |-> c, parent |-> 0, pred |-> 0, split |-> s, cuts |-> x]
FourCalls  == Costing(4, 1, 1, 3)
ThreeCalls == Costing(3, 1, 1, 3)
=============================================================================
