----------------------------- MODULE LfsCtzIndex ----------------------------
(***************************************************************************)
(* The arithmetic of the lists that hold the data of files.  Block n of a   *)
(* list starts with pointers to the blocks n - 2^k, for each 2^k that       *)
(* divides n, and its words of data follow; so which block a position is    *)
(* in, and where in it, is found without reading anything.                  *)
(***************************************************************************)
EXTENDS Integers

CONSTANT BlockSize      \* words of a block; a pointer is one word

Pow2[k \in Nat] == IF k = 0 THEN 1 ELSE 2 * Pow2[k - 1]

(* lfs_util.h: the bits set, the zeros at the low end, and the smallest k     *)
(* with 2^k no less than n.                                                  *)
Popc[n \in Nat] == IF n = 0 THEN 0 ELSE (n % 2) + Popc[n \div 2]

TrailingZeros[n \in Nat \ {0}] ==
    IF n % 2 = 1 THEN 0 ELSE 1 + TrailingZeros[n \div 2]

Npw2[n \in Nat \ {0}] == IF n = 1 THEN 0 ELSE 1 + Npw2[(n + 1) \div 2]

(* How many pointers block i starts with (lfs_ctz_extend).                    *)
Pointed(i) == IF i = 0 THEN 0 ELSE TrailingZeros[i] + 1

(* lfs_ctz_index: the block a position is in, and where in it.                *)
CtzIndex(pos) ==
    LET b == BlockSize - 2
    IN IF pos \div b = 0 THEN 0 ELSE (pos - (Popc[pos \div b - 1] + 2)) \div b
CtzOff(pos) == LET i == CtzIndex(pos)
               IN IF i = 0 THEN pos ELSE pos - (BlockSize - 2) * i - Popc[i]

(* lfs_ctz_find: the pointer to follow from one block towards another.        *)
Skip_All(from, to) == TrailingZeros[from]             \* mutant: may overshoot
Skip(from, to) ==
    LET reach == Npw2[from - to + 1] - 1
    IN IF reach < TrailingZeros[from] THEN reach ELSE TrailingZeros[from]
=============================================================================
