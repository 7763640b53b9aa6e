---------------------------- MODULE LfsAllocProofs ---------------------------
(***************************************************************************)
(* Proofs about the block allocator, for every number of blocks and every   *)
(* size of the lookahead window.                                            *)
(***************************************************************************)
EXTENDS LfsAlloc, FiniteSetTheorems, TLAPS

(* Arithmetic modulo the number of blocks.  Every position the allocator     *)
(* computes is below three times that number.                                *)
LEMMA ModOnce ==
    ASSUME NEW m \in Nat, m > 0, NEW x \in Nat, x < m PROVE x % m = x
  BY SMT

LEMMA ModTwice ==
    ASSUME NEW m \in Nat, m > 0, NEW x \in Nat, m <= x, x < 2 * m PROVE x % m = x - m
  BY SMT

LEMMA ModThrice ==
    ASSUME NEW m \in Nat, m > 0, NEW x \in Nat, 2 * m <= x, x < 3 * m PROVE x % m = x - 2 * m
  BY SMT

LEMMA ModRange ==
    ASSUME NEW m \in Nat, m > 0, NEW x \in Int PROVE x % m \in 0 .. m - 1
  BY SMT

(* Going on from a position taken modulo the number of blocks. *)
LEMMA ModShift ==
    ASSUME NEW m \in Nat, m > 0, NEW x \in Nat, x < 2 * m, NEW y \in Nat, y < m
    PROVE  ((x % m) + y) % m = (x + y) % m
<1>1. CASE x < m
  BY <1>1, ModOnce
<1>2. CASE m <= x
  <2>1. x % m = x - m /\ x - m \in Nat
    BY <1>2, ModTwice
  <2>2. CASE x - m + y < m
    BY <2>1, <2>2, <1>2, ModOnce, ModTwice
  <2>3. CASE m <= x - m + y
    <3>1. (x - m + y) % m = x - m + y - m
      BY <2>1, <2>3, ModTwice
    <3>2. (x + y) % m = x + y - 2 * m
      BY <2>3, <1>2, ModThrice
    <3> QED
      BY <2>1, <3>1, <3>2
  <2> QED
    BY <2>1, <2>2, <2>3
<1> QED
  BY <1>1, <1>2

(* Positions less than a round apart are different blocks. *)
LEMMA ModDistinct ==
    ASSUME NEW m \in Nat, m > 0, NEW x \in Nat, x < 2 * m, NEW d \in Nat, 0 < d, d < m
    PROVE  (x + d) % m # x % m
<1> DEFINE r == x % m
<1>1. r \in 0 .. m - 1 /\ (r + d) % m = (x + d) % m
  BY ModRange, ModShift
<1>2. CASE r + d < m
  <2>1. (r + d) % m = r + d
    BY <1>1, <1>2, ModOnce
  <2> QED
    BY <1>1, <2>1
<1>3. CASE m <= r + d
  <2>1. (r + d) % m = r + d - m
    BY <1>1, <1>3, ModTwice
  <2> QED
    BY <1>1, <2>1
<1> QED
  BY <1>1, <1>2, <1>3

(* The bit lfs_alloc_lookahead computes for a block is the one lfs_alloc     *)
(* takes it from (615-621, 660).                                             *)
LEMMA OffsetOfBlock ==
    ASSUME NEW m \in Nat, m > 0, NEW first \in 0 .. m - 1, NEW off \in 0 .. m - 1
    PROVE  (((first + off) % m) - first + m) % m = off
<1>1. CASE first + off < m
  <2>1. (first + off) % m = first + off
    BY <1>1, ModOnce
  <2>2. (off + m) % m = off
    BY ModTwice
  <2> QED
    BY <2>1, <2>2
<1>2. CASE m <= first + off
  <2>1. (first + off) % m = first + off - m
    BY <1>2, ModTwice
  <2>2. off % m = off
    BY ModOnce
  <2> QED
    BY <2>1, <2>2
<1> QED
  BY <1>1, <1>2
-----------------------------------------------------------------------------
(* Growing is sound when the device at least doubles: no position of the     *)
(* window left from before then comes round to another old block.            *)
AmpleGrowth ==
    \A m, n \in {BlockCount} \cup GrownCounts : n > m => n >= 2 * m

LEMMA AtBlock == ASSUME TypeOK, NEW off \in Nat PROVE At(off) \in Blocks(block_count)
  BY ModRange, AllocAssumption DEF TypeOK, At, Blocks

THEOREM TypeCorrect == Spec => []TypeOK
<1>1. Init => TypeOK
  BY AllocAssumption DEF Init, TypeOK, Blocks, Least, NoBlock
<1>2. TypeOK /\ [Next]_vars => TypeOK'
  <2> SUFFICES ASSUME TypeOK, [Next]_vars PROVE TypeOK'
    OBVIOUS
  <2> USE AllocAssumption DEF lookahead, fs
  <2>0. block_count \in Nat /\ block_count > 0
    BY DEF TypeOK
  <2>1. CASE lfs_alloc_ckpoint
    BY <2>0, <2>1 DEF lfs_alloc_ckpoint, TypeOK, Checkpoint
  <2>2. CASE Link
    BY <2>2 DEF Link, TypeOK
  <2>3. CASE GiveUp
    BY <2>3 DEF GiveUp, TypeOK
  <2>4. CASE Free
    BY <2>4 DEF Free, TypeOK
  <2>5. CASE Mount
    BY <2>0, <2>5 DEF Mount, TypeOK, Checkpoint
  <2>6. CASE Grow
    BY <2>0, <2>6 DEF Grow, TypeOK, Blocks
  <2>7. CASE lfs_alloc_scan /\ UNCHANGED <<block_count, tree, block>>
    <3>1. start' \in Blocks(block_count)
      BY <2>7, AtBlock DEF lfs_alloc_scan, TypeOK
    <3>2. CASE pc' = pc /\ next' = 0 /\ size' = WindowSize /\ UNCHANGED <<ckpoint, inflight, err>>
               /\ buffer' = Marks(tree \cup Root, start', size', block_count)
               /\ late' = late \ Window(start', size', block_count)
      <4>1. size' \in 0 .. block_count /\ size' <= ckpoint'
        BY <3>2, <2>0 DEF TypeOK, WindowSize, Least
      <4>2. buffer' \subseteq Nat
        BY <3>2, <4>1, <2>0 DEF Marks
      <4> QED
        BY <3>1, <3>2, <4>1, <4>2, <2>7 DEF TypeOK
    <3>3. CASE size' = 0 /\ next' = 0 /\ ckpoint' = block_count /\ err' = "IO" /\ pc' = "idle"
               /\ late' = late \cup inflight /\ inflight' = {} /\ UNCHANGED buffer
      BY <3>1, <3>3, <2>7, <2>0 DEF TypeOK
    <3> QED
      BY <2>7, <3>2, <3>3 DEF lfs_alloc_scan
  <2>8. CASE Call
    BY <2>8 DEF Call, TypeOK
  <2>9. CASE Skip
    BY <2>0, <2>9 DEF Skip, TypeOK, Countdown
  <2>10. CASE Found
    <3>1. At(next) \in Blocks(block_count)
      BY AtBlock DEF TypeOK
    <3>2. PICK q \in next + 1 .. size : next' = q /\ ckpoint' = ckpoint - (q - next)
      BY <2>10 DEF Found, Stops, Countdown
    <3>6. /\ ckpoint \in Nat /\ size \in Nat /\ next \in Nat
          /\ size - next <= ckpoint /\ ckpoint <= block_count
      BY <2>0 DEF TypeOK
    <3>7. q \in Nat /\ next < q /\ q <= size
      BY <3>6
    <3>8. ckpoint - (q - next) \in Nat
      BY <3>6, <3>7
    <3>9. size - q <= ckpoint - (q - next) /\ ckpoint - (q - next) <= block_count
      BY <2>0, <3>6, <3>7
    <3>3. ckpoint' \in Nat /\ size' - next' <= ckpoint' /\ ckpoint' <= block_count
      BY <3>8, <3>9, <3>2, <2>10 DEF Found
    <3>10. next' \in 0 .. size
      BY <3>2, <3>6, <3>7
    <3>4. inflight' \subseteq Blocks(block_count') /\ block' \in Blocks(block_count')
      BY <2>10, <3>1 DEF Found, TypeOK
    <3>5. pc' \in {"format", "idle"}
      BY <2>10 DEF Found, Back
    <3> QED
      BY <2>0, <2>10, <3>10, <3>3, <3>4, <3>5 DEF Found, TypeOK
  <2>11. CASE NoSpace
    BY <2>11 DEF NoSpace, TypeOK, Back
  <2>12. CASE UNCHANGED vars
    BY <2>12 DEF vars, TypeOK
  <2> QED
    BY <2>1, <2>2, <2>3, <2>4, <2>5, <2>6, <2>7, <2>8, <2>9, <2>10, <2>11, <2>12
       DEF Next, Operation, lfs_alloc, lfs_fs_gc_, Search
<1> QED
  BY <1>1, <1>2, PTL DEF Spec

-----------------------------------------------------------------------------
(* What lfs_alloc_scan leaves in the window, given what an operation has in  *)
(* flight (625-651).                                                         *)
LEMMA ScanSound ==
    ASSUME TypeOK, AheadClear, lfs_alloc_scan, UNCHANGED <<block_count, tree>>
    PROVE  OffersFree' /\ AheadClear'
<1> DEFINE m == block_count
<1>0. m \in Nat /\ m > 0 /\ ckpoint \in 0 .. m /\ start \in 0 .. m - 1 /\ next \in 0 .. m
  BY AllocAssumption DEF TypeOK, Blocks
<1>1. start' = At(next) /\ start' \in 0 .. m - 1 /\ next' = 0
  BY <1>0, AtBlock DEF lfs_alloc_scan, Blocks
<1>2. CASE size' = 0 /\ inflight' = {}
  BY <1>2, <1>1 DEF OffersFree, AheadClear
<1>3. CASE /\ size' = WindowSize /\ UNCHANGED <<ckpoint, inflight>>
           /\ buffer' = Marks(tree \cup Root, start', size', m)
  <2>1. PICK n \in 0 .. m : n = size' /\ n <= ckpoint
    BY <1>0, <1>3, AllocAssumption DEF WindowSize, Least
  <2>6. n <= ckpoint
    BY <2>1
  <2>5. PICK first \in 0 .. m - 1 : first = start'
    BY <1>1
  <2>2. ASSUME NEW off \in 0 .. ckpoint - 1
        PROVE  (first + off) % m = At(next + off)
    <3>1. start + next \in Nat /\ start + next < 2 * m /\ off \in Nat /\ off < m
      BY <1>0
    <3>2. (((start + next) % m) + off) % m = (start + next + off) % m
      BY <1>0, <3>1, ModShift
    <3> QED
      BY <1>1, <2>5, <3>2, <1>0 DEF At
  <2>3. AheadClear'
    <3> SUFFICES ASSUME NEW off \in 0 .. ckpoint - 1 PROVE (first + (0 + off)) % m \notin inflight
      BY <1>1, <1>3, <2>5 DEF AheadClear, At
    <3>1. 0 + off = off /\ At(next + off) \notin inflight
      BY <1>0 DEF AheadClear
    <3> QED
      BY <2>2, <3>1
  <2>4. ASSUME NEW off \in 0 .. n - 1, off \notin buffer'
        PROVE  (first + off) % m \notin tree \cup inflight
    <3> DEFINE b == (first + off) % m
    <3>1. off \in 0 .. ckpoint - 1 /\ off \in 0 .. m - 1
      BY <1>0, <2>6
    <3>2. b \notin inflight
      BY <3>1, <2>2 DEF AheadClear
    <3>3. (b - first + m) % m = off
      BY <1>0, <3>1, OffsetOfBlock
    <3>4. b \notin tree
      BY <1>3, <2>1, <2>4, <2>5, <3>3 DEF Marks
    <3> QED
      BY <3>2, <3>4
  <2> QED
    BY <1>1, <2>1, <2>3, <2>4, <2>5, <1>3 DEF OffersFree, At
<1> QED
  BY <1>2, <1>3 DEF lfs_alloc_scan

(* Handing out a block and going on past it (656-674). *)
LEMMA FoundSound ==
    ASSUME TypeOK, OffersFree, AheadClear, Found
    PROVE  OffersFree' /\ AheadClear'
<1> DEFINE m == block_count
<1>0. /\ m \in Nat /\ m > 0 /\ ckpoint \in 0 .. m /\ start \in 0 .. m - 1
      /\ next \in 0 .. m /\ size \in 0 .. m /\ size - next <= ckpoint
  BY AllocAssumption DEF TypeOK, Blocks
<1>1. PICK q \in next + 1 .. size : next' = q /\ ckpoint' = ckpoint - (q - next)
  BY DEF Found, Stops, Countdown
<1>5. /\ inflight' = inflight \cup {At(next)}
      /\ UNCHANGED <<block_count, start, size, buffer, tree>>
  BY DEF Found
<1>6. q \in Nat /\ next < q /\ q <= size /\ next \in Nat /\ ckpoint \in Nat
  BY <1>0
<1>2. ASSUME NEW d \in 1 .. ckpoint - 1 PROVE At(next + d) # At(next)
  <2>1. start + next \in Nat /\ start + next < 2 * m /\ d \in Nat /\ 0 < d /\ d < m
    BY <1>0
  <2>2. (start + next + d) % m # (start + next) % m
    BY <1>0, <2>1, ModDistinct
  <2>3. start + (next + d) = start + next + d
    BY <1>0
  <2> QED
    BY <2>2, <2>3 DEF At
<1>3. ASSUME NEW off \in q .. size - 1, off \notin buffer
      PROVE  At(off) \notin tree \cup inflight \cup {At(next)}
  <2>1. off \in next .. size - 1 /\ off - next \in 1 .. ckpoint - 1 /\ next + (off - next) = off
    BY <1>0, <1>6
  <2>2. At(off) # At(next)
    BY <1>2, <2>1
  <2> QED
    BY <2>1, <2>2, <1>3 DEF OffersFree
<1>4. ASSUME NEW off \in 0 .. (ckpoint - (q - next)) - 1
      PROVE  At(q + off) \notin inflight \cup {At(next)}
  <2> DEFINE d == q - next + off
  <2>1. d \in 1 .. ckpoint - 1 /\ q + off = next + d /\ d \in 0 .. ckpoint - 1
    BY <1>6
  <2>2. At(next + d) # At(next) /\ At(next + d) \notin inflight
    BY <1>2, <2>1 DEF AheadClear
  <2> QED
    BY <2>1, <2>2
<1> QED
  BY <1>1, <1>3, <1>4, <1>5 DEF OffersFree, AheadClear, At

(* Growing a device that at least doubles (5163-5171). *)
LEMMA GrowSound ==
    ASSUME AmpleGrowth, TypeOK, OffersFree, Grow
    PROVE  OffersFree' /\ AheadClear'
<1>1. PICK n \in GrownCounts : n > block_count /\ block_count' = n
  BY DEF Grow
<1>2. n \in Nat /\ n >= 2 * block_count /\ block_count \in Nat /\ block_count > 0
  BY <1>1, AllocAssumption DEF AmpleGrowth, TypeOK
<1>3. inflight' = {} /\ inflight = {} /\ UNCHANGED <<start, size, next, buffer, tree>>
  BY DEF Grow, lookahead, fs
<1>4. ASSUME NEW off \in next .. size - 1, off \notin buffer PROVE (start + off) % n \notin tree
  <2>1. /\ start \in Nat /\ start < block_count /\ off \in Nat /\ off < block_count
        /\ tree \subseteq 0 .. block_count - 1
    BY <1>2 DEF TypeOK, Blocks
  <2>2. (start + off) % n = start + off
    BY <1>2, <2>1, ModOnce
  <2>3. CASE start + off < block_count
    <3>1. At(off) = start + off
      BY <1>2, <2>1, <2>3, ModOnce DEF At
    <3> QED
      BY <2>2, <3>1, <1>4 DEF OffersFree
  <2>4. CASE start + off >= block_count
    BY <2>1, <2>2, <2>4, <1>2
  <2> QED
    BY <2>1, <2>3, <2>4, <1>2
<1> QED
  BY <1>1, <1>3, <1>4 DEF OffersFree, AheadClear, At

AllocInv == TypeOK /\ OffersFree /\ AheadClear

LEMMA AllocStep == ASSUME AmpleGrowth, AllocInv, [Next]_vars PROVE OffersFree' /\ AheadClear'
<1> USE DEF AllocInv
<1>1. CASE lfs_alloc_ckpoint
  BY <1>1 DEF lfs_alloc_ckpoint, OffersFree, AheadClear, At, fs
<1>2. CASE Link
  <2>1. (tree \cup inflight)' = tree \cup inflight /\ inflight' \subseteq inflight
    BY <1>2 DEF Link
  <2> QED
    BY <1>2, <2>1 DEF Link, OffersFree, AheadClear, At, lookahead
<1>3. CASE GiveUp
  BY <1>3 DEF GiveUp, OffersFree, AheadClear, At, lookahead
<1>4. CASE Free
  BY <1>4 DEF Free, OffersFree, AheadClear, At, lookahead
<1>5. CASE Mount
  BY <1>5 DEF Mount, OffersFree, AheadClear, At
<1>6. CASE Grow
  BY <1>6, GrowSound
<1>7. CASE lfs_fs_gc_ \/ Search
  BY <1>7, ScanSound DEF lfs_fs_gc_, Search
<1>8. CASE Call
  BY <1>8 DEF Call, OffersFree, AheadClear, At, lookahead, fs
<1>9. CASE Skip
  <2>0. next \in Nat /\ ckpoint \in Nat /\ size \in Nat
    BY AllocAssumption DEF TypeOK
  <2>1. next' = next + 1 /\ ckpoint' = ckpoint - 1
    BY <1>9 DEF Skip, Countdown
  <2>2. \A off \in 0 .. (ckpoint - 1) - 1 : At((next + 1) + off) \notin inflight
    <3> SUFFICES ASSUME NEW off \in 0 .. (ckpoint - 1) - 1 PROVE At((next + 1) + off) \notin inflight
      OBVIOUS
    <3>1. off + 1 \in 0 .. ckpoint - 1 /\ (next + 1) + off = next + (off + 1)
      BY <2>0
    <3> QED
      BY <3>1 DEF AheadClear
  <2>3. \A off \in next + 1 .. size - 1 : off \notin buffer => At(off) \notin tree \cup inflight
    BY <2>0 DEF OffersFree
  <2> QED
    BY <1>9, <2>1, <2>2, <2>3 DEF Skip, OffersFree, AheadClear, At, fs
<1>10. CASE Found
  BY <1>10, FoundSound
<1>11. CASE NoSpace
  BY <1>11 DEF NoSpace, OffersFree, AheadClear, At, lookahead, fs
<1>12. CASE UNCHANGED vars
  BY <1>12 DEF vars, OffersFree, AheadClear, At, lookahead, fs
<1> QED
  BY <1>1, <1>2, <1>3, <1>4, <1>5, <1>6, <1>7, <1>8, <1>9, <1>10, <1>11, <1>12
     DEF Next, Operation, lfs_alloc

LEMMA AllocInvariant == ASSUME AmpleGrowth PROVE Spec => []AllocInv
<1>1. Init => OffersFree /\ AheadClear
  BY DEF Init, OffersFree, AheadClear
<1>2. TypeOK /\ OffersFree /\ AheadClear /\ [Next]_vars => OffersFree' /\ AheadClear'
  BY AllocStep DEF AllocInv
<1>3. Spec => [](OffersFree /\ AheadClear)
  <2>1. Spec => []TypeOK
    BY TypeCorrect
  <2> QED
    BY <1>1, <1>2, <2>1, PTL DEF Spec
<1> QED
  BY <1>3, TypeCorrect, PTL DEF AllocInv

(* What the window offers is in nobody's hands (lfs.c 656-660), for every    *)
(* size of device and window, as long as the device only grows by doubling.  *)
THEOREM WindowSound == AmpleGrowth => (Spec => []OffersFree)
<1> SUFFICES ASSUME AmpleGrowth PROVE Spec => []OffersFree
  OBVIOUS
<1> QED
  BY AllocInvariant, PTL DEF AllocInv

(* The allocator implements the pool: a block it hands out is in no tree and *)
(* not in flight (lfs.c 653-704).                                            *)
THEOREM Refinement == AmpleGrowth => (Spec => ImplementsPool)
<1> SUFFICES ASSUME AmpleGrowth PROVE Spec => Pool!Spec
  BY DEF ImplementsPool
<1>1. Init => Pool!Init
  BY DEF Init, Pool!Init
<1>2. ASSUME AllocInv, [Next]_vars PROVE [Pool!Next]_(Pool!vars)
  <2>0. TypeOK /\ OffersFree
    BY <1>2 DEF AllocInv
  <2>1. CASE lfs_alloc_ckpoint \/ Skip \/ NoSpace \/ Grow \/ UNCHANGED vars
    BY <2>1 DEF lfs_alloc_ckpoint, Skip, NoSpace, Grow, vars, fs, Pool!vars
  <2>2. CASE Link
    <3>1. PICK b \in inflight : tree' = tree \cup {b} /\ inflight' = inflight \ {b}
      BY <2>2 DEF Link
    <3> QED
      BY <2>2, <3>1 DEF Link, Pool!Next, Pool!Settle
  <2>3. CASE GiveUp
    BY <2>3 DEF GiveUp, Pool!Next, Pool!Settle
  <2>4. CASE Free \/ Mount
    BY <2>4 DEF Free, Mount, Pool!Next, Pool!Release
  <2>5. CASE lfs_fs_gc_ \/ Search
    BY <2>5 DEF lfs_fs_gc_, Search, lfs_alloc_scan, Pool!Next, Pool!Release, Pool!vars
  <2>6. CASE Call
    BY <2>6 DEF Call, fs, Pool!Next, Pool!Ask
  <2>7. CASE Found
    <3>0. next < size /\ next \notin buffer
      BY <2>7 DEF Found
    <3>4. size \in Nat /\ next \in Nat
      BY <2>0, AllocAssumption DEF TypeOK
    <3>1. next \in next .. size - 1 /\ At(next) \in Blocks(block_count)
      BY <2>0, <3>0, <3>4, AtBlock
    <3>2. At(next) \notin tree \cup inflight
      BY <2>0, <3>0, <3>1 DEF OffersFree
    <3>3. At(next) # NoBlock
      BY <2>0, <3>1, AllocAssumption DEF Blocks, NoBlock, TypeOK
    <3> QED
      BY <2>7, <3>2, <3>3 DEF Found, Pool!Next, Pool!HandOut
  <2> QED
    BY <1>2, <2>1, <2>2, <2>3, <2>4, <2>5, <2>6, <2>7 DEF Next, Operation, lfs_alloc
<1> QED
  BY <1>1, <1>2, AllocInvariant, PTL DEF Spec, Pool!Spec
-----------------------------------------------------------------------------
(* A format.  Until the superblock pair is linked the window is the one the  *)
(* format began with, and what it gave out are the blocks before next.       *)
Formatting ==
    /\ block_count = BlockCount /\ start = 0 /\ buffer = {} /\ size >= 2
    /\ next \in 0 .. 2 /\ tree \cup inflight = 0 .. next - 1
    /\ err = "OK"
    /\ pc = "search" => next < 2

FormatInv ==
    /\ pc = "idle" => Root \subseteq tree
    /\ pc = "format" \/ ~(Root \subseteq tree) => Formatting

LEMMA FormatStep == ASSUME TypeOK, FormatInv, [Next]_vars PROVE FormatInv'
<1> USE DEF lookahead, fs
<1>1. CASE lfs_alloc_ckpoint
  BY <1>1 DEF lfs_alloc_ckpoint, FormatInv, Formatting
<1>2. CASE Link
  BY <1>2 DEF Link, FormatInv, Formatting
<1>3. CASE GiveUp
  BY <1>3 DEF GiveUp, FormatInv, Formatting
<1>4. CASE Free
  BY <1>4 DEF Free, FormatInv, Formatting
<1>5. CASE Mount
  BY <1>5 DEF Mount, FormatInv, Formatting
<1>6. CASE Grow
  BY <1>6 DEF Grow, FormatInv, Formatting
<1>7. CASE lfs_fs_gc_
  BY <1>7 DEF lfs_fs_gc_, lfs_alloc_scan, FormatInv
<1>8. CASE Call
  <2>1. Formatting /\ Cardinality(tree \cup inflight) < 2 => next < 2
    <3> SUFFICES ASSUME Formatting, Cardinality(0 .. next - 1) < 2 PROVE next < 2
      BY DEF Formatting
    <3>1. next \in Int
      BY DEF Formatting
    <3>2. Cardinality(0 .. next - 1) = IF 0 > next - 1 THEN 0 ELSE next - 1 - 0 + 1
      BY <3>1, FS_Interval
    <3> QED
      BY <3>1, <3>2
  <2> QED
    BY <1>8, <2>1 DEF Call, FormatInv, Formatting
<1>9. CASE Skip
  BY <1>9 DEF Skip, FormatInv, Formatting
<1>10. CASE Found
  <2>1. CASE Root \subseteq tree
    BY <1>10, <2>1 DEF Found, Back, FormatInv
  <2>2. CASE ~(Root \subseteq tree)
    <3>1. Formatting /\ pc = "search" /\ next \in {0, 1}
      BY <1>10, <2>2 DEF Found, FormatInv, Formatting
    <3>2. At(next) = next
      BY <3>1, AllocAssumption, ModOnce DEF At, Formatting
    <3>3. next' = next + 1
      BY <1>10, <3>1 DEF Found, Stops, Formatting
    <3>4. tree' \cup inflight' = 0 .. next' - 1
      BY <1>10, <3>1, <3>2, <3>3 DEF Found, Formatting
    <3> QED
      BY <1>10, <2>2, <3>1, <3>3, <3>4 DEF Found, Back, FormatInv, Formatting
  <2> QED
    BY <2>1, <2>2
<1>11. CASE NoSpace
  BY <1>11 DEF NoSpace, Back, FormatInv, Formatting
<1>12. CASE Search
  BY <1>12 DEF Search, lfs_alloc_scan, FormatInv, Formatting
<1>13. CASE UNCHANGED vars
  BY <1>13 DEF vars, FormatInv, Formatting
<1> QED
  BY <1>1, <1>2, <1>3, <1>4, <1>5, <1>6, <1>7, <1>8, <1>9, <1>10, <1>11, <1>12, <1>13
     DEF Next, Operation, lfs_alloc

(* The superblock pair of a format is blocks 0 and 1 (lfs.c 4336, 4604), on    *)
(* every device and with every window of two blocks or more.                  *)
THEOREM FormatSound == Spec => []FormatTakesRoot
<1>1. Init => FormatInv
  BY AllocAssumption DEF Init, FormatInv, Formatting, Least
<1>2. FormatInv => FormatTakesRoot
  BY DEF FormatInv, Formatting, FormatTakesRoot, Root
<1> QED
  BY <1>1, <1>2, FormatStep, TypeCorrect, PTL DEF Spec
-----------------------------------------------------------------------------
(* "No more free space".  What the search has looked at since the countdown  *)
(* was last set lies behind it: ckpoint .. block_count - 1 blocks ahead, all  *)
(* the way round.  Each of those blocks was taken when it was passed, so it  *)
(* still is, or it was freed since; and the same holds for a block the       *)
(* window marks as used.                                                     *)
MarksHeld ==
    \A off \in next .. size - 1 : off \in buffer => At(off) \in tree \cup late

BehindHeld ==
    \A off \in ckpoint .. block_count - 1 : At(next + off) \in tree \cup inflight \cup late

HonestInv == MarksHeld /\ BehindHeld

(* Going once round the device comes back to the same block. *)
LEMMA RoundTrip ==
    ASSUME NEW m \in Nat, m > 0, NEW x \in Nat, x < 2 * m PROVE (x + m) % m = x % m
<1>1. CASE x < m
  BY <1>1, ModOnce, ModTwice
<1>2. CASE m <= x
  <2>1. x % m = x - m
    BY <1>2, ModTwice
  <2>2. (x + m) % m = x + m - 2 * m
    BY <1>2, ModThrice
  <2> QED
    BY <2>1, <2>2
<1> QED
  BY <1>1, <1>2

(* The other direction of OffsetOfBlock: a bit stands for the block it was   *)
(* set for.                                                                  *)
LEMMA BlockOfOffset ==
    ASSUME NEW m \in Nat, m > 0, NEW first \in 0 .. m - 1, NEW b \in 0 .. m - 1
    PROVE  (first + ((b - first + m) % m)) % m = b
<1>1. CASE first <= b
  <2>1. (b - first + m) % m = b - first
    BY <1>1, ModTwice
  <2>2. b % m = b
    BY ModOnce
  <2> QED
    BY <2>1, <2>2
<1>2. CASE b < first
  <2>1. (b - first + m) % m = b - first + m
    BY <1>2, ModOnce
  <2>2. (b + m) % m = b
    BY ModTwice
  <2> QED
    BY <2>1, <2>2
<1> QED
  BY <1>1, <1>2

(* A scan marks what is taken, and forgets what was freed only for blocks it *)
(* has just looked at again (627-650).                                       *)
LEMMA ScanHonest ==
    ASSUME TypeOK, HonestInv, Root \subseteq tree, lfs_alloc_scan, UNCHANGED <<block_count, tree>>
    PROVE  HonestInv'
<1> DEFINE m == block_count
<1>0. m \in Nat /\ m > 0 /\ ckpoint \in 0 .. m /\ start \in 0 .. m - 1 /\ next \in 0 .. m
  BY AllocAssumption DEF TypeOK, Blocks
<1>1. start' = At(next) /\ start' \in 0 .. m - 1 /\ next' = 0
  BY <1>0, AtBlock DEF lfs_alloc_scan, Blocks
<1>2. CASE size' = 0 /\ ckpoint' = block_count
  BY <1>2, <1>0, <1>1 DEF HonestInv, MarksHeld, BehindHeld
<1>3. CASE /\ size' = WindowSize /\ UNCHANGED <<ckpoint, inflight>>
           /\ buffer' = Marks(tree \cup Root, start', size', m)
           /\ late' = late \ Window(start', size', m)
  <2>1. PICK n \in 0 .. m : n = size' /\ n <= ckpoint
    BY <1>0, <1>3, AllocAssumption DEF WindowSize, Least
  <2>2. PICK first \in 0 .. m - 1 : first = start'
    BY <1>1
  <2>3. tree \subseteq 0 .. m - 1 /\ tree \cup Root = tree
    BY DEF TypeOK, Blocks
  <2>4. MarksHeld'
    <3> SUFFICES ASSUME NEW off \in 0 .. n - 1, off \in buffer' PROVE (first + off) % m \in tree
      BY <1>1, <2>1, <2>2 DEF MarksHeld, At
    <3>1. PICK b \in tree : off = (b - first + m) % m
      BY <1>3, <2>1, <2>2, <2>3 DEF Marks
    <3> QED
      BY <1>0, <2>3, <3>1, BlockOfOffset
  <2>5. BehindHeld'
    <3> SUFFICES ASSUME NEW off \in ckpoint .. m - 1
                 PROVE  (first + off) % m \in tree \cup inflight \cup late'
      BY <1>1, <1>3, <2>2 DEF BehindHeld, At
    <3>0. n \in Nat /\ off \in Nat /\ ckpoint \in Nat /\ n <= off /\ off < m
      BY <1>0, <2>1
    <3>1. (first + off) % m = At(next + off)
      <4>1. start + next \in Nat /\ start + next < 2 * m
        BY <1>0
      <4>2. (((start + next) % m) + off) % m = (start + next + off) % m
        BY <1>0, <3>0, <4>1, ModShift
      <4> QED
        BY <1>0, <1>1, <2>2, <3>0, <4>2 DEF At
    <3>2. At(next + off) \in tree \cup inflight \cup late
      BY DEF HonestInv, BehindHeld
    <3>3. ASSUME NEW o \in 0 .. n - 1 PROVE (first + o) % m # (first + off) % m
      <4>1. /\ first + o \in Nat /\ first + o < 2 * m
            /\ off - o \in Nat /\ 0 < off - o /\ off - o < m
        BY <1>0, <3>0
      <4>2. (first + o + (off - o)) % m # (first + o) % m
        BY <1>0, <4>1, ModDistinct
      <4>3. first + o + (off - o) = first + off
        BY <3>0
      <4> QED
        BY <4>2, <4>3
    <3>4. (first + off) % m \notin Window(start', size', m)
      BY <2>1, <2>2, <3>3 DEF Window
    <3> QED
      BY <1>3, <3>1, <3>2, <3>4
  <2> QED
    BY <2>4, <2>5 DEF HonestInv
<1> QED
  BY <1>2, <1>3 DEF lfs_alloc_scan

(* Going on by q - next blocks, each of them taken (656-679). *)
LEMMA PassHonest ==
    ASSUME TypeOK, HonestInv, NEW q \in next + 1 .. size,
           next' = q, ckpoint' = ckpoint - (q - next),
           UNCHANGED <<block_count, start, size, buffer, tree, late>>,
           inflight \subseteq inflight',
           \A o \in next .. q - 1 : At(o) \in tree \cup inflight' \cup late
    PROVE  HonestInv'
<1> DEFINE m == block_count
<1>0. /\ m \in Nat /\ m > 0 /\ ckpoint \in 0 .. m /\ start \in 0 .. m - 1
      /\ next \in 0 .. m /\ size \in 0 .. m /\ size - next <= ckpoint
  BY AllocAssumption DEF TypeOK, Blocks
<1>1. q \in Nat /\ next < q /\ q <= size /\ next \in Nat /\ ckpoint \in Nat
  BY <1>0
<1>2. MarksHeld'
  BY <1>0, <1>1 DEF HonestInv, MarksHeld, At
<1>3. ASSUME NEW off \in ckpoint - (q - next) .. m - 1
      PROVE  At(q + off) \in tree \cup inflight' \cup late
  <2> DEFINE d == q - next + off
  <2>1. d \in Nat /\ ckpoint <= d /\ q + off = next + d /\ off < m
    BY <1>0, <1>1
  <2>2. CASE d < m
    <3>1. d \in ckpoint .. m - 1
      BY <2>1, <2>2, <1>0
    <3> QED
      BY <2>1, <3>1 DEF HonestInv, BehindHeld
  <2>3. CASE m <= d
    <3> DEFINE e == next + d - m
    <3>1. e \in next .. q - 1 /\ e \in Nat /\ next + d = e + m
      BY <1>0, <1>1, <2>1, <2>3
    <3>2. start + e \in Nat /\ start + e < 2 * m
      BY <1>0, <1>1, <3>1
    <3>3. (start + e + m) % m = (start + e) % m
      BY <1>0, <3>2, RoundTrip
    <3>4. At(next + d) = At(e)
      BY <1>0, <3>1, <3>3 DEF At
    <3> QED
      BY <2>1, <3>1, <3>4
  <2> QED
    BY <1>0, <2>1, <2>2, <2>3
<1>4. BehindHeld'
  BY <1>3 DEF BehindHeld, At
<1> QED
  BY <1>2, <1>4 DEF HonestInv

LEMMA HonestStep == ASSUME TypeOK, TypeOK', FormatInv, HonestInv, [Next]_vars PROVE HonestInv'
<1> USE DEF lookahead, fs
<1>0. /\ next \in Nat /\ ckpoint \in Nat /\ size \in Nat /\ block_count \in Nat
      /\ next <= size /\ block_count >= 2
  BY AllocAssumption DEF TypeOK
<1>1. CASE lfs_alloc_ckpoint
  BY <1>0, <1>1 DEF lfs_alloc_ckpoint, Checkpoint, HonestInv, MarksHeld, BehindHeld, At
<1>2. CASE Link
  <2>1. (tree \cup inflight)' = tree \cup inflight /\ tree \subseteq tree'
    BY <1>2 DEF Link
  <2> QED
    BY <1>2, <2>1 DEF Link, HonestInv, MarksHeld, BehindHeld, At
<1>3. CASE GiveUp
  BY <1>3 DEF GiveUp, HonestInv, MarksHeld, BehindHeld, At
<1>4. CASE Free
  BY <1>4 DEF Free, HonestInv, MarksHeld, BehindHeld, At
<1>5. CASE Mount
  BY <1>0, <1>5 DEF Mount, Checkpoint, HonestInv, MarksHeld, BehindHeld, At
<1>6. CASE Grow
  <2>1. \A off \in Nat : At(off)' \in late'
    BY <1>6, AtBlock, AllocAssumption, ModRange DEF Grow, TypeOK, At, Blocks
  <2>2. UNCHANGED <<next, size, ckpoint>> /\ block_count' \in Nat
    BY <1>6, AllocAssumption DEF Grow
  <2>3. MarksHeld'
    BY <1>0, <2>1, <2>2 DEF MarksHeld, At
  <2>4. BehindHeld'
    <3> SUFFICES ASSUME NEW off \in ckpoint' .. block_count' - 1
                 PROVE  ((start + (next + off)) % block_count)' \in late'
      BY DEF BehindHeld, At
    <3>1. next' + off \in Nat
      BY <1>0, <2>2
    <3> QED
      BY <2>1, <3>1 DEF At
  <2> QED
    BY <2>3, <2>4 DEF HonestInv
<1>7. CASE lfs_fs_gc_
  BY <1>7, ScanHonest DEF lfs_fs_gc_, FormatInv
<1>8. CASE Call
  BY <1>8 DEF Call, HonestInv, MarksHeld, BehindHeld, At
<1>9. CASE Skip
  <2>1. next + 1 \in next + 1 .. size /\ next \in next .. size - 1
    BY <1>0, <1>9 DEF Skip
  <2>2. At(next) \in tree \cup inflight' \cup late
    BY <1>9, <2>1 DEF Skip, HonestInv, MarksHeld
  <2>3. next .. (next + 1) - 1 = {next} /\ ckpoint' = ckpoint - ((next + 1) - next)
    BY <1>0, <1>9 DEF Skip, Countdown
  <2>4. next' = next + 1 /\ UNCHANGED <<block_count, start, size, buffer, tree, late, inflight>>
    BY <1>9 DEF Skip
  <2> QED
    BY <2>1, <2>2, <2>3, <2>4, PassHonest
<1>10. CASE Found
  <2>1. PICK q \in next + 1 .. size :
            /\ next' = q /\ ckpoint' = ckpoint - (q - next)
            /\ \A o \in next + 1 .. q - 1 : o \in buffer
    BY <1>10 DEF Found, Stops, Countdown
  <2>2. /\ inflight' = inflight \cup {At(next)}
        /\ UNCHANGED <<block_count, start, size, buffer, tree, late>>
    BY <1>10 DEF Found
  <2>3. ASSUME NEW o \in next .. q - 1 PROVE At(o) \in tree \cup inflight' \cup late
    <3>1. o = next \/ o \in next + 1 .. q - 1
      BY <1>0
    <3>2. o \in next .. size - 1
      BY <1>0
    <3> QED
      BY <2>1, <2>2, <3>1, <3>2 DEF HonestInv, MarksHeld
  <2> QED
    BY <2>1, <2>2, <2>3, PassHonest
<1>11. CASE NoSpace
  BY <1>11 DEF NoSpace, HonestInv, MarksHeld, BehindHeld, At
<1>12. CASE Search
  <2>1. Root \subseteq tree
    BY <1>0, <1>12 DEF Search, FormatInv, Formatting
  <2> QED
    BY <1>12, <2>1, ScanHonest DEF Search
<1>13. CASE UNCHANGED vars
  BY <1>13 DEF vars, HonestInv, MarksHeld, BehindHeld, At
<1> QED
  BY <1>1, <1>2, <1>3, <1>4, <1>5, <1>6, <1>7, <1>8, <1>9, <1>10, <1>11, <1>12, <1>13
     DEF Next, Operation, lfs_alloc

(* When the countdown has run out, what lies behind the search is the whole  *)
(* device (681-693).                                                         *)
LEMMA NothingLeft ==
    ASSUME TypeOK, BehindHeld, ckpoint <= 0
    PROVE  Blocks(block_count) \subseteq tree \cup inflight \cup late
<1> DEFINE m == block_count
<1>0. m \in Nat /\ m > 0 /\ start \in 0 .. m - 1 /\ next \in 0 .. m /\ ckpoint = 0
  BY AllocAssumption DEF TypeOK, Blocks
<1> SUFFICES ASSUME NEW b \in 0 .. m - 1 PROVE b \in tree \cup inflight \cup late
  BY DEF Blocks
<1> DEFINE first == (start + next) % m
           off == (b - first + m) % m
<1>1. first \in 0 .. m - 1
  BY <1>0, ModRange
<1>2. off \in 0 .. m - 1
  BY <1>0, <1>1, ModRange
<1>3. (first + off) % m = b
  BY <1>0, <1>1, BlockOfOffset
<1> HIDE DEF off
<1>4. (first + off) % m = (start + next + off) % m
  BY <1>0, <1>2, ModShift
<1>5. At(next + off) = b
  BY <1>0, <1>2, <1>3, <1>4 DEF At
<1> QED
  BY <1>0, <1>2, <1>5 DEF BehindHeld

(* LFS_ERR_NOSPC is the truth about the search (lfs.c 681-693): every block   *)
(* it looked at was taken, and what is free now was freed behind it; on every *)
(* device, with every window, however the device was grown.                  *)
THEOREM NoSpaceIsHonest == Spec => NoSpaceHonest
<1>1. Init => HonestInv
  BY AllocAssumption DEF Init, HonestInv, MarksHeld, BehindHeld
<1>2. Spec => []FormatInv
  <2>1. Init => FormatInv
    BY AllocAssumption DEF Init, FormatInv, Formatting, Least
  <2> QED
    BY <2>1, FormatStep, TypeCorrect, PTL DEF Spec
<1>3. TypeOK /\ TypeOK' /\ FormatInv /\ HonestInv /\ [Next]_vars => HonestInv'
  BY HonestStep
<1>4. Spec => []HonestInv
  BY <1>1, <1>2, <1>3, TypeCorrect, PTL DEF Spec
<1>5. TypeOK /\ HonestInv /\ [Next]_vars
        => [err # "NOSPC" /\ err' = "NOSPC" =>
              Blocks(block_count) \subseteq tree \cup inflight \cup late]_vars
  <2> SUFFICES ASSUME TypeOK, HonestInv, [Next]_vars, err # "NOSPC", err' = "NOSPC"
               PROVE  Blocks(block_count) \subseteq tree \cup inflight \cup late
    OBVIOUS
  <2>1. NoSpace
    BY DEF Next, Operation, lfs_alloc, lfs_alloc_ckpoint, Link, GiveUp, Free, Mount, Grow,
           lfs_fs_gc_, lfs_alloc_scan, Call, Skip, Found, Search, vars
  <2> QED
    BY <2>1, NothingLeft DEF NoSpace, HonestInv
<1> QED
  BY <1>4, <1>5, TypeCorrect, PTL DEF Spec, NoSpaceHonest
=============================================================================
