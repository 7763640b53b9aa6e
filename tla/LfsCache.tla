------------------------------- MODULE LfsCache -----------------------------
(***************************************************************************)
(* The caching block device operations of littlefs: reads through a program *)
(* cache and a read cache, programs gathered into a page and read back when *)
(* they are flushed, erases that no cache hears of.                         *)
(*                                                                         *)
(* The operators work on a record m of all that a call changes: m.dev is    *)
(* the device, m.c the caches by name, m.data the words read so far, m.err  *)
(* the error.  The device is a NOR flash: a program clears bits, so that a  *)
(* word programmed twice keeps its value only if it is the same one.  A     *)
(* word stands for four bytes, a page for read, program and cache size,     *)
(* which the firmware sets to the same value.                               *)
(***************************************************************************)
EXTENDS Integers, Sequences, FiniteSetsExt

CONSTANTS BlockCount, BlockSize, PageSize      \* sizes in words

ASSUME CacheAssumption ==
    /\ {BlockCount, BlockSize, PageSize} \subseteq Nat \ {0}
    /\ BlockSize % PageSize = 0

Blocks  == 0 .. BlockCount - 1
Null    == -1          \* LFS_BLOCK_NULL
Inline  == -2          \* LFS_BLOCK_INLINE
Meta    == -3          \* a block of a metadata pair
Erased  == -1
Garbled == -2          \* what a failed program, or two different ones, leave

Lesser(a, b)  == IF a < b THEN a ELSE b
Greater(a, b) == IF a > b THEN a ELSE b
AlignDown(a)  == a - (a % PageSize)

Window   == 0 .. PageSize - 1
Blank    == [i \in Window |-> Erased]
NoCache  == [block |-> Null, off |-> 0, size |-> 0, buf |-> Blank]

(* Kinds of errors: "corrupt" is what a read returns, "bad" the same error    *)
(* returned by a program, to which the callers have an answer.                *)
Failed(m, e) == [m EXCEPT !.err = e]
Ok(m)        == m.err = "ok"

(* A step is taken if the one before it did not fail; what did not stick is    *)
(* tried again, from G on.                                                    *)
Then(m, F(_))  == IF Ok(m) THEN F(m) ELSE m
Again(m, G(_)) == IF m.err = "bad" THEN G([m EXCEPT !.err = "ok"]) ELSE m

Drop(m, x)   == [m EXCEPT !.c[x].block = Null]
Zero(m, x)   == [m EXCEPT !.c[x].block = Null, !.c[x].buf = Blank]

-----------------------------------------------------------------------------
Holds(c, b, off)  == c.block = b /\ off \in c.off .. c.off + c.size - 1
Page(m, b, off)   == [i \in Window |-> m.dev[b][off + i]]

(* A cache is a label and a pointer to a buffer.  The copy lfs_file_flush      *)
(* makes of rcache (lfs.c 3327) is another label on the same buffer.          *)
Buffer(x) == IF x = "oc" THEN "rc" ELSE x
Betrays(m, r, b, off) ==        \* the label on r's buffer says there is something else
    /\ Buffer(r) # r /\ m.c[Buffer(r)].block # Null
    /\ m.c[Buffer(r)].block # b \/ m.c[Buffer(r)].off # off

(* m.stale: a cache that is used for reads (r) came to promise, or gave, what   *)
(* the device does not hold.                                                  *)
Load(m, r, b, off) ==
    [m EXCEPT !.c[r].block = b, !.c[r].off = AlignDown(off), !.c[r].size = PageSize,
              !.c[Buffer(r)].buf = Page(m, b, AlignDown(off)),
              !.stale = @ \/ Betrays(m, r, b, AlignDown(off))]
Got(m, x, r, off) ==
    LET w == m.c[Buffer(x)].buf[off - m.c[x].off]
    IN [m EXCEPT !.data = Append(@, w),
                 !.stale = @ \/ (x = r /\ w # m.dev[m.c[x].block][off])]

(* lfs_bd_read of the words from off on.  The branch that bypasses the caches *)
(* is for reads of a whole block and more.                                    *)
RECURSIVE BdRead(_, _, _, _, _, _)
BdRead(m, p, r, b, off, size) ==
    IF b \notin Blocks \/ off + size > BlockSize THEN Failed(m, "corrupt")
    ELSE IF size = 0 THEN m
    ELSE LET x == IF p # "none" /\ Holds(m.c[p], b, off) THEN p ELSE r
         IN BdRead(Got(IF Holds(m.c[x], b, off) THEN m ELSE Load(m, r, b, off), x, r, off),
                   p, r, b, off + 1, size - 1)

(* A program of a page.  m.left counts the programs up to one that does not   *)
(* stick; m.kept are the blocks no call may touch before its commit.          *)
Programmed(old, new) ==
    IF new = Erased THEN old ELSE IF old \in {Erased, new} THEN new ELSE Garbled

DevProg(m, b, off, buf) ==
    [m EXCEPT !.dev[b] = [i \in 0 .. BlockSize - 1 |->
                  IF i - off \notin Window THEN @[i]
                  ELSE IF m.left = 1 THEN Garbled
                  ELSE Programmed(@[i], buf[i - off])],
              !.left = Greater(@ - 1, 0),
              !.hurt = @ \/ b \in m.kept]

(* lfs_bd_flush, with the read back that every file operation asks for.       *)
ReadBack(w, p) == IF w.c["rc"].buf = w.c[p].buf THEN Zero(w, p) ELSE Failed(w, "bad")
BdFlush(m, p) ==
    LET c == m.c[p]
    IN IF c.block \in {Null, Inline} THEN m
       ELSE ReadBack(Load(DevProg(m, c.block, c.off, c.buf), "rc", c.block, c.off), p)

(* lfs_bd_prog.  A cache still in use for another page is an assertion.       *)
Fits(c, b, off) == c.block = b /\ off \in c.off .. c.off + PageSize - 1
Into(c, off, w) == [c EXCEPT !.buf[off - c.off] = w, !.size = Greater(@, off + 1 - c.off)]
Prepared(m, p, b, off) ==
    IF Fits(m.c[p], b, off) THEN m
    ELSE [m EXCEPT !.c[p].block = b, !.c[p].off = AlignDown(off), !.c[p].size = 0,
                   !.misused = @ \/ m.c[p].block # Null]

FlushFull(m, p) == IF m.c[p].size = PageSize THEN BdFlush(m, p) ELSE m

RECURSIVE BdProg(_, _, _, _, _)
BdProg(m, p, b, off, words) ==
    IF words = << >> \/ ~Ok(m) THEN m
    ELSE BdProg(FlushFull([Prepared(m, p, b, off) EXCEPT !.c[p] = Into(@, off, Head(words))], p),
                p, b, off + 1, Tail(words))

BdErase(m, b) == [m EXCEPT !.dev[b] = [i \in 0 .. BlockSize - 1 |-> Erased],
                           !.hurt = @ \/ b \in m.kept]
=============================================================================
