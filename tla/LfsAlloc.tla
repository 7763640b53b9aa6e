------------------------------- MODULE LfsAlloc ------------------------------
(***************************************************************************)
(* The block allocator of littlefs (lfs.c 594-704): no free list on disk,   *)
(* but a window of lookahead_size bytes of RAM, one bit for each block from  *)
(* lookahead.start on, filled by traversing the whole file system; and a    *)
(* countdown, lookahead.ckpoint, that keeps an operation from searching     *)
(* for ever on a full device and from being handed its own blocks twice.    *)
(*                                                                         *)
(* The file system around it is reduced to the set of blocks a traversal    *)
(* finds.  An operation allocates blocks, then links them into the tree or  *)
(* gives them up, and calls lfs_alloc_ckpoint only with none in flight      *)
(* (597-601).  The device may fail a traversal, be unplugged at any time,   *)
(* or be grown with lfs_fs_grow.                                            *)
(***************************************************************************)
EXTENDS Integers, FiniteSets

CONSTANTS
    BlockCount,     \* cfg.block_count when the device is formatted
    GrownCounts,    \* block counts lfs_fs_grow may be called with
    LOOKAHEAD,      \* 8 * cfg.lookahead_size
    ScanFails       \* a traversal may fail to read the device

ASSUME AllocAssumption ==
    /\ BlockCount \in Nat /\ BlockCount >= 2
    /\ GrownCounts \subseteq Nat
    /\ LOOKAHEAD \in Nat /\ LOOKAHEAD >= 2
    /\ ScanFails \in BOOLEAN

NoBlock == -1
Blocks(count) == 0 .. count - 1
Root == {0, 1}            \* where every traversal starts (lfs.c 4604)

VARIABLES
    pc,            \* "format", "idle" between calls of lfs_alloc, "search" in one
    block_count,
    start, size, next, ckpoint,     \* the fields of lfs->lookahead
    buffer,        \* offsets into the window whose bit is set
    tree,          \* what a traversal finds
    inflight,      \* blocks handed out and not in the tree yet
    block, err,    \* what lfs_alloc returned
    late           \* history: blocks freed since they were last looked at

lookahead == <<start, size, next, ckpoint, buffer>>
fs == <<tree, inflight>>
vars == <<pc, block_count, lookahead, fs, block, err, late>>

Least(a, b) == IF a < b THEN a ELSE b

At(off) == (start + off) % block_count
Window(first, n, count) == {(first + off) % count : off \in 0 .. n - 1}

(* lfs_alloc_lookahead over what lfs_fs_traverse_ finds.  An operation's own *)
(* blocks are in no tree yet, so they are not marked.                        *)
Marks_Plain(used, first, n, count) ==                \* mutant: the window does not wrap
    {b - first : b \in {u \in used : first <= u /\ u - first < n}}

Marks(used, first, n, count) ==
    {(b - first + count) % count : b \in used} \cap (0 .. n - 1)
-----------------------------------------------------------------------------
(* The operations of the file system around the allocator. *)

Checkpoint_Half == block_count \div 2                \* mutant: not the whole device

Checkpoint == block_count

lfs_alloc_ckpoint ==
    /\ pc = "idle" /\ inflight = {}
    /\ ckpoint' = Checkpoint
    /\ UNCHANGED <<pc, block_count, start, size, next, buffer, fs, block, err, late>>

Link == /\ pc \in {"format", "idle"}
        /\ \E b \in inflight :
              /\ tree' = tree \cup {b}
              /\ inflight' = inflight \ {b}
        /\ UNCHANGED <<pc, block_count, lookahead, block, err, late>>

(* The operation fails and forgets its blocks. *)
GiveUp == /\ pc = "idle" /\ inflight # {}
          /\ late' = late \cup inflight
          /\ inflight' = {}
          /\ UNCHANGED <<pc, block_count, lookahead, tree, block, err>>

(* A commit drops the reference to a block. *)
Free == /\ pc = "idle"
        /\ \E b \in tree \ Root :
              /\ tree' = tree \ {b}
              /\ late' = late \cup {b}
        /\ UNCHANGED <<pc, block_count, lookahead, inflight, block, err>>

(* lfs_mount_: what was in flight is lost, the allocator starts at a block   *)
(* the seed picks, and lfs_alloc_drop empties the window.                    *)
Mount == /\ Root \subseteq tree
         /\ start' \in Blocks(block_count)
         /\ size' = 0 /\ next' = 0 /\ ckpoint' = Checkpoint
         /\ inflight' = {} /\ late' = late \cup inflight
         /\ pc' = "idle" /\ block' = NoBlock /\ err' = "OK"
         /\ UNCHANGED <<block_count, buffer, tree>>

(* lfs_fs_grow_ sets block_count and leaves the window as it is. *)
Grow == /\ pc = "idle" /\ inflight = {}
        /\ \E n \in GrownCounts : n > block_count /\ block_count' = n
        /\ late' = Blocks(block_count')
        /\ UNCHANGED <<pc, lookahead, fs, block, err>>
-----------------------------------------------------------------------------
(* lfs_alloc_scan, called by lfs_alloc and by lfs_fs_gc_.  When the traversal *)
(* fails every caller returns the error, and the operation with it.          *)

WindowSize_All == LOOKAHEAD                          \* mutant: not limited by the budget

WindowSize == Least(LOOKAHEAD, ckpoint)

lfs_alloc_scan ==
    \/ /\ start' = At(next)
       /\ next' = 0
       /\ size' = WindowSize
       /\ buffer' = Marks(tree \cup Root, start', size', block_count)
       /\ late' = late \ Window(start', size', block_count)
       /\ UNCHANGED <<pc, ckpoint, inflight, err>>
    \/ /\ ScanFails                                  \* lfs_alloc_drop
       /\ start' = At(next)
       /\ size' = 0 /\ next' = 0 /\ ckpoint' = block_count
       /\ err' = "IO" /\ pc' = "idle"
       /\ late' = late \cup inflight /\ inflight' = {}
       /\ UNCHANGED buffer

lfs_fs_gc_ == /\ pc = "idle" /\ inflight = {} /\ size < LOOKAHEAD
              /\ lfs_alloc_scan
              /\ UNCHANGED <<block_count, tree, block>>

(* lfs_alloc. *)

Call == /\ \/ pc = "idle"
           \/ pc = "format" /\ Cardinality(tree \cup inflight) < 2
        /\ pc' = "search"
        /\ block' = NoBlock /\ err' = "OK"
        /\ UNCHANGED <<block_count, lookahead, fs, late>>

(* Where lfs_alloc returns to. *)
Back == IF Root \subseteq tree THEN "idle" ELSE "format"

(* The countdown after n blocks have been looked at. *)
Countdown_Free(n) == IF next \in buffer THEN ckpoint    \* mutant: used blocks are not
                     ELSE ckpoint - n                  \* counted
Countdown(n) == ckpoint - n

Skip == /\ pc = "search" /\ next < size /\ next \in buffer
        /\ next' = next + 1 /\ ckpoint' = Countdown(1)
        /\ UNCHANGED <<pc, block_count, start, size, buffer, fs, block, err, late>>

(* The offsets lfs_alloc may stop at after it found a block: past it, and    *)
(* past the used blocks that follow.                                         *)
Stops_Same == {next}                                 \* mutant: the block is not passed
Stops_Far  == {Least(next + 2, size)}                \* mutant: one block too many

Stops == {off \in next + 1 .. size :
             /\ off = size \/ off \notin buffer
             /\ \A o \in next + 1 .. off - 1 : o \in buffer}

Found == /\ pc = "search" /\ next < size /\ next \notin buffer
         /\ block' = At(next)
         /\ inflight' = inflight \cup {At(next)}
         /\ next' \in Stops /\ ckpoint' = Countdown(next' - next)
         /\ pc' = Back
         /\ UNCHANGED <<block_count, start, size, buffer, tree, err, late>>

NoSpace == /\ pc = "search" /\ next = size /\ ckpoint <= 0
           /\ err' = "NOSPC" /\ pc' = Back
           /\ UNCHANGED <<block_count, lookahead, fs, block, late>>

Search == /\ pc = "search" /\ next = size /\ ckpoint > 0
          /\ lfs_alloc_scan
          /\ UNCHANGED <<block_count, tree, block>>

lfs_alloc == Skip \/ Found \/ NoSpace \/ Search

(* lfs_format_ up to lfs_dir_alloc. *)
Init == /\ pc = "format" /\ block_count = BlockCount
        /\ start = 0 /\ next = 0 /\ ckpoint = BlockCount
        /\ size = Least(LOOKAHEAD, BlockCount)
        /\ buffer = {}
        /\ tree = {} /\ inflight = {}
        /\ block = NoBlock /\ err = "OK" /\ late = {}

Operation == lfs_alloc_ckpoint \/ Link \/ GiveUp \/ Free \/ Mount \/ Grow \/ lfs_fs_gc_

Next == Operation \/ Call \/ lfs_alloc

Spec == Init /\ [][Next]_vars

(* lfs_alloc runs to its end once it is called. *)
FairSpec == Spec /\ WF_vars(lfs_alloc)
-----------------------------------------------------------------------------
(* The window and the countdown stay in range; in particular the countdown,  *)
(* an unsigned number in the code, never goes below what the window still    *)
(* has to offer ("prevents the math in lfs_alloc from underflowing", 632).   *)
TypeOK ==
    /\ pc \in {"format", "idle", "search"}
    /\ block_count \in {BlockCount} \cup GrownCounts /\ block_count >= 2
    /\ start \in Blocks(block_count)
    /\ size \in 0 .. block_count /\ next \in 0 .. size
    /\ ckpoint \in Nat /\ size - next <= ckpoint /\ ckpoint <= block_count
    /\ buffer \subseteq Nat
    /\ tree \subseteq Blocks(block_count) /\ inflight \subseteq Blocks(block_count)
    /\ block \in Blocks(block_count) \cup {NoBlock}
    /\ err \in {"OK", "IO", "NOSPC"}
    /\ late \subseteq Blocks(block_count)

(* A block the window offers is in nobody's hands (659: "found a free        *)
(* block"), whatever was linked, freed or handed out since the scan.         *)
OffersFree ==
    \A off \in next .. size - 1 :
        off \notin buffer => At(off) \notin tree \cup inflight

(* No block in flight lies ahead in what the countdown lets the search see:   *)
(* this is why an operation is not handed its own blocks again, although     *)
(* they are in no tree and a scan does not find them.                        *)
AheadClear == \A off \in 0 .. ckpoint - 1 : At(next + off) \notin inflight

Pool == INSTANCE BlockPool

(* The allocator never hands out a block of the tree, or one block twice.    *)
ImplementsPool == Pool!Spec

(* "No more free space" (689) is said only when every block the search looked *)
(* at was taken: a block free at that moment has been freed, or given up,     *)
(* behind the search.                                                         *)
NoSpaceHonest ==
    [][err # "NOSPC" /\ err' = "NOSPC" =>
           Blocks(block_count) \subseteq tree \cup inflight \cup late]_vars

(* The first two blocks handed out while formatting are those every          *)
(* traversal and every mount start from (4604, 4379).                        *)
FormatTakesRoot == pc = "format" => tree \cup inflight \subseteq Root /\ err = "OK"

(* lfs_alloc does not spin on a full device (681-687).                       *)
AllocEnds == pc = "search" ~> pc # "search"
=============================================================================
