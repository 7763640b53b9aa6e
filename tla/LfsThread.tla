------------------------------ MODULE LfsThread -----------------------------
(***************************************************************************)
(* What littlefs keeps on the disk of its tree of directories, and how it   *)
(* reads it back.                                                           *)
(*                                                                         *)
(* A directory is a metadata pair, or a chain of them joined by hard tails  *)
(* (split).  It is found twice: from the entry (DIRSTRUCT) of its parent,   *)
(* and from the pair before it on the thread, the list of soft tails that   *)
(* starts at {0, 1} and runs through every pair of the file system.  Only   *)
(* the thread is walked by the allocator, by a mount and by the search for  *)
(* parents.  The global state (is there an orphan, which entry is being     *)
(* moved) is the exclusive or of what the pairs of the thread hold of it.   *)
(*                                                                         *)
(* A pair is the set of its two blocks, the newer revision is in use; the   *)
(* commits inside a block are those of LfsMdir, here each changes the block *)
(* at once.  Entries are named where the code numbers them.                 *)
(***************************************************************************)
EXTENDS Integers, Sequences, FiniteSets, SequencesExt

CONSTANTS
    Blocks,          \* 0 and 1 are the superblock's
    Names,           \* of entries, integers: littlefs sorts them
    Files            \* what tells one regular file from another

Root   == {0, 1}
NoPair == {}
NoEnt  == [type |-> "none", pair |-> NoPair]
Reg(f) == [type |-> f, pair |-> NoPair]
Dir(p) == [type |-> "dir", pair |-> p]

ASSUME ThreadAssumption ==
    /\ Root \subseteq Blocks /\ Blocks \subseteq Nat /\ IsFiniteSet(Blocks)
    /\ Names \subseteq Nat /\ IsFiniteSet(Names) /\ Names # {}
    /\ {"none", "dir"} \cap Files = {}

(* lfs_gstate_t on the disk: the orphan bit, and the moves.  One move is a    *)
(* value of the bits, so that two xor'd together are garbage.                 *)
NoG == [orphan |-> FALSE, moves |-> {}]
Xor(a, b) == [orphan |-> a.orphan # b.orphan,
              moves |-> (a.moves \ b.moves) \cup (b.moves \ a.moves)]

Empty == [rev |-> 0, ents |-> [n \in Names |-> NoEnt], tail |-> NoPair,
          split |-> FALSE, g |-> NoG]

Overlap_Same(p, q) == p = q                           \* mutant: both blocks in order
Overlap(p, q) == p \cap q # {}                        \* lfs_pair_cmp is 0
MoveHere_Never(moves, p) == {}                        \* mutant: moved entries are seen
MoveHere(moves, p) == {v.name : v \in {w \in moves : Overlap(w.pair, p)}}
-----------------------------------------------------------------------------
(* An lfs_mdir_t: the pair, its half in use, and what was read of it.         *)
NoHandle == [pair |-> NoPair, cur |-> 0, m |-> Empty]

Fetch(blk, p) ==
    LET b == CHOOSE c \in p : \A d \in p : blk[c].rev >= blk[d].rev
    IN [pair |-> p, cur |-> b, m |-> blk[b]]

(* The pairs from {0, 1} on, as handles, to the end or into a cycle.          *)
Thread(blk) ==
    LET walk[n \in 0 .. Cardinality(Blocks)] ==
            IF n = 0 THEN <<Fetch(blk, Root)>>
            ELSE LET done == walk[n - 1]
                     next == Last(done).m.tail
                 IN IF next = NoPair \/ next \in {done[i].pair : i \in 1 .. Len(done)}
                    THEN done ELSE Append(done, Fetch(blk, next))
    IN walk[Cardinality(Blocks)]

(* The names a pair holds; those of a pending move are hidden.                *)
Has(h, moves) == {n \in Names : h.m.ents[n] # NoEnt} \ MoveHere(moves, h.pair)
DirsOf(h, moves) == {n \in Has(h, moves) : h.m.ents[n].type = "dir"}

(* The first handle of a sequence that passes a test, if any does.            *)
The(S) == CHOOSE x \in S : TRUE
FirstOf(t, Test(_)) ==
    {t[i] : i \in {j \in DOMAIN t : Test(t[j]) /\ \A k \in 1 .. j - 1 : ~Test(t[k])}}

(* lfs_fs_pred: the first pair whose tail leads to p.                         *)
Preds(blk, p) == FirstOf(Thread(blk), LAMBDA h : Overlap(h.m.tail, p))

(* lfs_fs_parent: the first pair with an entry that leads to p.               *)
Entries(h, moves, p) == {n \in DirsOf(h, moves) : Overlap(h.m.ents[n].pair, p)}
Parents(blk, moves, p) ==
    FirstOf(Thread(blk), LAMBDA h : Entries(h, moves, p) # {})

(* lfs_fs_traverse_, with the pairs of orphans: what the allocator avoids.    *)
InUse(blk, moves) ==
    UNION {h.pair \cup UNION {h.m.ents[n].pair : n \in DirsOf(h, moves)} :
              h \in Range(Thread(blk))}

(* What lfs_mount_ adds up.                                                   *)
GState(blk) ==
    LET t == Thread(blk)
        sum[n \in 0 .. Len(t)] == IF n = 0 THEN NoG ELSE Xor(sum[n - 1], t[n].m.g)
    IN sum[Len(t)]
-----------------------------------------------------------------------------
(* The directory whose first pair is p: the pairs split off it.               *)
Chain(blk, p) ==
    LET walk[n \in 0 .. Cardinality(Blocks)] ==
            IF n = 0 THEN <<Fetch(blk, p)>>
            ELSE LET done == walk[n - 1] IN
                 IF Last(done).m.split /\ Len(done) = n
                 THEN Append(done, Fetch(blk, Last(done).m.tail)) ELSE done
    IN walk[Cardinality(Blocks)]

(* lfs_dir_find: the pair of a chain that has name n, or the one to put it    *)
(* in: the first with a greater name, else the last.                          *)
Holds(h, moves, n) == \E k \in Has(h, moves) : k >= n
Find(chain, moves, n) ==
    LET fits == FirstOf(chain, LAMBDA h : Holds(h, moves, n))
    IN IF fits = {} THEN Last(chain) ELSE The(fits)

(* The tree as paths from the root: depth by depth, what each path is.        *)
Content(blk, moves, p) ==
    UNION {{<<n, h.m.ents[n]>> : n \in Has(h, moves)} : h \in Range(Chain(blk, p))}

Level(blk, moves, dirs) ==
    UNION {{[path |-> Append(d.path, e[1]), ent |-> e[2]] :
              e \in Content(blk, moves, d.ent.pair)} :
                 d \in {x \in dirs : x.ent.type = "dir"}}

Depths == 0 .. Cardinality(Blocks) \div 2
Nodes(blk, moves) ==
    LET to[k \in Depths] ==
            IF k = 0 THEN {[path |-> << >>, ent |-> Dir(Root)]}
            ELSE LET done == to[k - 1] IN done \cup Level(blk, moves, done)
    IN to[Cardinality(Blocks) \div 2]

(* Every pair a path goes through.                                            *)
Linked(blk) ==
    UNION {Range(Chain(blk, x.ent.pair)) : x \in {y \in Nodes(blk, {}) : y.ent.type = "dir"}}

Tree(blk, moves) ==
    {[path |-> x.path, type |-> x.ent.type] : x \in Nodes(blk, moves)}
=============================================================================
