------------------------------- MODULE LfsMdir ------------------------------
(***************************************************************************)
(* A metadata pair of littlefs: two blocks that hold the same directory as  *)
(* a log of commits, the half with the newer revision count being the one   *)
(* in use.  A commit is appended to that half; when it does not fit or does *)
(* not read back, the whole directory is compacted into the other half, and *)
(* when that one is bad, or worn, into a block taken from the allocator,    *)
(* which the parent directory must then be told about.                      *)
(*                                                                         *)
(* The driver's glue reports neither failed programs nor failed erases      *)
(* (local_storage.c 119-129), so each may quietly do nothing, or half of    *)
(* its work; only reads return errors.  Power is lost between any two       *)
(* steps, and a program cut short is one of those that do half their work.  *)
(*                                                                         *)
(* A commit is one slot of a block and carries the value of the directory   *)
(* once it is applied.  Left out: gstate, splitting and dropping pairs, and *)
(* the expansion of the superblock; the parent's commit is atomic.          *)
(***************************************************************************)
EXTENDS Integers, FiniteSets, Functions

CONSTANTS
    MaxCommits,       \* bound: commits begun; the n-th one stores the value n
    Blocks,           \* the blocks it may live in, those of the superblock too
    NewPairs,         \* what lfs_alloc may return to lfs_dir_alloc
    SLOTS,            \* commits a block has room for
    REVS,             \* revision counts, 2^32 in the code
    BlockCycles,      \* cfg.block_cycles
    StaleRevs,        \* revisions found in blocks used before
    MaxBad,           \* bound: blocks that go bad
    OpenElsewhere     \* another handle stays open on the pair when a commit fails

NoVal == 0
Stale == -1            \* what an old commit holds
Vals == 1 .. MaxCommits
Superblock == {0, 1}
NoPair == << >>
Modulus == IF BlockCycles % 2 = 0 THEN BlockCycles + 1   \* (block_cycles+1)|1
           ELSE BlockCycles + 2

ASSUME MdirAssumption ==
    /\ Superblock \subseteq Blocks /\ NewPairs \subseteq Blocks \X Blocks
    /\ \A p \in NewPairs : p[1] # p[2]
    /\ MaxCommits \in Nat
    /\ SLOTS \in Nat \ {0} /\ BlockCycles \in Nat \ {0}
    /\ REVS \in Nat /\ REVS % 2 = 0 /\ Modulus < REVS \div 2
    /\ StaleRevs \subseteq 0 .. REVS - 1
    /\ MaxBad \in Nat /\ OpenElsewhere \in BOOLEAN

VARIABLES
    pc,
    disk,         \* [block -> [slot -> content]]
    parent,       \* the pair the parent directory names, or NoPair
    dir,          \* the lfs_mdir_t of the open handle
    pair, rev,    \* of ldir, the copy the commit works on
    new,          \* the value being committed
    tired, relocated,
    inflight,     \* blocks allocated for the commit
    err,          \* what the last commit returned
    commits,      \* how many have begun
    bad           \* blocks that do not always do what they are asked

ldir == <<pair, rev, new, tired, relocated, inflight>>
vars == <<pc, disk, parent, dir, ldir, err, commits, bad>>

(* What a slot may hold.  bit is the first bit on the disk: a tag is valid,   *)
(* or not, by comparing it with what the commit before it announced.          *)
Blank == [kind |-> "blank", bit |-> 1]
Junk  == [kind |-> "junk", bit |-> 0]
-----------------------------------------------------------------------------
(* lfs_dir_fetchmatch. *)

Newer_Plain(a, b) == a > b                           \* mutant: not modulo 2^32

(* lfs_scmp(a, b) > 0 *)
Newer(a, b) == (a - b) % REVS \in 1 .. REVS \div 2 - 1

(* A fetch of a block accepts the commits that follow one another. *)
Follows(block, i) ==
    block[i].kind = "commit" /\ block[i].bit = block[i - 1].next

Commits(block) ==
    CHOOSE n \in 1 .. SLOTS :
        /\ \A i \in 2 .. n : Follows(block, i)
        /\ n < SLOTS => ~Follows(block, n + 1)

(* The next prog's content is what the last commit said it would be. *)
Erased(block, n) ==
    /\ n < SLOTS
    /\ block[n + 1].bit # block[n].next
    /\ block[n + 1].kind = block[n].fcrc

(* The halves with a valid commit, and the one that is fetched: the newer, or *)
(* the first of two of the same age.                                          *)
Halves(p) == {i \in 1 .. 2 : disk[p[i]][1].kind = "commit"}

Current(p) ==
    CHOOSE i \in Halves(p) : \A j \in Halves(p) \ {i} :
        IF i = 1 THEN ~Newer(disk[p[2]][1].rev, disk[p[1]][1].rev)
                 ELSE Newer(disk[p[2]][1].rev, disk[p[1]][1].rev)

Mdir(b, other) ==
    LET n == Commits(disk[b])
    IN  [pair |-> <<b, other>>, rev |-> disk[b][1].rev, off |-> n,
         erased |-> Erased(disk[b], n)]

Fetch(p) == IF Current(p) = 1 THEN Mdir(p[1], p[2]) ELSE Mdir(p[2], p[1])

Value(block, n) == IF n = 0 THEN NoVal ELSE block[n].val
-----------------------------------------------------------------------------
(* What a prog and an erase leave behind. *)

Perturb_None(content) == 0                           \* mutant: as if it were erased

Perturb(content) == 1 - content.bit

Last(i) == i = SLOTS

Commit(b, i, val) ==
    [kind |-> "commit", val |-> val,
     rev  |-> IF i = 1 THEN rev ELSE 0,              \* its crc covers the header
     bit  |-> IF i = 1 THEN 1 ELSE disk[b][i - 1].next,
     next |-> IF Last(i) THEN 0 ELSE Perturb(disk[b][i + 1]),
     fcrc |-> IF Last(i) THEN "none" ELSE disk[b][i + 1].kind]

(* The block does less than it was asked, and the driver does not say so.     *)
Fault(b) == bad' = bad \cup {b} /\ Cardinality(bad') <= MaxBad

Put(b, i, content) == [disk EXCEPT ![b][i] = content]

(* Bits are only ever cleared: what is not blank cannot become the commit.    *)
Prog(b, i) ==
    \/ disk[b][i] = Blank /\ disk' = Put(b, i, Commit(b, i, new)) /\ UNCHANGED bad
    \/ /\ disk' \in {Put(b, i, Junk), disk}
       /\ IF disk[b][i] = Blank THEN Fault(b) ELSE UNCHANGED bad

Erase(b) ==
    \/ disk' = [disk EXCEPT ![b] = [i \in 1 .. SLOTS |-> Blank]] /\ UNCHANGED bad
    \/ Fault(b) /\ \E kept \in SUBSET (1 .. SLOTS), rest \in {Blank, Junk} :
          disk' = [disk EXCEPT ![b] = [i \in 1 .. SLOTS |-> IF i \in kept THEN @[i] ELSE rest]]

(* The crc of what was written is read back. *)
ReadsBack(b, i) == disk[b][i] = Commit(b, i, new)
-----------------------------------------------------------------------------
NoDir == [pair |-> NoPair, rev |-> 0, off |-> 0, erased |-> FALSE]

Forget == /\ pair' = NoPair /\ rev' = 0 /\ new' = NoVal
          /\ tired' = FALSE /\ relocated' = FALSE /\ inflight' = {}

Ack(d) == pc' = "idle" /\ err' = "OK" /\ dir' = d /\ Forget

(* The operation returns the error and its handle is not used again: a file   *)
(* is marked LFS_F_ERRED, a path is looked up anew.                           *)
Fail(d) == /\ \/ pc' = "closed" /\ dir' = NoDir
              \/ OpenElsewhere /\ pc' = "idle" /\ dir' = d
           /\ err' = "ERR" /\ Forget

Crash == /\ pc # "closed" /\ pc' = "closed"
         /\ dir' = NoDir /\ err' = "OK" /\ Forget
         /\ UNCHANGED <<disk, parent, commits, bad>>

Open == /\ pc = "closed" /\ parent # NoPair /\ Halves(parent) # {}
        /\ dir' = Fetch(parent)
        /\ pc' = "idle" /\ err' = "OK"
        /\ UNCHANGED <<disk, parent, ldir, commits, bad>>

(* lfs_dir_alloc takes the revision from a block as it finds it, and aligns   *)
(* it so that the pair is not relocated at once.                              *)
RevOf(block) == IF block[1].kind = "commit" THEN {block[1].rev}
                ELSE IF block[1].kind = "blank" THEN {REVS - 1} ELSE StaleRevs

AlignUp_Zero(r) == 0                                 \* mutant: starts anew

AlignUp(r) == LET sum == (r + Modulus - 1) % REVS IN sum - (sum % Modulus)

lfs_dir_alloc ==
    /\ pc = "closed" /\ parent = NoPair
    /\ \E p \in NewPairs, r \in 0 .. REVS - 1 :
          /\ r \in RevOf(disk[p[1]])
          /\ dir' = [NoDir EXCEPT !.pair = p, !.rev = AlignUp(r)]
    /\ pc' = "idle" /\ err' = "OK"
    /\ UNCHANGED <<disk, parent, ldir, commits, bad>>

(* lfs_dir_relocatingcommit. *)
lfs_dir_commit ==
    /\ pc = "idle"
    /\ commits < MaxCommits /\ commits' = commits + 1
    /\ new' = commits'
    /\ pair' = dir.pair /\ rev' = dir.rev
    /\ inflight' = IF parent = NoPair THEN Range(dir.pair) ELSE {}
    /\ pc' = IF dir.erased THEN "append" ELSE "compact"
    /\ UNCHANGED <<disk, parent, dir, tired, relocated, err, bad>>

(* A commit that does not fit may have been flushed in part by then. *)
AppendProg ==
    /\ pc = "append"
    /\ \/ dir.off < SLOTS /\ Prog(pair[1], dir.off + 1) /\ pc' = "verify"
       \/ /\ \/ dir.off < SLOTS /\ disk' = Put(pair[1], dir.off + 1, Junk)
             \/ disk' = disk
          /\ pc' = "compact" /\ UNCHANGED bad
    /\ UNCHANGED <<parent, dir, ldir, err, commits>>

AppendVerify ==
    /\ pc = "verify"
    /\ \/ /\ ReadsBack(pair[1], dir.off + 1)
          /\ Ack([dir EXCEPT !.off = @ + 1])
       \/ /\ ~ReadsBack(pair[1], dir.off + 1)
          /\ pc' = "compact"
          /\ UNCHANGED <<dir, ldir, err>>
    /\ UNCHANGED <<disk, parent, commits, bad>>

(* A read fails while the directory is traversed or a commit is verified.     *)
ReadError == /\ pc \in {"append", "verify", "compact", "program", "check", "relocate"}
             /\ Fail(dir)
             /\ UNCHANGED <<disk, parent, commits, bad>>

(* lfs_dir_compact. *)
NeedsRelocation == ((rev + 1) % REVS) % Modulus = 0
IsSuperblock_Never == FALSE                          \* mutant: relocated like any pair
IsSuperblock == Range(pair) \cap Superblock # {}

Compact ==
    /\ pc = "compact"
    /\ tired' = NeedsRelocation
    /\ rev' = (rev + 1) % REVS
    /\ pc' = IF tired' /\ ~IsSuperblock THEN "relocate" ELSE "erase"
    /\ UNCHANGED <<disk, parent, dir, pair, new, relocated, inflight, err, commits, bad>>

Victim_First == pair[1]                              \* mutant: the half in use

Victim == pair[2]

CompactErase ==
    /\ pc = "erase"
    /\ Erase(Victim) /\ pc' = "program"
    /\ UNCHANGED <<parent, dir, ldir, err, commits>>

CompactProg ==
    /\ pc = "program"
    /\ Prog(Victim, 1) /\ pc' = "check"
    /\ UNCHANGED <<parent, dir, ldir, err, commits>>

Compacted == [dir EXCEPT !.pair = <<Victim, pair[1]>>, !.rev = rev, !.off = 1]

CompactVerify ==
    /\ pc = "check"
    /\ \/ /\ ReadsBack(Victim, 1)
          /\ IF relocated \/ parent = NoPair
             THEN /\ dir' = Compacted /\ pc' = "parent"
                  /\ UNCHANGED <<ldir, err>>
             ELSE Ack(Compacted)
       \/ /\ ~ReadsBack(Victim, 1)
          /\ pc' = "relocate"
          /\ UNCHANGED <<dir, ldir, err>>
    /\ UNCHANGED <<disk, parent, commits, bad>>

Free_Any == Blocks \ Superblock                      \* mutant: forgets what is in use
Free == Blocks \ (Superblock \cup Range(parent) \cup inflight)

(* What is left of tired once a relocation has been tried. *)
Rested_Tired == tired                                \* mutant: not cleared
Rested == FALSE

Relocate ==
    /\ pc = "relocate" /\ ~IsSuperblock
    /\ relocated' = TRUE /\ tired' = Rested /\ pc' = "erase"
    /\ \/ \E b \in Free : pair' = <<pair[1], b>> /\ inflight' = inflight \cup {b}
       \/ tired /\ UNCHANGED <<pair, inflight>>      \* no space: stay in place
    /\ UNCHANGED <<disk, parent, dir, rev, new, err, commits, bad>>

(* The superblock is frozen, or a bad block cannot be replaced. *)
NoSpace == /\ pc = "relocate" /\ (IsSuperblock \/ ~tired)
           /\ Fail(dir)
           /\ UNCHANGED <<disk, parent, commits, bad>>

(* lfs_dir_orphaningcommit: the open handles follow the pair at once, then    *)
(* the parent's commit follows it, or fails, landed or not.                   *)
Repoint == /\ pc = "parent"
           /\ \/ parent' = dir.pair /\ Ack(dir)
              \/ parent' \in {parent, dir.pair} /\ Fail(dir)
           /\ UNCHANGED <<disk, commits, bad>>

(* A device never used, or used before: its blocks hold old commits, or what   *)
(* is left of them.                                                           *)
Init == /\ pc = "closed" /\ parent = NoPair /\ dir = NoDir /\ err = "OK"
        /\ pair = NoPair /\ rev = 0 /\ new = NoVal
        /\ tired = FALSE /\ relocated = FALSE /\ inflight = {}
        /\ commits = 0 /\ bad = {}
        /\ \E c \in {Blank, Junk} \cup
                    [kind : {"commit"}, val : {Stale}, rev : StaleRevs, bit : {1},
                     next : {0}, fcrc : {"blank"}] :
              disk = [b \in Blocks |-> [i \in 1 .. SLOTS |-> IF i = 1 THEN c ELSE Blank]]

CommitStep == AppendProg \/ AppendVerify \/ Compact \/ CompactErase \/ CompactProg
              \/ CompactVerify \/ Relocate \/ NoSpace \/ Repoint

Next == Crash \/ Open \/ lfs_dir_alloc \/ lfs_dir_commit \/ ReadError \/ CommitStep

Spec == Init /\ [][Next]_vars

(* A commit runs to its end, unless power is lost. *)
FairSpec == Spec /\ WF_vars(CommitStep)
-----------------------------------------------------------------------------
Contents == {Blank, Junk} \cup
    [kind : {"commit"}, val : Vals \cup {Stale}, rev : 0 .. REVS - 1, bit : {0, 1}, next : {0, 1},
     fcrc : {"blank", "junk", "commit", "none"}]

(* Revision counts and offsets stay in range, and the two halves of a pair    *)
(* are two blocks.                                                           *)
TypeOK ==
    /\ pc \in {"closed", "idle", "append", "verify", "compact", "erase", "program",
               "check", "relocate", "parent"}
    /\ disk \in [Blocks -> [1 .. SLOTS -> Contents]]
    /\ \A p \in {parent, pair, dir.pair} \ {NoPair} : p \in Blocks \X Blocks /\ p[1] # p[2]
    /\ dir.rev \in 0 .. REVS - 1 /\ dir.off \in 0 .. SLOTS /\ dir.erased \in BOOLEAN
    /\ rev \in 0 .. REVS - 1 /\ new \in Vals \cup {NoVal}
    /\ tired \in BOOLEAN /\ relocated \in BOOLEAN
    /\ inflight \subseteq Blocks /\ err \in {"OK", "ERR"}
    /\ commits \in 0 .. MaxCommits /\ bad \subseteq Blocks

Stored == IF parent = NoPair THEN NoVal
          ELSE IF Halves(parent) = {} THEN "corrupt"
          ELSE LET block == disk[parent[Current(parent)]] IN block[Commits(block)].val

Cell == INSTANCE AtomicCell WITH
    Nothing <- NoVal,
    state <- IF pc \in {"closed", "idle"} THEN pc ELSE "busy",
    stored <- Stored,
    seen <- IF pc = "idle" THEN Value(disk[dir.pair[1]], dir.off) ELSE NoVal

(* A metadata pair is an atomic cell ("if power is lost the filesystem will   *)
(* fall back to the last known good state", littlefs README.md 14), although   *)
(* programs and erases may silently fail.                                     *)
ImplementsCell == Cell!Spec

(* Between commits the open handle describes the pair just as a mount would    *)
(* find it: the same half in use, the same revision, the same end of the log.  *)
HandleCurrent ==
    pc = "idle" /\ parent # NoPair =>
        \E e \in BOOLEAN : dir = [Fetch(parent) EXCEPT !.erased = e]

(* Copy on write: a commit never touches what the half in use already holds,   *)
(* until the parent names another pair.                                       *)
LiveUntouched ==
    [][parent # NoPair /\ parent' = parent =>
          LET b == parent[Current(parent)]
          IN  \A i \in 1 .. Commits(disk[b]) : disk'[b][i] = disk[b][i]]_vars

(* The superblock stays where a mount looks for it, however worn it is.        *)
SuperblockStays ==
    [][parent # NoPair /\ Range(parent) = Superblock => Range(parent') = Superblock]_vars

(* A commit does not compact and relocate for ever.                           *)
CommitEnds == pc \notin {"closed", "idle"} ~> pc \in {"closed", "idle"}

(* "Any pending writes are written out to storage" (lfs.h 603): once a commit  *)
(* has been acknowledged, a mount finds it.                                   *)
AckDurable ==
    [][pc \notin {"closed", "idle"} /\ pc' = "idle" /\ err' = "OK" =>
          Halves(parent)' # {} /\ Stored' = new]_vars
=============================================================================
