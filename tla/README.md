# TLA+ models of stm32-lfs

The firmware keeps records on an external SPI flash chip (W25Q16) with littlefs, on
an STM32F103 without an operating system.  This directory models its layers, from
the record store that `main()` calls down to the flash driver, checks them with TLC
and proves parts of them with TLAPS.  File names below are relative to
`src/Core/storage/` and numbers in parentheses are lines of the source.

## 1. The system

    main.c             init_storage, push, pop                   one thread, no interrupts used
      |
    local_storage.c    record store: two seeks, a ring of files  RAM: _info_storage; disk: info_storage.txt
      | lfs_mount, lfs_mkdir, lfs_file_open/write/read/close
    littlefs/lfs.c     files, directories, metadata pairs, block allocator
      | config.read / prog / erase / sync  (the glue, local_storage.c 113-137)
    spif/src/spif.c    pages, sectors, busy waiting, lock
      | HAL_SPI_Transmit / TransmitReceive
    the flash chip

| Component | State it keeps | Operations | What makes it correct |
|---|---|---|---|
| `main.c` | none | boots, pops 28 times, idles; `while(1)` when the boot fails | the boot can be repeated after any power cut |
| record store, `local_storage.c` | `_info_storage` (write and read seek) in RAM, the same in `info_storage.txt`, one file a record, 12 folders, the firmware info | `init_storage`, `push` = `save_data`, `pop` = `read_data`, `set_store_info`, `get_store_info`, `set_firmware_info` | each record once, in order, durable when `STORAGE_OK` is returned; the seeks in RAM and on the chip agree; the boot ends well |
| text codec, same file | none | the seeks and the firmware info to text and back | parsing inverts writing |
| glue, same file | none | block and offset to an address | nothing is lost between the layers (it loses the results of programs and erases) |
| SPI driver, `spif.c` | `SPIF_HandleTypeDef`: `Inited`, `Lock`, `BlockCnt` | init, find chip, read, write, erase by address, page, sector, block | a call does what it was asked or says no, and touches nothing else; every call returns |
| littlefs allocator (594-704, 5113-5200) | the lookahead window and the countdown `ckpoint` | `lfs_alloc`, scan, checkpoint, drop, gc, grow | no block handed out that is in use; no space reported only when there is none; the search ends |
| littlefs metadata pairs (1092-1370, 1573-2560) | two blocks of log, `lfs_mdir_t` of each open handle | fetch, commit, compact, relocate | a commit is atomic and durable |
| littlefs tree | the threaded list of pairs, global state, open handles | mkdir, remove, rename, deorphan | every pair reachable exactly once, after any power cut, once `lfs_fs_forceconsistency` has run |
| littlefs files (2837-3815) | CTZ skip lists, file caches | open, read, write, sync, truncate, close | a file is what its last sync made it |
| littlefs caches (30-284) | `pcache`, `rcache` | read, prog, flush, erase | reads see the programs before them |

Interaction is by plain calls in one thread.  What is hard is therefore not
threads but *failure and order*: power may be lost between any two steps of any
layer; HAL may fail any transaction; the glue hides failures; the chip keeps working
on its own after a call has returned; handles in RAM must follow the disk through
compactions, relocations and failed calls.  `PROJECT.json` lists each such hazard at
its line, with the properties that would catch it.

## 2. The modules

| Module | What it is |
|---|---|
| `RecordLog` | abstract: a durable log; push appends, pop takes the oldest once |
| `LocalStorage` | the record store, one action per littlefs call |
| `LocalStorageLog` | the refinement mapping from `LocalStorage` to `RecordLog`, and the properties that read both |
| `LocalStorageProofs` | theorems about `LocalStorage` and `LocalStorageLog`, the refinement among them |
| `Spif` | the driver, one action per SPI transaction, and the chip |
| `SpifProofs` | theorems about `Spif` |
| `BlockPool` | abstract: a pool from which free blocks are handed out |
| `LfsAlloc` | the littlefs allocator; it implements `BlockPool` |
| `LfsAllocProofs` | theorems about `LfsAlloc` |
| `AtomicCell` | abstract: a cell whose content changes all at once |
| `LfsMdir` | one metadata pair of littlefs; it implements `AtomicCell` |
| `LfsMdirProofs` | theorems about `LfsMdir`, the refinement among them |
| `NameTree` | abstract: a tree of names, and the call under way, whose effect shows once or not at all |
| `LfsThread` | metadata pairs linked by the threaded list: what a mount, a search and a traversal find on a disk |
| `LfsThreadProofs` | lemmas about what is found on a thread, and how that changes when a pair is changed, dropped, put in or split; of the nodes as the least set grown from what directories list |
| `LfsTree` | the calls that change the tree, one action per commit; it implements `NameTree` |
| `LfsCommitProofs` | the inductive invariant of `LfsTree`, and what a commit of each kind does to it and to the tree |
| `LfsTreeProofs` | theorems about `LfsTree`, the refinement among them |
| `FileBox` | abstract: open files as sequences of words, a disk that changes at sync |
| `LfsCache` | `lfs_bd_*`: caches over a NOR device |
| `LfsCtzIndex` | the arithmetic of the skip lists files are kept in: `lfs_ctz_index`, the choice of a skip |
| `LfsCtzIndexProofs` | theorems about that arithmetic |
| `LfsCtz` | `lfs_ctz_*`: the lists as they are read from the blocks |
| `LfsFile` | open files over both and the allocator, one action per call; it implements `FileBox` |
| `MC...` | values of the constants for TLC |

The layers justify one another: `LocalStorage` takes a littlefs commit to be one atomic
step or a failure without effect, which is what `LfsMdir` shows of a pair
(`ImplementsCell`), under programs and erases that fail silently, which is what the
glue makes of the failures in `Spif`.  `LfsTree` takes the same of a commit to one pair
and shows that a call of several commits is atomic too; `LfsFile` takes a commit of a
file's entry to be atomic, and shows that what the entry refers to is untouched
until then.

### LocalStorage

`pc` says where `init_storage`, `push` or `pop` is; `info` is `_info_storage`, `saved`
the copies kept for a rollback, `buffer` the record passed in or out.  The disk is
`chip` (formatted or not), `infoFile` and `diskInfo` (the info file, absent, created but
empty, or written with some seeks), `dirs`, `files`, `fwDir` and `fwFile`.  A file is
the record whose bytes start it and a length, since a slot is reused without
`LFS_O_TRUNC`.  Actions are the littlefs calls in source order: `Mount`, `Format`,
`Remount`, `GetStoreInfo`, `MakeFolder`, ... for the boot; `OpenInfo`, `CloseInfo`,
`InfoDone` for `set_store_info`; `PushOpen`, `PushWrite`, `PushClose`; `PopEmpty`,
`PopOpen`, `PopRead`.  Each may fail if its kind is in `Faults`, and `Crash` may come
anywhere.  With `DEBUG` most failures end in `while(1)` (`pc = "hung"`), without it they
return and roll back.  The off-by-one comparisons of the wraps (542-548, 629-635) are
kept as they are: a folder holds `FILE_MAX_COUNT + 2` files.

### Spif

The chip is `mem`, the write enable latch `wel` and `pending`, the bytes it is still
working on; `ChipFinishes` ends that work at any time.  The driver's actions are
`WriteEnable`, `ProgramPage`, `Erase`, `WaitForWriting` (one status read a step),
`Disabled` and `Read`, with the loops of `SPIF_WriteAddress`, `WriteSector`,
`WriteBlock` in `NextChunk`.  Byte *i* of the *n*-th call is the value `<<n, i>>`, so
that a byte from the wrong call or the wrong place shows.  A failed transaction may
have reached the chip, or a part of it.

### LfsAlloc

`start`, `size`, `next`, `ckpoint`, `buffer` are the fields of `lfs->lookahead`
(`buffer` as the set of offsets whose bit is set).  The file system around is `tree`,
the blocks a traversal finds, and `inflight`, those handed out and not linked yet.
`Skip`, `Found`, `NoSpace` and `Search` are the turns of `lfs_alloc`'s loop; `Found`
contains the inner loop that moves on to the next free block (662-676).  `late` is a
history variable: blocks freed since the search last looked at them.  The discipline
of the callers, to call `lfs_alloc_ckpoint` only with nothing in flight (597-601), is
a guard of that action; `lfs_format_` may take two blocks only.

### LfsMdir

`disk` is an array of slots for each block, a slot holding a commit, nothing (`Blank`),
or `Junk`.  A commit records its value, the revision in the block's header, the first
bit it left on the disk (`bit`), and what its crc tag announces about what follows: the
valid bit of the next tag (`next`) and, as `fcrc`, the erased state of the next prog.  A program
over a slot that is not blank gives `Junk`, never a commit that can be read, and the crc read
back after it tells; so no property here depends on the forward crc (1338), which spares
the code such a program.
`Commits` and `Erased` are the loop and the end of `lfs_dir_fetchmatch`, `Current` its
choice between the halves.  `dir` is the open handle; `pair`, `rev`, `new`, `tired`,
`relocated` are the copy the commit works on, as `ldir` in the code.  Actions follow
`lfs_dir_relocatingcommit` and `lfs_dir_compact`: append, verify, compact, erase,
program, check, relocate, and the parent's commit (`Repoint`).  A block that "goes
bad" may leave a program or an erase undone, or half done, without saying so.
Left out: the expansion of the superblock; the parent's own commit is taken to be
atomic, as the same module shows a commit to be.

### LfsThread and LfsTree

`blk` maps every block to the metadata pair half it holds: revision, entries, tail, whether
the tail is a hard one (`split`), and the pair's part of the global state.  `LfsThread` is
what the code finds on such a disk: the walk of `lfs_mount_` and `lfs_fs_traverse_`
(`Thread`, `InUse`, `GState`), the searches `lfs_fs_pred` and `lfs_fs_parent`, and the tree
by paths (`Tree`).  `LfsTree` keeps the RAM beside it: `gstate`, `gdisk` and `gdelta`; the
call under way with its handles (`op`), the commit that must still be made to a parent
or a predecessor (`com`, the second half of `lfs_dir_orphaningcommit`), and
`lfs_fs_deorphan` (`deo`).  An action is one commit with what the code computes up to the
next one; whether it is appended, compacted into the other half, moved to a new block or
split is chosen within `Budget`, as the space left in the blocks and their wear are not
modelled.  A relocation sets off `TellParent`, then `TellPred`, each of which may
relocate in turn.  `PowerCycle` may come between any two commits; every later call
starts with `Demove` and `ForceDeorphan` if the mount found something to repair.
`tree` and `call` are history variables: what a mount would find now, and what the last call
was asked to do (`Asks`), with a flag, `due`, while no commit of it has shown.  The flag
goes down with the first commit after which a mount finds another tree, whichever
that is (`Awaits`), or when power is lost (`CallLost`).  In `NameTree` a call that is due may
show the effect it was asked for, once, or be given up, and nothing else ever shows, so a
commit of a call, a repair or a mount that changes any other name, a second commit of a
rename that shows too, and a call that ends without its effect are all not steps of it.

Left out: a first commit of `lfs_mkdir_` that relocates, a split and a relocation in one
commit, commits that fail, the superblock entry, files' data, and a rename of a
directory into itself, which the code does not reject.  Three situations are held back by
`Traps`, because the code goes wrong in them (section 6): `"repair"`, `"owed"` and `"demove"`;
a fourth, commits to a parent or a predecessor that relocate too, by `Budget`.

### LfsCache, LfsCtz and LfsFile

The device `dev` is an array of words for each block, a word standing for four bytes, the
size of a pointer.  A page of two words is the unit of reads, programs and caches, which
the firmware sets to the same 256 bytes.  Where a position lies in a list, and which
pointer leads on, is arithmetic on numbers that reads nothing: `LfsCtzIndex`, a module of
its own, without recursive operators, so that it can be proved about.  A call is computed on a record `m` that holds
the device, the caches, the file's fields, the lookahead window and the error, by operators
that are the functions of the code by name: `BdRead`, `BdProg`, `BdFlush`; `CtzFind`,
`CtzExtend`, `CtzTraverse`; `Relocate`, `Outline`, `Flush`, `FlushedRead`, `FlushedWrite`;
`ReadCall`, `WriteCall`, `SeekTo`, `TruncateCall`, `SyncCall`.  `m.left` picks the program of the
call that does not stick and is found out when it is read back; the code moves what it
was writing on to another block and tries again.  The allocator is the one of
`LfsAlloc`, but its scan is `lfs_fs_traverse_` over the real lists, of the entries and of the
open files, read through the caches; so a block is free when the code finds it in
no list, not when the model knows it to be.

A cache is a label, the block and place it stands for, and a buffer.  `.cache = lfs->rcache`
in `lfs_file_flush` (3327) copies the label and the pointer: `orig.cache` ("oc") is a second
label on the buffer of `rcache` (`Buffer`), and the drops at 3329 and 3345-3349 see to
it that one at most stands.  `stale` is a history variable: at some point of a call a label
was put on the shared buffer while the other stood for something else, or a cache of
reads gave a word that the device does not hold.  `RcacheTrue` needs both drops: it fails
without the one before the copying (`Branch_Kept`), without those after each byte
(`Unshared_Not`), and if truncate kept the page it put in rcache (`Borrowed_Held`).

`seen` and `disk` are history variables, what the file holds for its user and for a
mount.  They are read off the device by `DataOf`, which follows the pointers
to the block before and lays the words out block by block: the reference that
the skips of `CtzFind` and the popcount arithmetic of `CtzIndex` are measured by.

Power is lost between calls only.  Within a call that would add nothing: the only commit
is the last step of `SyncCall`, and before it no call erases or programs a block that
an entry refers to (`LiveUntouched`), so a mount finds what it would have found before
the call.  Left out: user attributes, the reads of a whole block that bypass the caches,
`file_max`, two handles on one file, calls other than close after one that failed, commits
that need a block themselves (`LfsTree` has those).  Two situations are held back by
`Traps` (section 6): `"boundary"` and `"newblock"`.

## 3. The runs

| Run | Question | Bounds |
|---|---|---|
| `ls_faults` | Debug build, every call may fail: are the seeks ordered and their records there? | 2 folders of 2 files, 5 pushes, 2 failures, 2 resets |
| `ls_log` | Release build: is the store a durable log through failed calls and resets? | the same, records of 2 sizes |
| `ls_brick`, `ls_stuck` | disagreements, section 6 | |
| `sp_calls` | Does every call of the driver do what it was asked, and only that? | 1 block = 2 sectors = 4 pages of 2 bytes, 2 calls, 2 failures, 3 status reads |
| `sp_lostwrite` | section 6 | |
| `la_alloc` | Is what the allocator hands out free, its "no space" true, its search finite? | 3 blocks, grown once to 6, window of 2, failing scans |
| `md_commit` | Is a metadata pair an atomic cell although blocks fail silently? | 4 commits, 2 commits a block, blocks 0-4, 2 bad blocks, revisions modulo 8 |
| `lt_calls` | Are calls on directories atomic, is what they leave half done found and repaired, do they end? | 4 calls, 7 blocks, 3 names, 2 files, one commit that relocates its pair or is compacted, one split, power lost until the fourth call |
| `lf_calls` | Are files what their calls say, and is what is committed safe until the next commit? | 5 calls, 2 files (13 words in 3 blocks; 2 words in the entry), 7 blocks of 3 pages of 2 words, window of 4, words read and written 1 or 5 at a time, seeks to 0 and 10, sizes 1 and 7, one program that does not stick |
| `lf_seek`, `lf_newblock` | section 6 | |

What the passing runs show:

- `ls_faults`: `ReaderBehindWriter`, `UnreadPresent` and `NeverFull` hold of every state, and
  so does `SeeksInv`, the inductive invariant of the proofs.
- `ls_log`: the store implements `RecordLog` (`ImplementsLog`), which says that a pushed
  record survives and is popped at most once and in order, and that an
  unfinished call takes effect as a whole or not; between calls the seeks in RAM are
  those on the chip (`SeeksMatchDisk`), and pop finds its file (`PopFindsFile`).  Failures
  of the boot and of `lfs_file_close` are excluded here: the first wipe the store by
  design, the second are `ls_lostinfo`.
- `sp_calls`: whatever transactions fail, every call that returns true has done exactly
  what it was asked as long as the driver has not sent a command to a busy chip
  (`ExactOnIdleChip`; the history variable `early` says when it has, and
  `sp_lostwrite` shows that it does); no byte outside the call's range changes in
  any case (`Confined`), a failed write leaves a beginning of its data
  (`FailedWriteIsPrefix`), and every call returns and gives back the lock (`CallsEnd`).
- `la_alloc`: no block is handed out that is in the tree or in flight (`OffersFree`,
  `ImplementsPool`); `LFS_ERR_NOSPC` means that every block was taken or was freed
  behind the search (`NoSpaceHonest`); a format gets blocks 0 and 1
  (`FormatTakesRoot`); the search ends (`AllocEnds`).
- `md_commit`: a pair implements `AtomicCell` through power cuts, silent failures, read
  errors, relocations and the wrap of the revision count (`ImplementsCell`); the open
  handle describes what a mount would find (`HandleCurrent`); the half in use is never
  touched (`LiveUntouched`); the superblock stays at {0, 1} (`SuperblockStays`); a commit
  ends (`CommitEnds`).

- `lt_calls`: what a mount finds changes once for a call, by what it was asked to do, or, if
  power is lost before, not at all (`CallsAtomic`): a rename into another directory that
  announces no move (`PrepMove_Not`) shows both names for a while and is found, and so is a
  move that is announced and not obeyed (`MoveHere_Never`).  A repair, be it the half
  move undone by `lfs_fs_demove`, a pass of `lfs_fs_deorphan` or a mount, shows nothing
  (`RepairsSilent`), with power lost between any two commits.  When a call starts,
  the directories on the thread are those the entries lead to (`Consistent`); at any
  point, if they are not, the disk says so (`Told`).  The global state in RAM is the sum of
  what the pairs hold (`GStateRead`); what a path leads to is in use for the
  allocator (`TreeInUse`); handles kept over commits to other pairs, the hidden one of
  a rename's old name too, stay fresh (`HandlesFresh`); calls, repairs and the
  relocations they set off end (`CallsEnd`).
- `lf_calls`: reads, writes, seeks and truncations work on the sequence of words the user
  has built up, and sync or close puts it on the disk at once or not at all
  (`FilesAreBoxes`); no block of a last commit is touched (`LiveUntouched`); a block
  is in the lists of one file (`BlocksOwned`); the read cache holds nothing stale of a
  block in use though truncate and flush lend it out, and within a flush, where two
  labels are on its buffer, no word is read under the wrong one (`RcacheTrue`); no page is
  left in a cache that is needed for another (`CachesFlushed`, an assertion of the code).

Why the bounds are enough.  *Record store:* with 4 slots in 2 folders the seeks cross a
folder boundary, and 5 pushes reach the folder that does not exist; nothing depends on
the numbers 12 and 2048 but where the boundaries are, and the theorems hold for all.
Two resets allow one in a boot that follows another.  *Driver:* calls
start and end inside pages, cover several pages, and go beyond the unit and the chip;
the second call meets what the first left behind.  *Allocator:* 3 blocks and a window
of 2 make the window wrap and the search pass the blocks of the root; an operation can
take all that is left, and again after growing.  *Metadata pair:* 2 slots a block make
every second commit compact, `BlockCycles = 1` (a modulus of 3) makes relocations
frequent, 4 commits are needed to reuse both halves, revisions
modulo 8 wrap within them, and there are old commits in unused blocks.  *Tree:* two directories and a
file in them are enough for a rename across directories, over an existing name
and of the last entry of a pair; 7 blocks let one pair move and one split.  *Files:* 13
words fill two blocks and a part of the third, which has two pointers, so that lists of all
shapes up to a skip of two occur, and writing 5 more adds a block; a page of the new
block and one of the old are cached at once; 7 blocks and a window of 4 make the search
wrap and run out of space.  A block has 6 words because with fewer the popcount
arithmetic of `lfs_ctz_index` is not exact, which the code's assertion on the block size
excludes (4175).  Larger
instances were run once, with the same results: `ls_log` and `sp_calls` with 3 failures,
the safety part of `md_commit` with 3 bad blocks and with 3 commits a block.  Of `LfsFile`
400,000 states were simulated in behaviours of 14 steps with both files written, 8 blocks,
two bad programs a behaviour, and all lengths, places and sizes that differ by a
boundary.

Fairness.  `FairSpec` is used where a run has a liveness property and gives weak
fairness to the steps of a call already begun: the program is one thread that keeps running,
and the chip finishes what it does.  Nothing is assumed of the callers, of power
(`Crash`, `Mount` are not fair), or of the device ceasing to fail.  In `Spif` the wait
for the chip is finite by its own count, and the chip's fairness only says that a
sound chip ends its work.  In `LfsTree` the fairness is that of `WF_vars(Step)`, for the steps of a call
and its repairs; the enabling condition is spelt out as `Busy`, which is what the
absence of deadlock shows it to be.  `LfsFile` has no liveness property: a call is one
action.  `CHECK_DEADLOCK` is on in every run but those of `LfsFile`, whose calls are
bounded in number; where the program really stops (`while(1)`, all calls made) the other
modules have a step for it.

## 4. What is proved

`LocalStorageProofs`, for every number of folders and files, both builds, every set of
failing calls and any number of failures, resets and pushes:

- `TypeCorrect`: `Spec => []TypeOK`; the seeks stay within their `uint16_t`.
- Under `FoldersFit` (the folders created do not exceed `FOLDER_MAX_COUNT`; both are 12):
  `SeeksOrdered` (the reader never passes the writer), `RecordsThere` (every slot
  between the seeks on the chip has a file), `FullUnreachable` (push never answers
  `STORATE_FULL`).

None of these is inductive.  `SeeksInv` is (`SeeksInvariant`): it says of `info`, `saved` and
`diskInfo` alike that the reader is not ahead, that the writer has stopped at the start of
the folder after the last, and that the slots between have files; and, for each place
between two littlefs calls, what the call just made has established (the slot's file
exists once it is opened, so the advance that follows is sound).  `saved` and `diskInfo` must be
in it because a rollback or a boot makes either the new `info`.

Of its log (`LocalStorageLog`), with the same generality:

- `RecordFound` (under `FoldersFit`): pop never looks for a file that is not there.
- `SeeksStored` (no close fails): between calls the seeks in RAM are those on the chip.
- `LogImplemented` (under `FoldersFit` and `NoWipe`: the calls of the boot and the closes do not
  fail, the others may): the store implements `RecordLog`.

The first follows from `SeeksInv`.  The second needs an invariant of its own, that at every
place of a call either `info` or `saved` is what the chip has.  For the refinement
`LogInv` adds that while a call stores its info, `info` is `saved` advanced by one and the slot
`saved` points at holds the record pushed, or taken; that every slot before the write seek on
the chip holds a record that was pushed; and that a chip without a file system has no info
file.  With it every littlefs call is a stutter of the log but the close of the info
file, which is a push or a pop.  The slots are counted by `IndexOf`, and that counting is
one-to-one and follows the order of the seeks is what its lemmas say.

`LfsAllocProofs`, for every number of blocks and every size of the window:

- `TypeCorrect`: the window and the countdown stay in range; the unsigned countdown
  does not underflow.
- `FormatSound`: a format is given blocks 0 and 1, in this order.
- `NoSpaceIsHonest` (`NoSpaceHonest`): when `lfs_alloc` answers `LFS_ERR_NOSPC`, every block of
  the device is in the tree, in flight, or was freed behind the search.
- Under `AmpleGrowth` (the device grows, if it does, to at least twice its size; by less
  it is unsafe, section 6): `WindowSound` (`[]OffersFree`) and `Refinement` (the
  allocator implements `BlockPool`).

For the last two the invariant is `AllocInv`: `TypeOK`, `OffersFree` and `AheadClear`.  The last is the
point of `ckpoint`: no block in flight lies among the next `ckpoint` positions, so a
later scan, which cannot see blocks that are in no tree, does not reach them.  For the
first it is `HonestInv`, the same countdown read the other way: the `block_count - ckpoint`
positions behind the search have each been seen taken since the checkpoint
(`BehindHeld`), and so has every block the window marks (`MarksHeld`), so at zero there is
none left.  That needs no assumption on the growth: the countdown starts again from the new
size.  The arithmetic modulo the number of blocks is in five lemmas (`ModOnce` ... `OffsetOfBlock`).

`SpifProofs`, for every geometry of the chip, every set of calls and any number of
failed transactions:

- `TypeCorrect`: the handle, the counters of the write loop and the chip stay in range.
- `NothingElse`: no byte outside those a call names changes (`[]Confined`), also when the chip
  is still at work on the call before.
- Under `ExactCalls`: `ExactWhenIdle` (`[]ExactOnIdleChip`: as long as no command met a busy
  chip, a call that succeeds has written, erased or read exactly what it was asked) and
  `FailsInOrder` (`[]FailedWriteIsPrefix`: a write by address that fails has left a beginning
  of its data, and nothing else).

`CallInv` makes it inductive: inside `SPIF_WriteFn` the page, its offset and the bytes that
remain never add up to more than the call's end, and an erase command is inside
the chip.  The rest is that a page program, which wraps inside its page, wraps onto nothing
when the bytes have been cut at the page's end.  An erase has no offset
(`SpifAssumption`), as the functions of the driver have no such parameter.

`ExactCalls` says that sector and block writes start at a page and that reads name bytes of
the chip from the start of a unit.  It is there because the code needs it:
`SPIF_WriteSector` and `SPIF_WriteBlock` (992) count a whole page as written where
`SPIF_WriteFn` has cut the first one at the offset, and the reads of a unit ignore the
offset.  The firmware calls none of these, littlefs goes by address.  `ExactInv` says how
far a write has come at each place of its loop: the first `index` bytes are programmed
(`Written`), the page being worked on is the one `index` points into (`Along`), and what the
chip still has to do counts as done (`Settled`).

`LfsMdirProofs`, for every number of blocks, slots in a block, commits, revisions and blocks
that go bad, under `~OpenElsewhere` (a failed commit leaves no handle on the pair open,
which holds of this firmware; otherwise an acknowledged commit can be lost, section 6):

- `TypeCorrect`, `HandleSound` (`[]HandleCurrent`), `CopyOnWrite` (`LiveUntouched`),
  `SuperblockFixed` (`SuperblockStays`).
- `CellImplemented`: the pair implements `AtomicCell`.

The invariant is `MdirInv`.  Its core, `WorkInv`, is that through a whole commit
`ldir.pair[0]` is the half a mount would take, that the other half is another block, and
that the revision it will be given is ahead of the one in use (`AheadOf`), so that
it takes over the moment its commit is readable and not before; `CheckInv` says which of
the two is in use between the program and the check, where both are possible.  `LogEnd`
says where the log ends when a commit is being appended: one further once it reads back, and
never more, since the commit's `next` bit differs from the first bit of what
follows it.  The lemmas under it: the end of a log is well defined (`LogHasEnd`, `LogEndIs`,
from the least-number principle), revisions compare as numbers do around a wrap
(`NewerNext`, `NewerAnti`) and aligning a found revision never makes it older
(`AlignedAhead`), and the half taken by a fetch is the one that `Leads`.

`LfsCtzIndexProofs`, for every size of a block and every position:

- `IndexExact`: `lfs_ctz_index` finds the block and the offset of a position.  The
  reference is `First(i)`, the position of the first word of block `i`, which adds up the
  words of the blocks before it, each less its pointers.  It holds where a block has
  room for its pointers (`Room`), which is what the code's assertions on the block size
  (4173-4177) are for.
- `IndexExactInFiles`: for blocks of 128 bytes and more, which the code asserts, `Room` holds
  of every position below 2^31 bytes, the largest file littlefs has.
- `FindArrives`: the walk of `lfs_ctz_find` ends in the block it looks for, and
  `PointersChain`: the blocks from which `lfs_ctz_extend` reads the pointers of a new block have
  the pointer it copies.

The arithmetic is recursive functions on numbers (`Pow2`, `Popc`, `TrailingZeros`, `Npw2`).
That each exists and satisfies its equation is `Recursion`, and what they compute
is shown by `Induction`, both from the least-number principle, as a set of
numbers can be named where the library's theorems want an operator.  The heart is `PopcStep`:
from one number to the next the count of bits grows by one less the zeros at the end,
so that the pointers of all blocks below `n` number `2 * n - Popc[n]`.

`LfsTreeProofs`, over the lemmas of `LfsThreadProofs` and `LfsCommitProofs`, for every number of blocks, names,
files and calls, every `Budget` and `Traps`, and power lost between any two commits, of the
behaviours in which no commit relocates its pair (`[](com = NoCom)`; as these are
safety properties, that is every state up to the first relocation):

- `Typed` (`[]TypeOK`): of every pair on the thread one half is in force.
- `GStateAddsUp` (`[]GStateRead`): before a call, what the driver takes the global state on the
  disk to be is what a mount would add up.
- `HandlesStayFresh` (`[]HandlesFresh`): the handles a call keeps over its commits to other
  pairs, and the hidden one of the directory it drops, describe the disk.
- `TreeIsInUse` (`[]TreeInUse`): at any point of a call the pairs of every directory that a path
  leads to are in use for the allocator.
- `Agree` (`[]Consistent`): before a call the directories that a path leads to are those
  on the thread.
- `ToldOfOrphans` (`[]Told`): at any point, if they are not, a mount is told to repair.
- `CallsHappenWhole` (`CallsAtomic`): the tree that a mount would find, with the call under way,
  implements `NameTree`: it begins as an empty root, and a call shows what it was asked to
  do, whole and once, or nothing if power is lost before; no other step shows.
- `SilentRepairs` (`RepairsSilent`): no step of `lfs_fs_demove`, `lfs_fs_deorphan` or a mount changes
  the tree of names.
- `AssertHolds`: the assertion of `lfs_fs_preporphans` (4817) does not fail.

What the hypothesis leaves in: appends, compactions, splits with their new pairs, the
pairs dropped by a remove, a rename and their repair, moves undone, orphans found again and
every interleaving of these with power cuts.  What it leaves out is the commits of a
pair that is worn out or bad, with the ones that tell its parent and its predecessor.
These have states of their own, in which the thread leads to one half of a pair and an
entry to another, and situations in which the code goes wrong (section 6): there TLC has
the last word.

The inductive invariant is `Inv`.  It is about three things that no variable holds: the
number `n` of pairs on the thread, the pairs `P[1]` .. `P[n]` in order, and what each holds,
`C`; it says that there are such, which the disk shows (`Reads`: one half of each is in
force, with `C` in it), and that they are in order (`Plan`):

- `Line`: the pairs are disjoint, the first is the root, each one's tail is the next, the last
  has none;
- `Fits`: an entry of a directory leads to a pair on the thread that is neither the root nor
  split off another (`Aims`); two entries that are not being moved do not lead to the same
  pair (`Once`); a pair no entry leads to, if it is neither of those, is blank (`Orphans`);
- `Adds`: the parts of the global state along the thread add up to what the driver has in
  `gdisk`, less what it has put in the new pair of a `lfs_mkdir_` that is not on the thread yet
  (`Owed`).

To it come `RamInv`, for `gstate` and `gdisk`, and `OpInv`, for where in a call the driver is: what
its handles point at, which pair is the one being dropped (`Doomed`: blank and led to by
nothing), and that the count of orphans is not zero while there is one.
That `Doomed` pairs are blank is needed for `GStateRead` and for `TreeInUse` alike: dropping one
must lose no entry, and give its delta to the pair before it.

`Fits` does not say that a directory of the thread can be reached: two that lead to each
other would do.  `Agree` and `ToldOfOrphans` need that, and it is `Knit`: there is a set `K` of pairs,
blank and led to by nothing, such that any set that holds the root and
all that its pairs lead to holds every pair but those of `K` (`Tied`).  Nothing has to be
said of depths that way, and each commit's lemma (`TiedSplit` and the others) starts from a closed
set of the new plan and makes it one of the old.  `Loose` says which pairs `K` may
hold, and when: none if the count of orphans is zero, the one being linked or dropped inside a call,
and those that the second pass of `lfs_fs_deorphan` has still to come to.

`SilentRepairs` and `CallsHappenWhole` need the tree itself before and after a commit, and
`RamInv` says that the history variable `tree` is what a mount would find.  The nodes are the
least set that holds the root and what its directories list (`Grown`), so two disks on which the
directories that both have list the same (`SameLists`) have the same tree, whatever the
pairs they are kept in: this is how the entries shared out by a split, a blank pair
dropped, and the move that `Demove` undoes are seen to be silent.  Under a commit that
shares out its entries an entry stays in the directory it was in (`Keeps`).

A commit that does more than that changes one list, or for a rename two, at one name each.
`AddsNode`, `RemovesNode` and `MovesNode` say what this does to a least set: a node is added,
or taken out, or all nodes under one path are carried to another; those are `Make`, `Delete`
and `Rename` of `NameTree`, also where an entry is replaced by the rename.  For them to be
the right nodes, a name must be in one pair of a directory, and that the one the call has
looked it up in: so the invariant has the pairs of a directory in the order of their names
(`Sorted`, in `Knit`), which a split keeps and which a commit to the pair that `lfs_dir_find`
stops at needs.  That no directory is carried below itself is what the model asks of the caller
(section 2).

Of the commits of a call one shows the change and the others are stutters.  For which it is,
`Owes` stands beside `Inv`: the effect is due exactly while a `lfs_mkdir_` has not put its name
in (`"link"`, `"unlink"`, `"add"`), as every other call shows with its first commit.  And for the name to
be the one asked for, `Hook` says that the handle kept over these commits is of a pair of the
directory asked for (`Asked`): linking the new pair may split that directory's last
pair, and a split leaves a directory's pairs together (`Joined`, in `Keeps`).  A rename between
pairs is whole with the commit that puts the new name in, as the move announced with it hides the
old one; taking the old name out shows nothing.  `lfs_mkdir_` links its new pair into
the thread first, which no path leads to and so does not show, also when the commit splits the
pair it goes to; the name appears with the entry.

The proof follows the code.  A commit is planned as a new `C`, shown to be in order by the `Fits`
lemma of its kind (`FitsSplit` and the others: an entry is put in, taken out, moved, the names of a
pair are shared out); then it is written, appended, compacted or split, and a
mount would find that plan (`After`); then what is not reachable is forgotten
(`Tidy`), or the commit has been to the pair before a doomed one and that pair is off the
thread (`Cut`).  What the code *finds* on the disk is tied to `P` and `C` by `LfsThreadProofs`: the walk of
the thread is `P` (so a traversal gets all of it, and it ends), the sum of the deltas is the
xor along it, the searches for a parent and a predecessor give the pair they are
meant to, and the nodes that paths lead to are all on the thread.  These are recursive
functions over paths, sets and positions, so each of the lemmas comes with its own
induction, from the least-number principle.

Assumptions are those named in the modules (`StorageAssumption`, `SpifAssumption`,
`AllocAssumption`, `MdirAssumption`, `ThreadAssumption`, `TreeAssumption`) and those above:
`FoldersFit`, `NoWipe`, that no close fails, `AmpleGrowth`, `ExactCalls`, `~OpenElsewhere`,
`Room` and `[](com = NoCom)`.  `ThreadAssumption` has the blocks and the names finite, as both are on
the device.

## 5. What is only model-checked, and what is not modelled

Only checked: all liveness (out of the prover's reach), relocations in `LfsTree`, and
everything about `LfsFile`.  Over a relocation the thread is not of the shape `Inv` describes: it
leads to the old half of a pair whose parent leads to the new one, so each property needs a second
account of what is read, and some situations must be excluded as the code fails in them.
`LfsCtz`, `LfsCache` and `LfsFile` are written with recursive operators, over
records of all that a call changes; the prover does not take them, and what they compute is
an induction over data.

Not modelled, with the reason in `PROJECT.json`: HAL, CMSIS and start-up code (vendored),
littlefs's test devices and benchmarks (not linked), migration from littlefs v1
(not compiled in), the thread-safe wrappers (forward only), functions nobody calls
(`storate_reset`, `firmware_write`, `firmware_read`, status registers 2 and 3), custom
attributes.  Of the code that is the system's own, the text codec of the info files
(308-483, 654-832), the superblock entry with its checks and its expansion, and the
situations named in section 2 are not modelled.  Most lines of the
repository are vendor headers and drivers, so the share of all lines that the
models cover is small whatever is modelled of the rest.

## 6. Where the code disagrees with what it says

| Run | What it shows |
|---|---|
| `ls_brick` | power lost after `lfs_mkdir` of the firmware directory (local_storage.c 214) and before its info is stored: no later boot succeeds |
| `ls_stuck` | the write seek passes `FOLDER_MAX_COUNT` (545) into a folder never created: every later push fails |
| `sp_lostwrite` | a status read that fails counts as "not busy" (spif.c 408, 260): a page is lost and the write returns true |
| `lf_seek` | `lfs_file_seek_` (lfs.c 3682-3698): after a read up to the end of a block `file->pos` counts as the next block but the cached page is of the old one; a seek to where that page would be in the next block keeps it, and the next read returns the old block's words |
| `lf_newblock` | `lfs_fs_traverse_` (lfs.c 4694): while the first words of a new block are written `file->pos` is still its start, so the list is walked as one block shorter; if the program fails and the move to another block needs a scan, the block before the new one is missed and is given out again |

The last two were tried on the C code over a RAM device.  A file read for 4096 bytes, then
sought to 7996, gives the bytes of 3904.  Of 27,929 random rewrites of files on a device
whose programs fail now and then, 411 ended with bytes lost and no error; with `f->pos + 1`
in place of `f->pos` while `f->off` is inside the block, none did.

Four more configurations are kept to be run by hand (`tlc -config X.cfg MC...`).  Each
ends in a violation:

| Config, module | What it shows |
|---|---|
| `ls_lostinfo`, `MCLocalStorage` | `set_store_info` reports success although the close that commits it failed (local_storage.c 480) |
| `la_grow`, `MCLfsAlloc` | `lfs_fs_grow` keeps the lookahead window (lfs.c 5168): a window that wraps offers blocks in use, unless the device at least doubles; not called by this firmware |
| `md_kept`, `MCLfsMdir` | a read error after a compaction is written (lfs.c 2047): a second open handle goes on with the older half and its acknowledged commit is lost; this firmware opens one file at a time |
| `lt_repair`, `MCLfsTree` | power lost between the parent's and the predecessor's commit of a relocation: the thread still leads to the old half, so the entries of the new one are not seen; a commit of `lfs_fs_deorphan` (lfs.c 4971) that needs a block takes one of theirs |

What else came up while modelling the tree, by reading and by runs not kept:

- `LFS_ASSERT(pdir)` (lfs.c 2225) is reached when the only entry of the pair before the
  destination's is renamed and the destination relocates.
- A predecessor's commit that relocates looks for its own parent along a thread that is
  not yet mended; a parent's commit that relocates may leave a half-orphan that
  the repair misses, or meets for ever (a directory that comes after one of its own on the
  thread, as a rename can leave it, when both relocate).  `Budget` therefore lets only the call's own
  commits relocate.
- `lfs_fs_forceconsistency` (5044) undoes a pending move before it mends half-orphans (the
  situation `"demove"`).  The only name of the second pair of a directory is renamed into the
  first, which relocates; power is lost when the parent has been told and the
  predecessor has not.  `lfs_fs_demove` empties the second pair and drops it from the pair
  before it on the thread, which is the old half of the first; `lfs_fs_deorphan` then
  puts the new half in its place, and with it the dropped pair with the old name
  and a global state in which the move is pending again.  The same happens to a
  pair whose parent or predecessor is that old half and which `lfs_fs_demove`'s commit
  relocates.  `RepairsSilent` fails within nine steps after a directory of two pairs
  has been set up; four calls do not get that far, which is why `lt_calls` passes with the
  situation let in as well.
- `lfs_mkdir_` called with global state that is not yet on the disk (the situation `"owed"`)
  writes it into the new pair, which is not on the thread yet.
- A rename that fails leaves its move in `lfs->gstate`; `lfs_fs_preporphans(-1)` asserts
  (4817) after a deorphan has set the count to zero.
- An outlined file that has not been flushed has `LFS_BLOCK_INLINE` as its list's head and is
  traversed all the same (4686): the allocator marks a position that stands for no block of
  the file, which costs at most a block's use.

## 7. Plan

Done: `LocalStorage` with its log, `Spif`, `LfsAlloc` and `LfsMdir`, each with its proofs;
the arithmetic of `LfsCtz`, proved; `LfsTree`, checked, and each of its safety properties proved
as long as no pair is relocated; `LfsCache` and `LfsFile`, checked.

Next, in this order:

1. Proofs about `LfsTree`: relocations, where a half-orphan can take the place of the pair it
   replaces.
2. The codec of the info file: writing and parsing over bounded inputs.
3. `LfsTree`: commits that fail, so that the entries of a call and the global state in
   RAM are followed through errors; the superblock's expansion.
4. `LfsFile`: two handles on one file, and files whose commit needs a block.
