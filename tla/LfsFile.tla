-------------------------------- MODULE LfsFile -----------------------------
(***************************************************************************)
(* Open files of littlefs: reads, writes, seeks, truncations, sync and      *)
(* close, over the caches and the lists of blocks, with the block allocator *)
(* that reuses what no list needs any more.  Programs that do not stick     *)
(* make the code move what it was writing to another block; power is lost   *)
(* between calls, and since a call may touch no block of a file's last      *)
(* commit (LiveUntouched) that stands for within calls too.                 *)
(*                                                                         *)
(* One action is one call, its effect computed on the record m.  A commit   *)
(* of a file's entry is atomic (LfsMdir, LfsTree).  Files exist (LfsTree    *)
(* creates them) and are open once, for reading and writing; a caller that  *)
(* got an error closes the file.  Left out: user attributes, reads of a     *)
(* whole block at once, the limit on sizes.                                 *)
(***************************************************************************)
EXTENDS LfsCtz, SequencesExt, TLC

CONSTANTS
    Files,
    InlineMax,       \* words of a file kept in its entry: a page
    Lookahead,       \* blocks of the lookahead buffer
    Seed,            \* the block a mount lets the search for free blocks start at
    Opens,           \* bound: how files are opened, truncated or not and in what mode
    Lengths,         \* bound: words a call reads or writes
    Places,          \* bound: where it seeks to
    Sizes,           \* bound: what it truncates to
    Starts,          \* bound: the size and the first block the files may have at first
    MaxCalls,        \* bound: calls for each file, and for all
    MaxTotal,
    MaxBad,          \* bound: calls with a program that does not stick
    MaxFate,         \* bound: which of the call's programs that may be
    Traps            \* bound: the situations in which the code goes wrong that may come up

Situations ==
    {"boundary",     \* a seek from the end of a block into the next one
     "newblock"}     \* a scan for free blocks while the first words written to a new
                     \* block are moved on to another

ASSUME FileAssumption ==
    /\ InlineMax = PageSize /\ Lookahead \in Nat \ {0} /\ Seed \in Blocks
    /\ Traps \subseteq Situations
    /\ Opens \subseteq [trunc : BOOLEAN, mode : {"rw", "append"}]
    /\ MaxCalls \in [Files -> Nat] /\ {MaxBad, MaxFate} \subseteq Nat
    /\ \A n \in Lengths : n \in 1 .. BlockSize - 1
    /\ \A start \in Starts : start \in [Files -> [size : Nat, first : Blocks]]

VARIABLES
    dev,             \* the words of every block
    ent,             \* the committed entry of every file
    fs,              \* lfs_t: rcache, pcache and lookahead
    h,               \* the open files: flags, position, list and cache
    io,              \* history: the last call, what it was given and returned
    calls, bads,     \* of the bounds
    seen,            \* history: what the users of the open files see
    disk,            \* history: what a mount would find in the files
    hurt,            \* history: a block of a committed file was erased or programmed
    misused,         \* history: lfs_bd_prog found its cache in use
    stale            \* history: a cache of reads promised or gave what the device
                     \* does not hold

vars == <<dev, ent, fs, h, io, calls, bads, seen, disk, hurt, misused, stale>>

Closed   == [mode |-> "closed", flags |-> {}, pos |-> 0, off |-> 0, block |-> Null,
             head |-> Null, size |-> 0, cache |-> NoCache, was |-> << >>]
Mounted  == [rc |-> NoCache, pc |-> NoCache,
             la |-> [start |-> Seed, next |-> 0, size |-> 0, free |-> {}, ckpoint |-> BlockCount]]
MetaRead == [NoCache EXCEPT !.block = Meta, !.size = PageSize]

Is(x, flag)    == flag \in x.flags
InList(x)      == ~Is(x, "INLINE")
CtzEntry(f)    == ent[f].head # Inline

-----------------------------------------------------------------------------
(* lfs_alloc.                                                                  *)

(* lfs_fs_traverse_: the entries read, their lists, then those of open files. *)
ReadMeta(m) == [m EXCEPT !.c["rc"] = MetaRead]
OfEntry_Shut(m, f) ==                                 \* mutant: not while it is open
    IF CtzEntry(f) /\ h[f].mode = "closed"
    THEN CtzTraverse(m, "none", ent[f].head, ent[f].size) ELSE m
OfEntry(m, f) == IF CtzEntry(f) THEN CtzTraverse(m, "none", ent[f].head, ent[f].size) ELSE m

OfHandle_Dirty(m, x) ==                               \* mutant: not what is being written
    LET d == [m EXCEPT !.c["tc"] = x.cache]
    IN IF Is(x, "DIRTY") /\ InList(x) THEN CtzTraverse(d, "tc", x.head, x.size) ELSE d
OfHandle(m, x) ==
    LET d == [m EXCEPT !.c["tc"] = x.cache]
        e == IF Is(x, "DIRTY") /\ InList(x) THEN CtzTraverse(d, "tc", x.head, x.size) ELSE d
    IN IF Is(x, "WRITING") /\ InList(x) THEN CtzTraverse(e, "tc", x.block, x.pos) ELSE e

Own(m) == [m.h EXCEPT !.cache = m.c["fc"]]

Traversed(m) ==
    LET fseq == SetToSeq(Files)
        es   == FoldLeft(OfEntry, ReadMeta([m EXCEPT !.used = {}]), fseq)
    IN FoldLeft(LAMBDA x, f : IF f = m.f THEN OfHandle(x, Own(m)) ELSE OfHandle(x, h[f]),
                es, SelectSeq(fseq, LAMBDA f : f = m.f \/ h[f].mode # "closed"))

(* The last block of the list is a new one, the position not yet in it.       *)
Ahead(x) == /\ Is(x, "WRITING") /\ InList(x) /\ x.pos > 0 /\ x.off < BlockSize
            /\ CtzIndex(x.pos) # CtzIndex(x.pos - 1)

(* A position in the lookahead buffer is a block counted from la.start.       *)
BlockAt(la, k) == (la.start + k) % BlockCount
Looked(t, la) ==
    IF Ok(t) THEN [t EXCEPT !.la = [la EXCEPT !.free =
                      {k \in 0 .. la.size - 1 : BlockAt(la, k) \notin t.used}]]
    ELSE [t EXCEPT !.la = [la EXCEPT !.size = 0, !.free = {}, !.ckpoint = BlockCount]]
Scan(m) ==
    Looked(Traversed([m EXCEPT !.blind = @ \/ Ahead(m.h)]),
           [m.la EXCEPT !.start = BlockAt(m.la, m.la.next), !.next = 0,
                        !.size = Lesser(Lookahead, m.la.ckpoint)])

RECURSIVE Alloc(_)
Alloc(m) ==
    LET la   == m.la
        free == {k \in la.free : k >= la.next}
        k    == Min(free)
        next == Min({j \in free : j > k} \cup {la.size})
        past == [la EXCEPT !.next = la.size, !.ckpoint = @ - (la.size - la.next)]
    IN IF ~Ok(m) THEN m
       ELSE IF free # {}
            THEN [m EXCEPT !.got = BlockAt(la, k), !.la.next = next,
                           !.la.ckpoint = @ - (next - la.next)]
       ELSE IF past.ckpoint <= 0 THEN Failed([m EXCEPT !.la = past], "nospc")
       ELSE Alloc(Scan([m EXCEPT !.la = past]))

Ckpoint(m)      == [m EXCEPT !.la.ckpoint = BlockCount]
AllocErased(m)  == Then(Alloc(m), LAMBDA a : BdErase(a, a.got))

-----------------------------------------------------------------------------
(* New blocks.  What fails to stick is tried again in the next block.          *)
Mark(m, S) == [m EXCEPT !.h.flags = @ \cup S]
Lose(m, S) == [m EXCEPT !.h.flags = @ \ S]

(* lfs_dir_getread: the cache of an inline file holds the whole of it.        *)
InlineRead(m, off, n) ==
    IF m.c["fc"].block = Inline /\ off + n <= PageSize
    THEN [m EXCEPT !.data = @ \o [i \in 1 .. n |-> m.c["fc"].buf[off + i - 1]]]
    ELSE Failed(m, "corrupt")

RECURSIVE Copy(_, _, _, _, _, _, _)
Copy(m, p, pre, from, to, i, k) ==
    LET d == [m EXCEPT !.data = << >>]
        r == IF from = Inline THEN InlineRead(d, i, 1) ELSE BdRead(d, pre, "rc", from, i, 1)
    IN IF ~Ok(m) \/ i = k THEN m
       ELSE Copy(Then(r, LAMBDA w : [BdProg(w, p, to, i, w.data) EXCEPT !.data = m.data]),
                 p, pre, from, to, i + 1, k)

RECURSIVE Pointers(_, _, _, _)
Pointers(m, to, i, k) ==
    Then(BdProg(m, "fc", to, i, <<Ptr(m.at.block)>>), LAMBDA w :
        IF i + 1 = k THEN w
        ELSE Pointers(Pointer(w, "none", "rc", w.at.block, i), to, i + 1, k))

(* lfs_ctz_extend of the list of size words at head.                          *)
Incomplete(off) == off # BlockSize

RECURSIVE CtzExtend(_, _, _)
CtzExtend(m, head, size) ==
    LET last  == CtzOff(size - 1) + 1
        skips == TrailingZeros[CtzIndex(size - 1) + 1] + 1
    IN Then(AllocErased(m), LAMBDA a :
          IF size = 0 THEN At(a, a.got, 0)
          ELSE Again(IF Incomplete(last)
                     THEN At(Copy(a, "fc", "none", head, a.got, 0, last), a.got, last)
                     ELSE At(Pointers(At(a, head, 0), a.got, 0, skips), a.got, skips),
                     LAMBDA e : CtzExtend(Drop(e, "fc"), head, size)))

(* lfs_file_relocate: what was written of the block, into another one.        *)
RECURSIVE Relocate(_)
Relocate(m) ==
    LET from == IF InList(m.h) THEN m.h.block ELSE Inline
        Moved(c) == Mark(Zero([c EXCEPT !.c["fc"] = c.c["pc"], !.h.block = c.got], "pc"),
                         {"WRITING"})
    IN Again(Then(AllocErased(m), LAMBDA a :
                 Then(Copy(a, "pc", "fc", from, a.got, 0, m.h.off), Moved)),
             LAMBDA c : Relocate(Drop(c, "pc")))

(* lfs_file_outline.                                                          *)
Outline(m) == Then(Relocate(Ckpoint([m EXCEPT !.h.off = m.h.pos])),
                   LAMBDA r : Lose(r, {"INLINE"}))

-----------------------------------------------------------------------------
(* lfs_file_flushedread, for the file ("h") or what flush copies from ("o").  *)
CacheOf(who) == IF who = "h" THEN "fc" ELSE "oc"

Located(m, who) ==
    LET x == m[who]
        f == IF InList(x) THEN CtzFind(m, "none", CacheOf(who), x.head, x.size, x.pos)
             ELSE At(m, Inline, x.pos)
    IN IF Is(x, "READING") /\ x.off # BlockSize THEN m
       ELSE Then(f, LAMBDA g : [g EXCEPT ![who].block = g.at.block, ![who].off = g.at.off,
                                         ![who].flags = @ \cup {"READING"}])

ReadPart(m, who, d) ==
    LET x == m[who]
    IN Then(IF InList(x) THEN BdRead(m, "none", CacheOf(who), x.block, x.off, d)
            ELSE InlineRead(m, x.off, d),
            LAMBDA g : [g EXCEPT ![who].pos = @ + d, ![who].off = @ + d])

RECURSIVE ReadTo(_, _, _)
ReadTo(m, who, to) ==
    IF ~Ok(m) \/ m[who].pos >= to THEN m
    ELSE ReadTo(Then(Located(m, who), LAMBDA f :
                    ReadPart(f, who, Lesser(to - f[who].pos, BlockSize - f[who].off))),
                who, to)

FlushedRead(m, who, n) == ReadTo(m, who, Lesser(m[who].pos + n, m[who].size))

(* lfs_file_flushedwrite.                                                     *)
Dirtied_Not(m) == m                                   \* mutant: what was read is kept
Dirtied(m) == Zero(m, "fc")
LastBlock(m) ==
    IF Is(m.h, "WRITING") \/ m.h.pos = 0 THEN m
    ELSE Then(CtzFind(m, "none", "fc", m.h.head, m.h.size, m.h.pos - 1),
              LAMBDA f : Dirtied([f EXCEPT !.h.block = f.at.block]))
Extended(m) ==
    Then(Then(LastBlock(m), LAMBDA s : CtzExtend(Ckpoint(s), s.h.block, s.h.pos)),
         LAMBDA e : [e EXCEPT !.h.block = e.at.block, !.h.off = e.at.off])

RoomFor(m) ==
    IF Is(m.h, "WRITING") /\ m.h.off # BlockSize THEN m
    ELSE Then(IF InList(m.h) THEN Extended(m)
              ELSE [m EXCEPT !.h.block = Inline, !.h.off = m.h.pos],
              LAMBDA e : Mark(e, {"WRITING"}))

RECURSIVE ProgHere(_, _)
ProgHere(m, words) == Again(BdProg(m, "fc", m.h.block, m.h.off, words),
                            LAMBDA d : ProgHere(Relocate(d), words))

RECURSIVE WriteOn(_, _)
WriteOn(m, words) ==
    IF words = << >> \/ ~Ok(m) THEN m
    ELSE Then(RoomFor(m), LAMBDA r :
             LET d == Lesser(Len(words), BlockSize - r.h.off)
             IN Then(ProgHere(r, SubSeq(words, 1, d)), LAMBDA p :
                    WriteOn(Ckpoint([p EXCEPT !.h.pos = @ + d, !.h.off = @ + d]),
                            SubSeq(words, d + 1, Len(words)))))

Erring(m) == IF Ok(m) THEN m ELSE Mark(m, {"ERRED"})
FlushedWrite(m, words) ==
    LET full == Greater(m.h.pos + Len(words), m.h.size) > InlineMax
    IN Erring(WriteOn(IF full /\ Is(m.h, "INLINE") THEN Outline(m) ELSE m, words))

(* lfs_file_flush: the words after the ones written are copied behind them,    *)
(* read through a copy of rcache ("oc") that has rcache's buffer: of the two   *)
(* labels on it one at most may stand.                                        *)
Unshared_Not(m) == m                                  \* mutant: both labels stand
Unshared(m) == IF m.c["rc"].block = Null THEN m ELSE Drop(Drop(m, "oc"), "rc")

RECURSIVE CopyTail(_)
CopyTail(m) ==
    IF ~Ok(m) \/ m.h.pos >= m.h.size THEN m
    ELSE CopyTail(Then(Then(FlushedRead([m EXCEPT !.data = << >>], "o", 1),
                            LAMBDA r : FlushedWrite(r, r.data)),
                       LAMBDA w : Unshared([w EXCEPT !.data = m.data])))

RECURSIVE FlushHere(_)
FlushHere(m) == Then(m, LAMBDA w :
                    Again(BdFlush(w, "fc"), LAMBDA f : FlushHere(Relocate(f))))

Unread_All(m) == Lose(Drop(m, "fc"), {"READING"})     \* mutant: inline files too
Unread(m) == LET d == IF InList(m.h) THEN Drop(m, "fc") ELSE m
             IN IF Is(m.h, "READING") THEN Lose(d, {"READING"}) ELSE m
Branch_Kept(m) ==                                     \* mutant: rcache stands as well
    [m EXCEPT !.o = [m.h EXCEPT !.flags = {}], !.c["oc"] = m.c["rc"]]
Branch(m) == Drop([m EXCEPT !.o = [m.h EXCEPT !.flags = {}], !.c["oc"] = m.c["rc"]], "rc")

Complete(m) == IF InList(m.h) THEN FlushHere(CopyTail(Branch(m)))
               ELSE [m EXCEPT !.h.pos = Greater(@, m.h.size)]
Flush(m) ==
    IF ~Is(m.h, "WRITING") THEN Unread(m)
    ELSE Then(Complete(Unread(m)), LAMBDA w :
             Mark(Lose([w EXCEPT !.h.head = w.h.block, !.h.size = w.h.pos, !.h.pos = m.h.pos],
                       {"WRITING"}), {"DIRTY"}))

-----------------------------------------------------------------------------
(* The calls.                                                                  *)
ReadCall(m, n) == Then(IF Is(m.h, "WRITING") THEN Flush(m) ELSE m,
                       LAMBDA f : FlushedRead(f, "h", n))

RECURSIVE Fill(_, _)
Fill(m, to) == IF ~Ok(m) \/ m.h.pos >= to THEN m ELSE Fill(FlushedWrite(m, <<0>>), to)

(* lfs_file_write_: a gap between the end and the position is zeros.          *)
Placed(m) == IF m.h.mode = "append" /\ m.h.pos < m.h.size
             THEN [m EXCEPT !.h.pos = m.h.size] ELSE m
Filled(m) == IF ~Is(m.h, "WRITING") /\ m.h.pos > m.h.size
             THEN Fill([m EXCEPT !.h.pos = m.h.size], m.h.pos) ELSE m
WriteCall(m, words) ==
    Then(Then(Then(IF Is(m.h, "READING") THEN Flush(m) ELSE m, LAMBDA f : Filled(Placed(f))),
              LAMBDA z : FlushedWrite(z, words)),
         LAMBDA w : Lose(w, {"ERRED"}))

(* lfs_file_seek_: within the cached page the cache is kept.  At the end of a  *)
(* block the position is in the next one, but the cache is not.               *)
AtEnd(m)  == Is(m.h, "READING") /\ m.h.off = BlockSize
InWindow(m, npos) ==
    /\ ~Is(m.h, "WRITING")
    /\ CtzIndex(m.h.pos) = CtzIndex(npos)
    /\ CtzOff(npos) \in m.c["fc"].off .. m.c["fc"].off + m.c["fc"].size - 1

SeekTo(m, npos) ==
    IF npos = m.h.pos THEN m
    ELSE IF InWindow(m, npos) THEN [m EXCEPT !.h.pos = npos, !.h.off = CtzOff(npos)]
    ELSE Then(Flush(m), LAMBDA f : [f EXCEPT !.h.pos = npos])

(* lfs_file_truncate_.                                                        *)
SizeOf(x) == IF Is(x, "WRITING") THEN Greater(x.pos, x.size) ELSE x.size

Over(buf, words) == [i \in Window |-> IF i < Len(words) THEN words[i + 1] ELSE buf[i]]
Borrowed_Held(m) == m                                 \* mutant: rcache is not dropped
Borrowed(m) == Drop(m, "rc")       \* rcache.buffer is used for the words meanwhile
ToInline(m, size) ==
    Then(FlushedRead([Borrowed(m) EXCEPT !.data = << >>], "h", size), LAMBDA r :
        Mark([r EXCEPT !.h.head = Inline, !.h.size = size, !.data = m.data,
                  !.c["rc"].buf = Over(@, r.data),
                  !.c["fc"] = [block |-> Inline, off |-> 0, size |-> PageSize,
                               buf |-> Over(@.buf, r.data)]],
             {"DIRTY", "READING", "INLINE"}))

Shrunk(m, size) ==
    Then(CtzFind(m, "none", "fc", m.h.head, m.h.size, size - 1), LAMBDA f :
        Mark([f EXCEPT !.h.pos = size, !.h.block = f.at.block,
                       !.h.head = f.at.block, !.h.size = size], {"DIRTY", "READING"}))

RECURSIVE Grow(_, _)
Grow(m, size) == IF ~Ok(m) \/ m.h.pos >= size THEN m ELSE Grow(WriteCall(m, <<0>>), size)

TruncateCall(m, size) ==
    LET old == SizeOf(m.h)
        t   == IF size > old THEN Grow(SeekTo(m, old), size)
               ELSE IF size = old THEN m
               ELSE IF size <= InlineMax
                    THEN Then(SeekTo(m, 0), LAMBDA s : ToInline(s, size))
               ELSE Then(Flush(m), LAMBDA f : Shrunk(f, size))
    IN Then(t, LAMBDA s : SeekTo(s, m.h.pos))

(* lfs_file_sync_: the entry is committed with the new list or data.          *)
EntryOf(m) ==
    [head |-> m.h.head, size |-> m.h.size,
     data |-> IF InList(m.h) THEN << >>
              ELSE [i \in 1 .. m.h.size |-> m.c["fc"].buf[i - 1]]]
Commit(m) == IF Is(m.h, "DIRTY")
             THEN Lose(Zero(ReadMeta([m EXCEPT !.entry = EntryOf(m)]), "pc"), {"DIRTY"})
             ELSE m
SyncCall(m) == IF Is(m.h, "ERRED") THEN m ELSE Then(Erring(Flush(m)), Commit)

-----------------------------------------------------------------------------
(* What a call works on, and what it leaves.                                  *)
Scratch ==
    [dev |-> dev, la |-> fs.la, f |-> "none", h |-> Closed, o |-> Closed,
     c |-> [rc |-> NoCache, pc |-> NoCache, fc |-> NoCache, oc |-> NoCache, tc |-> NoCache],
     left |-> 0, kept |-> {}, hurt |-> hurt, misused |-> misused, stale |-> stale,
     blind |-> FALSE, err |-> "ok",
     data |-> << >>, at |-> [block |-> Null, off |-> 0], got |-> 0, used |-> {},
     entry |-> [head |-> Inline, size |-> 0, data |-> << >>]]

(* A list as its pointers to the block before lay it out, on device d and      *)
(* through a cache of what is not programmed yet: the reference the skips and  *)
(* the arithmetic are measured by.                                            *)
WordIn(d, c, b, off) == IF Holds(c, b, off) THEN c.buf[off - c.off] ELSE d[b][off]

RECURSIVE IndexFor(_, _), Chain(_, _, _, _)
IndexFor(size, i) == LET room == BlockSize - Pointed(i)
                     IN IF size <= room THEN i ELSE IndexFor(size - room, i + 1)
Chain(d, c, head, i) ==
    IF head \notin Blocks \/ i = 0 THEN <<head>>
    ELSE Append(Chain(d, c, Target(WordIn(d, c, head, 0)), i - 1), head)

ListOf(d, c, head, size) ==
    IF size = 0 THEN << >> ELSE Chain(d, c, head, IndexFor(size, 0))
DataOf(d, c, head, size) ==
    LET list == ListOf(d, c, head, size)
        Data(i) == [k \in 1 .. BlockSize - Pointed(i) |->
                       WordIn(d, c, list[i + 1], k - 1 + Pointed(i))]
    IN IF ~(ToSet(list) \subseteq Blocks) THEN << >>
       ELSE SubSeq(FlattenSeq([i \in 1 .. Len(list) |-> Data(i - 1)]), 1, size)

Committed(f) == IF CtzEntry(f) THEN ToSet(ListOf(dev, NoCache, ent[f].head, ent[f].size))
                ELSE {}
Listed(x) ==
    (IF Is(x, "DIRTY") /\ InList(x) THEN ToSet(ListOf(dev, NoCache, x.head, x.size)) ELSE {})
    \cup IF Is(x, "WRITING") /\ InList(x) THEN ToSet(ListOf(dev, x.cache, x.block, x.pos))
         ELSE {}

Begin(f, left) ==
    [Scratch EXCEPT !.f = f, !.h = h[f], !.left = left, !.entry = ent[f],
                    !.c["rc"] = fs.rc, !.c["pc"] = fs.pc, !.c["fc"] = h[f].cache,
                    !.kept = UNION {Committed(g) : g \in Files}]

(* What the file holds as its user sees it, and as a mount would find it.     *)
View(d, x) ==
    IF x.mode \in {"closed", "failed"} THEN x.was
    ELSE IF ~InList(x) THEN [i \in 1 .. SizeOf(x) |-> x.cache.buf[i - 1]]
    ELSE IF Is(x, "WRITING")
         THEN LET old == IF x.pos < x.size THEN DataOf(d, NoCache, x.head, x.size) ELSE << >>
              IN DataOf(d, x.cache, x.block, x.pos) \o SubSeq(old, x.pos + 1, x.size)
    ELSE DataOf(d, NoCache, x.head, x.size)
Stored(d, e) == IF e.head = Inline THEN e.data ELSE DataOf(d, NoCache, e.head, e.size)

Report(m, call, arg) ==
    [call |-> call, f |-> m.f, arg |-> arg, words |-> m.data, err |-> m.err]

Viewed(d, e, x) ==
    /\ ent' = e
    /\ h' = x
    /\ seen' = [f \in Files |-> View(d, x[f])]
    /\ disk' = [f \in Files |-> Stored(d, e[f])]

Put(m, x) ==
    /\ m.blind => "newblock" \in Traps
    /\ dev' = m.dev
    /\ fs' = [rc |-> m.c["rc"], pc |-> m.c["pc"], la |-> m.la]
    /\ hurt' = m.hurt
    /\ misused' = m.misused
    /\ stale' = m.stale
    /\ Viewed(m.dev, [ent EXCEPT ![m.f] = m.entry], [h EXCEPT ![m.f] = x])

After(m) == IF Ok(m) THEN Own(m)
            ELSE [Own(m) EXCEPT !.mode = "failed", !.was = seen[m.f]]

(* A program of the call may not stick, the m.left-th.                        *)
Fates == 0 .. (IF bads < MaxBad THEN MaxFate ELSE 0)
Total == FoldFunction(LAMBDA k, n : k + n, 0, calls)
More(f) == calls[f] < MaxCalls[f] /\ Total < MaxTotal
Count(f, left) == /\ calls' = [calls EXCEPT ![f] = @ + 1]
                  /\ bads' = IF left = 0 THEN bads ELSE bads + 1

Return(m, x, left, call, arg) ==
    /\ m.left = 0
    /\ Put(m, x) /\ Count(m.f, left)
    /\ io' = Report(m, call, arg)
Done(m, left, call, arg) == Return(m, After(m), left, call, arg)

Usable(f) == More(f) /\ h[f].mode \in {"rw", "append"}

(* lfs_file_opencfg_.  The offset and size of the cache of a file in a list    *)
(* are those the caller's memory had: size 0 or a page.                       *)
Opened(e, trunc, mode, k) ==
    LET inl == e.head = Inline \/ trunc
    IN [Closed EXCEPT !.mode = mode,
            !.flags = (IF trunc THEN {"DIRTY"} ELSE {}) \cup (IF inl THEN {"INLINE"} ELSE {}),
            !.head = IF trunc THEN Inline ELSE e.head,
            !.size = IF trunc THEN 0 ELSE e.size,
            !.cache = IF ~inl THEN [NoCache EXCEPT !.size = k]
                      ELSE [block |-> Inline, off |-> 0, size |-> PageSize,
                            buf |-> IF trunc THEN Blank ELSE Over(Blank, e.data)]]

Open(f, trunc, mode, k) ==
    /\ More(f)
    /\ h[f].mode = "closed"
    /\ k # 0 => CtzEntry(f) /\ ~trunc
    /\ Count(f, 0)
    /\ Viewed(dev, ent, [h EXCEPT ![f] = Opened(ent[f], trunc, mode, k)])
    /\ fs' = [fs EXCEPT !.rc = MetaRead]
    /\ io' = Report([Scratch EXCEPT !.f = f], mode, IF trunc THEN 1 ELSE 0)
    /\ UNCHANGED <<dev, hurt, misused, stale>>

Read(f) == /\ Usable(f)
           /\ \E n \in Lengths, left \in Fates :
                 Done(ReadCall(Begin(f, left), n), left, "read", n)

Words(n) == [i \in 1 .. n |-> 10 * (Total + 1) + i]
Write(f) == /\ Usable(f)
            /\ \E n \in Lengths, left \in Fates :
                  LET m == WriteCall(Begin(f, left), Words(n))
                  IN Done([m EXCEPT !.data = Words(n)], left, "write", n)

(* A seek out of the last position of a block, into the next.                 *)
Misled(m, npos) == AtEnd(m) /\ InWindow(m, npos) /\ npos # m.h.pos
Seek(f) == /\ Usable(f)
           /\ \E npos \in Places, left \in Fates :
                 LET m == Begin(f, left)
                 IN /\ Misled(m, npos) => "boundary" \in Traps
                    /\ Done(SeekTo(m, npos), left, "seek", npos)

Truncate(f) == /\ Usable(f)
               /\ \E size \in Sizes, left \in Fates :
                     Done(TruncateCall(Begin(f, left), size), left, "truncate", size)

Sync(f) == /\ Usable(f)
           /\ \E left \in Fates : Done(SyncCall(Begin(f, left)), left, "sync", 0)

(* lfs_file_close_.                                                           *)
Close(f) ==
    /\ More(f)
    /\ h[f].mode # "closed"
    /\ \E left \in Fates : Return(SyncCall(Begin(f, left)), Closed, left, "close", 0)

(* Power is lost; the next mount starts with empty caches.                    *)
PowerCycle ==
    /\ h # [f \in Files |-> Closed]
    /\ Viewed(dev, ent, [f \in Files |-> Closed])
    /\ fs' = Mounted
    /\ io' = Report(Scratch, "cut", 0)
    /\ UNCHANGED <<dev, calls, bads, hurt, misused, stale>>

(* The files at first, as an earlier mount left them: in their entries, or in  *)
(* the blocks from start.first on.                                            *)
Laid(start) ==
    [b \in Blocks |-> [w \in 0 .. BlockSize - 1 |->
        LET i == b - start.first
            p == {q \in 0 .. start.size - 1 : CtzIndex(q) = i /\ CtzOff(q) = w}
        IN IF start.size <= InlineMax \/ i < 0 THEN Erased
           ELSE IF p # {} THEN Min(p) + 1
           ELSE IF i \in 1 .. CtzIndex(start.size - 1) /\ w <= TrailingZeros[i]
                THEN Ptr(b - 2 ^ w)
           ELSE Erased]]
EntryAt(start) ==
    IF start.size <= InlineMax
    THEN [head |-> Inline, size |-> start.size, data |-> [i \in 1 .. start.size |-> i]]
    ELSE [head |-> start.first + CtzIndex(start.size - 1), size |-> start.size,
          data |-> << >>]

Init ==
    \E start \in Starts :
        /\ dev = [b \in Blocks |-> [w \in 0 .. BlockSize - 1 |->
                     Max({Laid(start[f])[b][w] : f \in Files})]]
        /\ ent = [f \in Files |-> EntryAt(start[f])]
        /\ fs = Mounted
        /\ h = [f \in Files |-> Closed]
        /\ io = [call |-> "cut", f |-> "none", arg |-> 0, words |-> << >>, err |-> "ok"]
        /\ calls = [f \in Files |-> 0] /\ bads = 0
        /\ hurt = FALSE /\ misused = FALSE /\ stale = FALSE
        /\ seen = [f \in Files |-> << >>]
        /\ disk = [f \in Files |-> Stored(dev, ent[f])]

Call(f) ==
    \/ \E o \in Opens, k \in {0, PageSize} : Open(f, o.trunc, o.mode, k)
    \/ Read(f) \/ Write(f) \/ Seek(f) \/ Truncate(f) \/ Sync(f) \/ Close(f)

Next == PowerCycle \/ \E f \in Files : Call(f)

Spec == Init /\ [][Next]_vars

-----------------------------------------------------------------------------
(* The caches and the lists are well-formed, and every open file's position    *)
(* in its block is one the block has.                                         *)
TypeOK ==
    /\ \A f \in Files :
          /\ h[f].mode \in {"closed", "rw", "append", "failed"}
          /\ h[f].flags \subseteq {"READING", "WRITING", "DIRTY", "INLINE", "ERRED"}
          /\ h[f].off \in 0 .. BlockSize
          /\ Is(h[f], "INLINE") => SizeOf(h[f]) <= InlineMax /\ h[f].cache.block = Inline
          /\ ent[f].size \in Nat
    /\ fs.la.size <= Lookahead /\ fs.la.next <= fs.la.size /\ fs.la.ckpoint <= BlockCount

(* No call erases or programs a block of what a file's last commit refers to   *)
(* before it has committed itself: power lost anywhere leaves every file.     *)
LiveUntouched == ~hurt

(* A page cache is programmed before it is used for another page, which        *)
(* lfs_bd_prog asserts (262).                                                 *)
CachesFlushed == ~misused

Lists(f) == Blocks \cap (Committed(f) \cup IF h[f].mode = "closed" THEN {} ELSE Listed(h[f]))
(* A block is in the lists of one file: what lfs_alloc hands out is not in     *)
(* any, be it committed, synced but not committed, or being written           *)
(* (lfs_fs_traverse_ 4681-4701).                                              *)
BlocksOwned == \A f, g \in Files : f # g => Lists(f) \cap Lists(g) = {}

(* No cache of reads gives a word that the device does not hold, and rcache    *)
(* promises none, at any point of a flush that reads the old list through a    *)
(* copy of rcache with the same buffer (3321-3350); and what a call leaves in  *)
(* rcache of a block that a file uses is true, though truncate borrows the     *)
(* buffer (3731-3745).                                                        *)
RcacheTrue ==
    /\ ~stale
    /\ fs.rc.block \in UNION {Lists(f) : f \in Files} =>
        fs.rc.buf = Page([dev |-> dev], fs.rc.block, fs.rc.off)

Box == INSTANCE FileBox WITH
    box <- [f \in Files |-> [mode |-> h[f].mode, view |-> seen[f], pos |-> h[f].pos]]
(* Every call reads or changes the words the user of the file expects, and the *)
(* disk changes only at a sync or a close that succeeds, and all at once        *)
(* (lfs_file_sync_ 3389-3438).                                                *)
FilesAreBoxes == Box!Spec
=============================================================================
