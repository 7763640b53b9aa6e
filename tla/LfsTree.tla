------------------------------- MODULE LfsTree ------------------------------
(***************************************************************************)
(* The tree of directories of littlefs as it is changed: files created,     *)
(* directories made, removed and renamed, each by one or several commits to *)
(* metadata pairs, of which any may move its pair to another block, which   *)
(* the parent and the predecessor of the pair must then be told, by commits *)
(* that may move their pairs in turn.  The global state written with the    *)
(* commits says what is half done; power is lost between any two commits    *)
(* (a commit itself is atomic: LfsMdir), and what a mount then finds must   *)
(* be the tree before the call or after it.                                 *)
(*                                                                         *)
(* One action is one commit, with what the code computes up to the next.    *)
(* A call is chosen after lfs_fs_forceconsistency, its paths are found by   *)
(* the directory they end in.  Left out: the superblock entry, its          *)
(* expansion and rewriting, files' data, attributes, handles kept open by   *)
(* the caller, and paths that move a directory into itself.                 *)
(***************************************************************************)
EXTENDS LfsThread

CONSTANTS
    MaxFiles,        \* bound: files in the tree
    Spare,           \* bound: blocks lfs_mkdir_ leaves free
    Traps,           \* bound: the situations below, in which the code goes wrong,
                     \* that may come up
    Budget           \* bound: calls made; commits of the call's own that relocate
                     \* their pair, or of any pair that are compacted; commits of the
                     \* parent's and of the predecessor's that relocate; that split;
                     \* calls after the last of which power is not lost

Costs == {"calls", "call", "parent", "pred", "split", "cuts"}

Situations ==
    {"owed",         \* lfs_mkdir_ is called with global state not yet on the disk
     "repair",       \* lfs_fs_deorphan allocates while it looks for half-orphans
     "demove"}       \* lfs_fs_demove, which comes before lfs_fs_deorphan, drops or
                     \* relocates a pair, and tells a half-orphan

ASSUME TreeAssumption ==
    /\ Budget \in [Costs -> Nat] /\ MaxFiles \in Nat /\ Spare \in Nat
    /\ Traps \subseteq Situations

VARIABLES
    blk,             \* the disk
    gstate, gdisk,   \* lfs->gstate, lfs->gdisk: with the count of orphans
    gdelta,          \* lfs->gdelta, the state of pairs being dropped
    op,              \* the call: its next commit, and its lfs_mdir_t's
    com,             \* the commit that goes on in parent and predecessor
    deo,             \* lfs_fs_deorphan
    taken,           \* blocks allocated by the call
    spent,           \* of the bounds
    tree,            \* history: what a mount would find
    call             \* history: the last call, and whether its effect is not yet seen

ram  == <<gstate, gdisk, gdelta>>
disk == <<blk, tree>>
vars == <<disk, ram, op, com, deo, taken, spent, call>>

NoOp  == [at |-> "idle", h |-> NoHandle, hook |-> NoHandle, name |-> 0,
          pair |-> NoPair, drops |-> FALSE]
NoCom == [at |-> "none", lpair |-> NoPair, ldir |-> NoHandle, orphans |-> FALSE]
NoDeo == [on |-> FALSE, pass |-> 0, pdir |-> NoHandle, more |-> FALSE,
          powerloss |-> FALSE]

-----------------------------------------------------------------------------
(* Nothing goes on but the call; nothing is left to repair.                   *)
Running(at) == op.at = at /\ com = NoCom /\ ~deo.on
Ready == Running("idle") /\ gdisk.moves = {} /\ gstate.orphans = 0

(* The global state in RAM.                                                   *)
OnDisk(gs)     == [orphan |-> gs.orphans > 0, moves |-> gs.moves]
Preps(gs, k)   == [gs EXCEPT !.orphans = @ + k]          \* lfs_fs_preporphans
Announce_Not(gs) == gs                                \* mutant: no orphan is announced
Announce(gs)   == Preps(gs, 1)
PrepMove_Not(gs, h, n) == gs                            \* mutant: no move is announced
PrepMove(gs, h, n) == [gs EXCEPT !.moves = {[pair |-> h.pair, name |-> n]}]
NoMove(gs)     == [gs EXCEPT !.moves = {}]               \* lfs_fs_prepmove

(* What the next commit adds to the global state of its pair.                 *)
Delta_NoDrop(gs, gd) == Xor(OnDisk(gs), OnDisk(gdisk))
Delta(gs, gd)  == Xor(Xor(OnDisk(gs), OnDisk(gdisk)), gd)

(* A commit of content c through handle h, the pieces of a result.            *)
With(h, c, g) == [rev |-> h.m.rev, ents |-> c.ents, tail |-> c.tail,
                  split |-> c.split, g |-> Xor(blk[h.cur].g, g)]
Newer_Not(m)  == m                                    \* mutant: the same revision
Newer(m)      == [m EXCEPT !.rev = @ + 1]
Other(h)      == CHOOSE b \in h.pair : b # h.cur
Free          == Blocks \ (InUse(blk, gdisk.moves) \cup taken)
Lowest(S, k)  == {b \in S : Cardinality({x \in S : x < b}) < k}
Size(ents)    == Cardinality({n \in Names : ents[n] # NoEnt})
Few(ents, S)  == [n \in Names |-> IF n \in S THEN ents[n] ELSE NoEnt]

Spend(what) == [spent EXCEPT ![what] = @ + 1]

Appended(h, c, gs, gd) ==
    LET m == With(h, c, Delta(gs, gd))
    IN [blk |-> [blk EXCEPT ![h.cur] = m], h |-> [h EXCEPT !.m = m],
        moved |-> FALSE, gdisk |-> gs, taken |-> {}, spent |-> spent]

(* lfs_dir_compact: into the other half, which becomes the half in use.       *)
Compacted(h, c, gs, gd) ==
    LET m == Newer(With(h, c, Delta(gs, gd)))
    IN [blk |-> [blk EXCEPT ![Other(h)] = m],
        h |-> [h EXCEPT !.cur = Other(h), !.m = m],
        moved |-> FALSE, gdisk |-> gs, taken |-> {}, spent |-> Spend("call")]

(* ... or into a block in place of it: the global state waits.                *)
Relocated(h, c, gd, b, where) ==
    LET m == Newer(With(h, c, gd))
    IN [blk |-> [blk EXCEPT ![b] = m], h |-> [pair |-> {b, h.cur}, cur |-> b, m |-> m],
        moved |-> TRUE, gdisk |-> gdisk, taken |-> {b},
        spent |-> Spend(where)]

(* lfs_dir_split: the names from the cut on go to a new pair, and with them   *)
(* the global state, then the rest is compacted.                              *)
SplitOff(h, c, gs, gd, cut, t) ==
    LET low  == {n \in Names : n < cut}
        high == [rev |-> 1, ents |-> Few(c.ents, Names \ low), tail |-> c.tail,
                 split |-> c.split, g |-> Delta(gs, gd)]
        new  == CHOOSE b \in t : TRUE
        rest == [ents |-> Few(c.ents, low), tail |-> t, split |-> TRUE]
        m    == Newer(With(h, rest, NoG))
    IN [blk |-> [[[blk EXCEPT ![new] = high] EXCEPT ![CHOOSE b \in t : b # new] = Empty]
                    EXCEPT ![Other(h)] = m],
        h |-> [h EXCEPT !.cur = Other(h), !.m = m],
        moved |-> FALSE, gdisk |-> gs, taken |-> t, spent |-> Spend("split")]

(* lfs_dir_relocatingcommit, what may become of it.                           *)
HalfOrphans  == {x \in Range(Thread(blk)) :
                    x \notin Linked(blk) /\ Parents(blk, {}, x.pair) # {}}
Undoing      == Running("idle") /\ gdisk.moves # {}
Allocates    == /\ ~(deo.powerloss /\ deo.pass = 0) \/ "repair" \in Traps
                /\ ~(Undoing /\ HalfOrphans # {}) \/ "demove" \in Traps
Within(what) == spent[what] < Budget[what]
Cuts(ents)   == {n \in Names : ents[n] # NoEnt /\ Size(Few(ents, 0 .. n - 1)) > 0}

Commits(h, c, gs, gd, where) ==
    {Appended(h, c, gs, gd)}
    \cup {Compacted(h, c, gs, gd) : b \in {x \in {h.cur} : Within("call")}}
    \cup {Relocated(h, c, gd, b, where) :
             b \in {x \in Lowest(Free, 1) : Within(where) /\ Allocates /\ h.pair # Root}}
    \cup {SplitOff(h, c, gs, gd, cut, Lowest(Free, 2)) :
             cut \in {x \in Cuts(c.ents) : Within("split") /\ Allocates /\ Cardinality(Free) > 1}}

(* The handle on lfs->mlist follows its pair.                                 *)
Hooked_Not(o, old, h) == o                            \* mutant: open handles are not told
Hooked(o, old, h) ==
    IF Overlap(o.hook.pair, old) THEN [o EXCEPT !.hook = h] ELSE o

Mounted(b) == Tree(b, GState(b).moves)

(* What no pair leads to is not read again: forgotten, to have fewer states.  *)
Held == UNION {op.h.pair, op.hook.pair, op.pair, com.lpair, com.ldir.pair, deo.pdir.pair}
LedTo(b) == InUse(b, {}) \cup UNION {h.pair : h \in Linked(b)}
Tidy(b, new) == LET kept == LedTo(b) \cup Held \cup taken \cup new
                IN [x \in Blocks |-> IF x \in kept THEN b[x] ELSE Empty]

Put(r, gs) == /\ blk' = Tidy(r.blk, r.taken) /\ tree' = Mounted(r.blk)
              /\ gstate' = gs /\ gdisk' = r.gdisk /\ gdelta' = NoG
              /\ spent' = IF Ready THEN [r.spent EXCEPT !["calls"] = @ + 1] ELSE r.spent

(* The blocks a call has allocated are in use until it returns.               *)
Took(more) == taken' = IF op'.at = "idle" /\ com' = NoCom /\ ~deo'.on THEN {}
                       ELSE taken \cup more
-----------------------------------------------------------------------------
(* lfs_dir_orphaningcommit has ended: its caller goes on, which is            *)
(* lfs_fs_deorphan, or lfs_dir_commit, which starts it if need be.            *)
StartPdir == [NoHandle EXCEPT !.m.split = TRUE, !.m.tail = Root]

Return(orphans, gs, d) ==
    /\ com' = NoCom
    /\ deo' = IF d.on THEN [d EXCEPT !.more = @ \/ orphans]
              ELSE IF orphans /\ gs.orphans > 0
              THEN [NoDeo EXCEPT !.on = TRUE, !.pdir = StartPdir]
              ELSE NoDeo

(* Its first commit, to the pair of h, or when that leaves a pair in the      *)
(* middle of a directory empty, to the predecessor, dropping it.              *)
Drops(h, c, deletes) ==
    /\ deletes /\ Size(c.ents) = 0
    /\ \E p \in Preds(blk, h.pair) : p.m.split

Start(h, c, deletes, gs, gd, o, d) ==
    LET drops == Drops(h, c, deletes)
        to    == IF drops THEN The(Preds(blk, h.pair)) ELSE h
        cc    == IF drops THEN [ents |-> to.m.ents, tail |-> c.tail, split |-> c.split]
                 ELSE c
        gdd   == IF drops THEN Xor(gd, blk[h.cur].g) ELSE gd
    IN \E r \in Commits(to, cc, gs, gdd, "call") :
         LET dd == IF d.on THEN [d EXCEPT !.pdir = r.h] ELSE d IN
         /\ Put(r, gs)
         /\ op' = Hooked(o, to.pair, r.h)
         /\ IF r.moved
            THEN /\ com' = [at |-> "parent", lpair |-> to.pair, ldir |-> r.h,
                            orphans |-> FALSE]
                 /\ deo' = dd
            ELSE Return(FALSE, gs, dd)
         /\ Took(r.taken)

(* The commit that tells the parent of a relocated pair.                      *)
TellParent ==
    LET found == Parents(blk, gdisk.moves, com.lpair)
        p     == The(found)
        n     == CHOOSE x \in Entries(p, gdisk.moves, com.lpair) : TRUE
        here  == MoveHere(gstate.moves, p.pair)
        gs    == IF here = {} THEN Announce(gstate) ELSE NoMove(Announce(gstate))
        c     == [p.m EXCEPT !.ents = [Few(@, Names \ here) EXCEPT ![n].pair = com.ldir.pair]]
    IN /\ com.at = "parent" /\ found # {}
       /\ \E r \in Commits(p, c, gs, gdelta, "parent") :
            /\ Put(r, gs)
            /\ op' = Hooked(op, p.pair, r.h)
            /\ com' = IF r.moved
                      THEN [at |-> "parent", lpair |-> p.pair, ldir |-> r.h, orphans |-> TRUE]
                      ELSE [com EXCEPT !.at = "pred"]
            /\ UNCHANGED deo
            /\ Took(r.taken)

(* The commit that tells its predecessor.                                     *)
TellPred ==
    LET found == Preds(blk, com.lpair)
        p     == The(found)
        here  == MoveHere(gstate.moves, p.pair)
        gs1   == IF com.at = "pred" /\ gstate.orphans > 0 THEN Preps(gstate, -1) ELSE gstate
        gs    == IF here = {} THEN gs1 ELSE NoMove(gs1)
        c     == [p.m EXCEPT !.ents = Few(@, Names \ here), !.tail = com.ldir.pair]
    IN /\ \/ com.at = "pred"
          \/ com.at = "parent" /\ Parents(blk, gdisk.moves, com.lpair) = {}
       /\ IF found = {}
          THEN /\ Return(com.orphans, gstate, deo)
               /\ UNCHANGED <<disk, ram, op, spent>>
               /\ Took({})
          ELSE IF here # {} /\ Size(c.ents) = 0        \* LFS_ASSERT(pdir)
          THEN /\ op' = [NoOp EXCEPT !.at = "assert"] /\ com' = NoCom /\ deo' = NoDeo
               /\ UNCHANGED <<disk, ram, taken, spent>>
          ELSE \E r \in Commits(p, c, gs, gdelta, "pred") :
               /\ Put(r, gs)
               /\ op' = Hooked(op, p.pair, r.h)
               /\ IF r.moved
                  THEN /\ com' = [com EXCEPT !.at = "parent", !.lpair = p.pair, !.ldir = r.h]
                       /\ UNCHANGED deo
                  ELSE Return(com.orphans, gs, deo)
               /\ Took(r.taken)
-----------------------------------------------------------------------------
(* lfs_fs_deorphan: one link of the thread, or the end of a pass.             *)
Passes_One  == 1                                      \* mutant: orphans are not looked for
Passes      == 2                                     \* half-orphans, orphans
NextPass_Again(d) == 0                                \* mutant: begins with half-orphans again
NextPass(d) == IF d.more THEN 0 ELSE d.pass + 1
Deorphan ==
    LET pdir  == deo.pdir
        dir   == Fetch(blk, pdir.m.tail)
        found == Parents(blk, gdisk.moves, pdir.m.tail)
        p     == The(found)
        pair  == p.m.ents[CHOOSE x \in Entries(p, gdisk.moves, pdir.m.tail) : TRUE].pair
        here  == MoveHere(gstate.moves, pdir.pair)
        kept  == Few(pdir.m.ents, Names \ here)
        pass  == NextPass(deo)
    IN /\ deo.on /\ com = NoCom
       /\ IF pdir.m.tail = NoPair
          THEN /\ IF pass = Passes
                  THEN /\ deo' = NoDeo /\ gstate' = [gstate EXCEPT !.orphans = 0]
                  ELSE /\ deo' = [deo EXCEPT !.pass = pass, !.pdir = StartPdir, !.more = FALSE]
                       /\ UNCHANGED gstate
               /\ UNCHANGED <<disk, gdisk, gdelta, op, com, spent>>
               /\ Took({})
          ELSE IF ~pdir.m.split /\ deo.pass = 0 /\ found # {} /\ pair # dir.pair
          THEN Start(pdir, [pdir.m EXCEPT !.ents = kept, !.tail = pair, !.split = FALSE],
                     here # {}, IF here = {} THEN gstate ELSE NoMove(gstate), gdelta, op, deo)
          ELSE IF ~pdir.m.split /\ deo.pass = 1 /\ found = {} /\ deo.powerloss
          THEN Start(pdir, [pdir.m EXCEPT !.tail = dir.m.tail, !.split = dir.m.split],
                     FALSE, gstate, Xor(gdelta, dir.m.g), op, deo)
          ELSE /\ deo' = [deo EXCEPT !.pdir = dir]
               /\ UNCHANGED <<disk, ram, op, com, taken, spent>>
-----------------------------------------------------------------------------
(* The calls.                                                                 *)
(* What is asked, and whether the first commit does not yet show it.          *)
Asks(does, p, q) ==
    call' = [n |-> call.n + 1, does |-> does, path |-> p, to |-> q,
             due |-> does # "nothing" /\ tree' = tree]
(* The other commits of the call, and of a repair before the next.            *)
Awaits == call' = [call EXCEPT !.due = @ /\ tree' = tree]
CallLost == call' = [call EXCEPT !.due = FALSE]

(* lfs_fs_forceconsistency comes before every call: lfs_fs_demove,            *)
Demove ==
    LET v == CHOOSE x \in gdisk.moves : TRUE
        h == Fetch(blk, v.pair)
    IN /\ Undoing
       /\ Start(h, [h.m EXCEPT !.ents[v.name] = NoEnt], TRUE, NoMove(gstate), gdelta,
                NoOp, deo)

(* ... then lfs_fs_deorphan.                                                  *)
ForceDeorphan ==
    /\ Running("idle") /\ gdisk.moves = {} /\ gstate.orphans > 0
    /\ deo' = [NoDeo EXCEPT !.on = TRUE, !.pdir = StartPdir, !.powerloss = TRUE]
    /\ UNCHANGED <<disk, ram, op, com, taken, spent>>

Dirs == {x \in Nodes(blk, gdisk.moves) : x.ent.type = "dir"}
FindIn(d, n) == Find(Chain(blk, d.ent.pair), gdisk.moves, n)
Regs == {x \in Nodes(blk, gdisk.moves) : x.ent.type # "dir"}
Present(h, n) == n \in Has(h, gdisk.moves)

(* lfs_file_opencfg_ with LFS_O_CREAT *)
Create(d, n) ==
    LET h == FindIn(d, n) IN
    /\ Ready /\ ~Present(h, n) /\ Cardinality(Regs) < MaxFiles
    /\ \E f \in Files : Start(h, [h.m EXCEPT !.ents[n] = Reg(f)], FALSE, gstate, gdelta,
                              NoOp, deo)
    /\ Asks("create", Append(d.path, n), << >>)

(* lfs_mkdir_: the new pair's own commit; it is not on the thread.            *)
lfs_mkdir_(d, n) ==
    LET h    == FindIn(d, n)
        end  == Last(Chain(blk, d.ent.pair))
        pair == Lowest(Free, 2)
        cur  == CHOOSE b \in pair : TRUE
        g    == Delta(gstate, gdelta)
    IN /\ Ready /\ ~Present(h, n) /\ Cardinality(Free) >= 2 + Spare
       /\ "owed" \in Traps \/ OnDisk(gstate) = OnDisk(gdisk)
       /\ UNCHANGED tree
       /\ blk' = [b \in Blocks |->
                    CASE b = cur -> [Empty EXCEPT !.rev = 1, !.tail = end.m.tail, !.g = g]
                      [] b \in pair \ {cur} -> Empty
                      [] OTHER -> blk[b]]
       /\ gdisk' = gstate /\ gdelta' = NoG /\ taken' = pair
       /\ op' = IF h.m.split THEN [NoOp EXCEPT !.at = "link", !.h = end, !.hook = h,
                                               !.name = n, !.pair = pair]
                ELSE [NoOp EXCEPT !.at = "add", !.hook = h, !.name = n, !.pair = pair]
       /\ spent' = Spend("calls")
       /\ UNCHANGED <<gstate, com, deo>>
       /\ Asks("mkdir", Append(d.path, n), << >>)

(* ... into the thread first, when the directory is split *)
MkdirLink ==
    /\ Running("link")
    /\ Start(op.h, [op.h.m EXCEPT !.tail = op.pair, !.split = FALSE], FALSE,
             Announce(gstate), gdelta, [op EXCEPT !.at = "unlink", !.h = NoHandle], deo)

Abort == /\ op' = [NoOp EXCEPT !.at = "assert"]
         /\ UNCHANGED <<disk, ram, com, deo, taken, spent>>

(* ... and into the directory *)
MkdirAdd ==
    LET h  == op.hook
        gs == IF op.at = "unlink" THEN Preps(gstate, -1) ELSE gstate
        c0 == [h.m EXCEPT !.ents[op.name] = Dir(op.pair)]
        c  == IF h.m.split THEN c0 ELSE [c0 EXCEPT !.tail = op.pair]
    IN /\ Running("unlink") \/ Running("add")
       /\ IF gs.orphans < 0 THEN Abort ELSE Start(h, c, FALSE, gs, gdelta, NoOp, deo)

(* lfs_remove_ *)
EmptyDir(e) == LET h == Fetch(blk, e.pair) IN Size(h.m.ents) = 0 /\ ~h.m.split

lfs_remove_(d, n) ==
    LET h     == FindIn(d, n)
        e     == h.m.ents[n]
        isdir == e.type = "dir"
    IN /\ Ready /\ Present(h, n) /\ (isdir => EmptyDir(e))
       /\ Start(h, [h.m EXCEPT !.ents[n] = NoEnt], TRUE,
                IF isdir THEN Announce(gstate) ELSE gstate, gdelta,
                IF isdir THEN [NoOp EXCEPT !.at = "drop", !.hook = Fetch(blk, e.pair)]
                ELSE NoOp, deo)
       /\ Asks("remove", Append(d.path, n), << >>)

(* lfs_rename_, into the directory of the new name; with a move to pick up    *)
(* when the old name is in another pair.                                      *)
lfs_rename_(d, n, nd, nn) ==
    LET h    == FindIn(d, n)
        to   == FindIn(nd, nn)
        e    == h.m.ents[n]
        prev == to.m.ents[nn]
        over == Present(to, nn)
        same == Overlap(h.pair, to.pair)
        isdir == over /\ prev.type = "dir"
        gs1  == IF isdir THEN Announce(gstate) ELSE gstate
        gs   == IF same THEN gs1 ELSE PrepMove(gs1, h, n)
        put  == [to.m.ents EXCEPT ![nn] = e]
    IN /\ Ready /\ Present(h, n) /\ <<d, n>> # <<nd, nn>>
       /\ ~IsPrefix(Append(d.path, n), nd.path)
       /\ over => (prev.type = "dir") = (e.type = "dir")
       /\ isdir => EmptyDir(prev)
       /\ Start(to, [to.m EXCEPT !.ents = IF same THEN [put EXCEPT ![n] = NoEnt] ELSE put],
                same \/ over, gs, gdelta,
                [NoOp EXCEPT !.at = IF same /\ ~isdir THEN "idle"
                                    ELSE IF same THEN "drop" ELSE "old",
                             !.h = IF same THEN NoHandle ELSE h, !.name = IF same THEN 0 ELSE n,
                             !.hook = IF isdir THEN Fetch(blk, prev.pair) ELSE NoHandle,
                             !.drops = isdir], deo)
       /\ Asks("rename", Append(d.path, n), Append(nd.path, nn))

(* ... and out of the directory of the old                                    *)
RenameOld ==
    LET next == IF op.drops THEN [op EXCEPT !.at = "drop", !.h = NoHandle, !.name = 0]
                ELSE NoOp
    IN /\ Running("old")
       /\ IF gstate.moves = {}
          THEN op' = next /\ UNCHANGED <<disk, ram, com, deo, spent>> /\ Took({})
          ELSE Start(op.h, [op.h.m EXCEPT !.ents[op.name] = NoEnt], TRUE,
                     NoMove(gstate), gdelta, next, deo)

(* The end of a remove, or of a rename onto a directory: lfs_dir_drop.        *)
Drop ==
    LET dir   == op.hook
        gs    == Preps(gstate, -1)
        found == Preds(blk, dir.pair)
        p     == The(found)
    IN /\ Running("drop")
       /\ IF gs.orphans < 0 THEN Abort
          ELSE IF found = {}
          THEN /\ op' = NoOp /\ gstate' = gs
               /\ UNCHANGED <<disk, gdisk, gdelta, com, deo, spent>> /\ Took({})
          ELSE Start(p, [p.m EXCEPT !.tail = dir.m.tail, !.split = dir.m.split], FALSE,
                     gs, Xor(gdelta, dir.m.g), NoOp, deo)

(* lfs_fs_mkconsistent_ *)
MkConsistent ==
    LET h == Fetch(blk, Root) IN
    /\ Ready /\ gdisk # gstate
    /\ Start(h, h.m, FALSE, gstate, gdelta, NoOp, deo)
    /\ Asks("nothing", << >>, << >>)

Call == Within("calls") /\
        \/ MkConsistent
        \/ \E d \in Dirs, n \in Names :
              \/ Create(d, n) \/ lfs_mkdir_(d, n) \/ lfs_remove_(d, n)
              \/ \E nd \in Dirs, nn \in Names : lfs_rename_(d, n, nd, nn)

(* The pair that a move undone would leave empty hangs on a half-orphan.       *)
DropsFromOrphan(v) ==
    LET h == Fetch(blk, v.pair)
    IN /\ Drops(h, [h.m EXCEPT !.ents[v.name] = NoEnt], TRUE)
       /\ The(Preds(blk, h.pair)) \in HalfOrphans

(* Power is lost, and lfs_mount_ reads the thread.                            *)
PowerCycle ==
    LET g  == GState(blk)
        gs == [orphans |-> IF g.orphan THEN 1 ELSE 0, moves |-> g.moves]
    IN /\ spent["calls"] <= Budget["cuts"]
       /\ "demove" \in Traps \/ \A v \in g.moves : ~DropsFromOrphan(v)
       /\ gstate' = gs /\ gdisk' = gs /\ gdelta' = NoG /\ taken' = {}
       /\ op' = NoOp /\ com' = NoCom /\ deo' = NoDeo
       /\ CallLost
       /\ UNCHANGED <<disk, spent>>

(* Nothing is asked of it.                                                    *)
Busy == ~Ready /\ op.at # "assert"
Rest == ~Busy /\ UNCHANGED vars

Continues == \/ Demove \/ ForceDeorphan \/ MkdirLink \/ MkdirAdd
             \/ RenameOld \/ Drop \/ TellParent \/ TellPred \/ Deorphan
Step == \/ Call
        \/ Continues /\ Awaits

Init ==
    /\ blk = [[b \in Blocks |-> Empty] EXCEPT ![0].rev = 1]
    /\ gstate = [orphans |-> 0, moves |-> {}] /\ gdisk = gstate /\ gdelta = NoG
    /\ op = NoOp /\ com = NoCom /\ deo = NoDeo
    /\ taken = {} /\ tree = Mounted(blk)
    /\ spent = [what \in Costs |-> 0]
    /\ call = [n |-> 0, does |-> "nothing", path |-> << >>, to |-> << >>, due |-> FALSE]

Next == Step \/ PowerCycle \/ Rest

Spec == Init /\ [][Next]_vars

(* The one thread of the firmware goes on: WF_vars(Step), with ENABLED Step    *)
(* written as Busy, which is what the absence of deadlock shows it to be.      *)
FairSpec == Spec /\ ([]<>~Busy \/ []<><<Step>>_vars)
-----------------------------------------------------------------------------
(* The counts and sets stay what they can be: an orphan is never taken back   *)
(* that was not announced, one move at most is under way, and of the halves   *)
(* of a pair one is the newer.                                                *)
TypeOK ==
    /\ \A b \in Blocks : blk[b].tail \subseteq Blocks
    /\ \A b \in Blocks, n \in Names : blk[b].ents[n].pair \subseteq Blocks
    /\ \A h \in Range(Thread(blk)) : Cardinality({blk[b].rev : b \in h.pair}) = 2
    /\ gstate.orphans \in Nat /\ Cardinality(gstate.moves) <= 1
    /\ gdisk.orphans \in Nat /\ Cardinality(gdisk.moves) <= 1

Atomic == INSTANCE NameTree
(* A call happens as a whole: whichever of its commits, and of the repairs    *)
(* after it, power is lost between, what a mount finds changes once, by what  *)
(* that call was asked to do, or, if power was lost before, not at all; a     *)
(* rename never shows both of its names, nor neither, and what a repair takes *)
(* out was not there (lfs_remove_, lfs_rename_, lfs_mkdir_, 2589-4050).       *)
CallsAtomic == Atomic!Spec

(* A repair shows nothing: over lfs_fs_deorphan and lfs_fs_demove, and power  *)
(* lost in them and a mount, the tree found is the tree left (4877-5038).     *)
RepairsSilent == [][deo.on \/ Undoing => tree' = tree]_vars

Reached == {x.ent.pair : x \in Dirs}
Heads == LET t == Thread(blk) IN
    {t[i].pair : i \in {j \in DOMAIN t : j = 1 \/ ~t[j - 1].m.split}}
(* Before a call the two ways to find a directory agree: the pairs that start *)
(* a directory on the thread are those the entries of the tree lead to, as    *)
(* lfs_fs_forceconsistency (5044) leaves them.                                *)
Consistent == Ready => Heads = Reached

(* At any point, if they do not, a mount is told to look for it.              *)
Told == Heads # Reached => GState(blk).orphan \/ GState(blk).moves # {}

(* What the driver takes the global state on the disk to be is what a mount   *)
(* would add up, after any mix of commits, drops and splits.                  *)
GStateRead == Ready => GState(blk) = OnDisk(gdisk)

Repairs == \/ deo.powerloss /\ deo.pass = 0
           \/ Running("idle") /\ gdisk.moves = {} /\ gstate.orphans > 0
(* Whenever a block may be allocated, but for the search for half-orphans     *)
(* (the situation "repair"), the allocator avoids all that a path leads to:   *)
(* what lfs_fs_traverse_ (4632-4674) finds by the thread and by the entries.  *)
TreeInUse ==
    ~Repairs => UNION {h.pair : h \in Linked(blk)} \subseteq InUse(blk, gdisk.moves) \cup taken

Fresh(h) == h.pair # NoPair => h.m = blk[h.cur]
(* A handle kept over a commit to other pairs is up to date when the next     *)
(* commit goes through it, the one of the old name too, which is not on       *)
(* lfs->mlist (3999-4008).                                                    *)
HandlesFresh ==
    /\ Running("link") => Fresh(op.h)
    /\ Running("link") \/ Running("unlink") \/ Running("add") \/ Running("drop") => Fresh(op.hook)
    /\ Running("old") /\ gstate.moves # {} => Fresh(op.h)

(* A call, its repairs and all the relocations they set off come to an end,   *)
(* or to a failed assertion, unless power is lost again and again.            *)
CallsEnd == <>[][~PowerCycle]_vars => []<>~Busy
=============================================================================
