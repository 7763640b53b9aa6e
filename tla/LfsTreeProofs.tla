---------------------------- MODULE LfsTreeProofs ---------------------------
(***************************************************************************)
(* Proofs about the tree of directories, for every number of blocks, names,  *)
(* files and calls, with power lost at any point: files and directories are  *)
(* made, removed and renamed, repaired after power was lost, compacted and   *)
(* split, as long as no commit relocates its pair: [](com = NoCom).  What     *)
(* a relocation does in the parent and the predecessor is left to TLC.       *)
(*                                                                         *)
(* Each action is shown to keep the invariant, Inv of LfsCommitProofs, and    *)
(* to change the tree of names by a step of NameTree or not at all: what a    *)
(* compaction, a split, a directory linked in before its entry or a repair    *)
(* does to the thread leaves the tree as it was.                             *)
(***************************************************************************)
EXTENDS LfsCommitProofs

(* A new file system is in order.                                             *)
LEMMA InitInv == Init => Inv
<1> SUFFICES ASSUME Init PROVE Inv
  OBVIOUS
<1> DEFINE b == [[c \in Blocks |-> Empty] EXCEPT ![0].rev = 1]
           P == [k \in 1 .. 1 |-> Root]
           m == [Empty EXCEPT !.rev = 1]
           C == [q \in {Root} |-> m]
<1>1. blk = b /\ gdelta = NoG /\ op = NoOp /\ deo = NoDeo
      /\ gstate = [orphans |-> 0, moves |-> {}] /\ gdisk = gstate
  BY DEF Init
<1>2. NoG \in Gs /\ Xor(NoG, NoG) = NoG
  <2>1. NoG \in Gs
    BY DEF NoG, Gs
  <2> QED
    BY <2>1, XorWith
<1>3. Empty \in Contents /\ m \in Contents
  BY <1>2 DEF Empty, Contents, NoEnt, NoPair, Ents, Kinds
<1>4. /\ m.rev = 1 /\ m.tail = {} /\ m.split = FALSE /\ m.g = NoG /\ Empty.rev = 0
      /\ \A a \in Names : m.ents[a] = NoEnt
  BY DEF Empty, NoPair
<1> HIDE DEF m
<1>5. Root \in Pairs /\ 0 \in Root /\ 0 \in Blocks /\ 1 \in Blocks
  BY ThreadAssumption DEF Root, Pairs
<1>6. b \in Disks /\ b[0] = m /\ b[1] = Empty
  BY <1>3, <1>5 DEF Disks, m
<1> HIDE DEF b
<1>7. Settled(b, Root) /\ Fetch(b, Root).m = m
  <2>1. b[0].rev = 1 /\ \A d \in Root : d # 0 => b[d].rev = 0
    BY <1>4, <1>6 DEF Root
  <2> QED
    BY <1>5, <1>6, <2>1, WritePair
<1>8. C[Root] = m /\ P[1] = Root /\ P \in [1 .. 1 -> Pairs] /\ \A k \in 1 .. 1 : k = 1 /\ P[k] = Root
  BY <1>5
<1>9. Along(1, P, C) = [k \in 1 .. 1 |-> m]
  BY <1>8 DEF Along
<1> HIDE DEF P, C
<1>10. Line(1, P, Along(1, P, C))
  BY <1>3, <1>4, <1>8, <1>9 DEF Line, NoPair
<1>11. PairsOf(1, P) = {Root} /\ Hards(1, P, C) = {}
  BY <1>8 DEF PairsOf, Hards
<1>12. Fits({Root}, {}, C, {})
  BY <1>4, <1>8 DEF Fits, Aims, Once, Orphans, Shown, Leads, NoEnt
<1>13. Adds(1, Along(1, P, C), NoG)
  <2> DEFINE s == [k \in 0 .. 1 |-> NoG]
  <2>1. s \in [0 .. 1 -> Gs] /\ s[0] = NoG /\ s[1] = NoG
    BY <1>2
  <2>2. \A k \in 1 .. 1 : k = 1 /\ k - 1 = 0 /\ Along(1, P, C)[k].g = NoG
    BY <1>4, <1>9
  <2> HIDE DEF s
  <2>3. \A k \in 1 .. 1 : s[k] = Xor(s[k - 1], Along(1, P, C)[k].g)
    BY <1>2, <2>1, <2>2
  <2> QED
    BY <2>1, <2>3 DEF Adds
<1>14. OnDisk(gdisk) = NoG /\ gdisk.moves = {} /\ gdisk \in Rams /\ gstate = gdisk
  <2>1. gdisk.orphans = 0 /\ gdisk.moves = {}
    BY <1>1
  <2>2. (gdisk.orphans > 0) = FALSE
    BY <2>1
  <2>3. gdisk \in Rams
    BY <1>1 DEF Rams
  <2> QED
    BY <1>1, <2>1, <2>2, <2>3 DEF OnDisk, NoG
<1>15. Owed = NoG
  BY <1>1 DEF Owed, NoOp
<1>16. Plan(1, P, C, {}, NoG)
  BY <1>2, <1>10, <1>11, <1>12, <1>13 DEF Plan
<1>17. Reads(blk, 1, P, C)
  BY <1>1, <1>7, <1>8 DEF Reads
<1>18. Xor(OnDisk(gdisk), Owed) = NoG
  BY <1>2, <1>14, <1>15
<1>19. Whole(1, P, C) /\ OpInv(1, P, C)
  BY <1>1, <1>14, <1>16, <1>17, <1>18 DEF Whole, OpInv
<1>20. RamInv
  <2>1. tree = Mounted(blk)
    BY DEF Init
  <2> QED
    BY <1>1, <1>6, <1>14, <2>1 DEF RamInv
<1>21. Knit(1, P, C)
  <2>1. Tied({Root}, {}, C, {}, {})
    BY DEF Tied, Closed
  <2>2. Loose(1, P, {})
    BY <1>1 DEF Loose, NoOp, NoDeo
  <2>3. Sorted({Root}, C)
    BY <1>4, <1>8 DEF Sorted
  <2> QED
    BY <1>11, <1>14, <2>1, <2>2, <2>3 DEF Knit, Ties
<1> QED
  BY <1>1, <1>19, <1>20, <1>21 DEF Inv

(* The sum of the deltas on the thread, at any point of a call.               *)
LEMMA SumRead ==
    ASSUME RamInv, NEW n, NEW P, NEW C, Whole(n, P, C), OpInv(n, P, C)
    PROVE  /\ GState(blk) = Xor(OnDisk(gdisk), Owed) /\ GState(blk) \in Gs
           /\ GState(blk).moves = gdisk.moves
<1> DEFINE x == Xor(OnDisk(gdisk), Owed)
<1>1. Plan(n, P, C, gdisk.moves, x) /\ Reads(blk, n, P, C) /\ x \in Gs
  BY DEF Whole, Plan
<1>2. Owed.moves = {}
  <2>1. CASE op.at \in {"link", "add"}
    <3>1. OpInv(n, P, C) => Linking(n, P, C) \/ Adding(n, P, C)
      BY <2>1 DEF OpInv, NoOp, Unlinking, Renaming, Dropping
    <3> QED
      BY <2>1, <3>1 DEF Owed, Linking, Adding, New
  <2>2. CASE op.at \notin {"link", "add"}
    BY <2>2 DEF Owed, NoG
  <2> QED
    BY <2>1, <2>2
<1>3. x.moves = gdisk.moves
  <2>1. OnDisk(gdisk).moves = gdisk.moves
    BY DEF OnDisk
  <2>2. x.moves = (OnDisk(gdisk).moves \ Owed.moves) \cup (Owed.moves \ OnDisk(gdisk).moves)
    BY DEF Xor
  <2> HIDE DEF x
  <2> QED
    BY <1>2, <2>1, <2>2
<1> HIDE DEF x
<1>4. GState(blk) = x
  <2>1. Threaded(blk, n, P) /\ Ms(blk, n, P) = Along(n, P, C)
    BY <1>1, ReadsThread DEF Plan
  <2> QED
    BY <1>1, <2>1, GStateIs DEF Plan, RamInv
<1> QED
  BY <1>1, <1>3, <1>4 DEF x

(* What a mount reads, after power was lost at any point, is in order: an     *)
(* unfinished call leaves a move, an orphan on the thread, or a pair off it.  *)
LEMMA PowerCycleInv == ASSUME Inv, PowerCycle PROVE Inv'
<1>1. PICK n, P, C : Whole(n, P, C) /\ OpInv(n, P, C) /\ Knit(n, P, C)
  BY DEF Inv
<1> DEFINE g  == GState(blk)
           x  == Xor(OnDisk(gdisk), Owed)
           gs == [orphans |-> IF g.orphan THEN 1 ELSE 0, moves |-> g.moves]
<1>2. /\ gstate' = gs /\ gdisk' = gs /\ gdelta' = NoG /\ op' = NoOp /\ deo' = NoDeo
      /\ blk' = blk /\ tree' = tree
  BY DEF PowerCycle, disk
<1>3. Plan(n, P, C, gdisk.moves, x) /\ Reads(blk, n, P, C) /\ x \in Gs
  BY <1>1 DEF Whole, Plan
<1>4. RamInv /\ OnDisk(gdisk) \in Gs
  BY OnDiskTyped DEF Inv, RamInv
<1>5. x.moves = gdisk.moves /\ g = x
  BY <1>1, <1>4, SumRead
<1> HIDE DEF x
<1> HIDE DEF g
<1>6. gs \in Rams /\ gs.moves = gdisk.moves /\ OnDisk(gs) = x
  <2>1. x.orphan \in BOOLEAN /\ x.moves \in SUBSET Moves /\ x = [orphan |-> x.orphan, moves |-> x.moves]
    BY <1>3 DEF Gs
  <2>2. gs \in Rams /\ gs.moves = gdisk.moves
    BY <1>5, <2>1 DEF Rams
  <2>3. (gs.orphans > 0) = x.orphan
    BY <1>5, <2>1
  <2> QED
    BY <1>5, <2>1, <2>2, <2>3 DEF OnDisk
<1> HIDE DEF gs
<1>7. Plan(n, P, C, gs.moves, OnDisk(gs)) /\ Reads(blk', n, P, C) /\ blk' \in Disks
  BY <1>2, <1>3, <1>4, <1>6 DEF RamInv
<1>8. \A v, w \in gs.moves : v = w
  BY <1>4, <1>6 DEF RamInv
<1>9. Knots(n, P, C, gs.moves, gs)
  <2>1. PICK K : Ties(n, P, C, gdisk.moves, K) /\ Loose(n, P, K)
    BY <1>1 DEF Knit
  <2>2. ASSUME K # {} PROVE gs.orphans > 0
    <3>1. gdisk.orphans > 0 /\ op.at \notin {"link", "add"}
      BY <1>4, <2>1, <2>2 DEF Loose, RamInv
    <3>2. Owed = NoG
      BY <3>1 DEF Owed
    <3>3. x = OnDisk(gdisk)
      BY <1>4, <3>2, XorWith DEF x
    <3>4. OnDisk(gs).orphan = OnDisk(gdisk).orphan
      BY <1>6, <3>3
    <3> QED
      BY <3>1, <3>4 DEF OnDisk
  <2> QED
    BY <1>6, <2>1, <2>2 DEF Knots
<1>10. Moved(gs)
  <2>1. tree = Mounted(blk)
    BY <1>4 DEF RamInv
  <2> QED
    BY <1>2, <2>1 DEF Moved
<1> QED
  BY <1>2, <1>6, <1>7, <1>8, <1>9, <1>10, IdleAgain

(* lfs_fs_deorphan starts.                                                    *)
LEMMA ForceDeorphanInv == ASSUME Inv, ForceDeorphan PROVE Inv'
<1>1. /\ Running("idle") /\ gdisk.moves = {} /\ deo' = Deo(0, StartPdir)
      /\ UNCHANGED <<blk, tree, gstate, gdisk, gdelta, op, taken>>
  <2> DEFINE R(a, x, m, c) == [on |-> a, pass |-> 0, pdir |-> x, more |-> m, powerloss |-> c]
  <2>1. PICK f, t : f = FALSE /\ t = TRUE
    OBVIOUS
  <2>2. NoDeo = R(f, NoHandle, f, f)
    BY <2>1, Zenon DEF NoDeo
  <2>3. Deo(0, StartPdir) = R(t, StartPdir, f, t)
    BY <2>1, Zenon DEF Deo
  <2>4. [R(f, NoHandle, f, f) EXCEPT !.on = t] = R(t, NoHandle, f, f)
    OBVIOUS
  <2>5. [R(t, NoHandle, f, f) EXCEPT !.pdir = StartPdir] = R(t, StartPdir, f, f)
    OBVIOUS
  <2>6. [R(t, StartPdir, f, f) EXCEPT !.powerloss = t] = R(t, StartPdir, f, t)
    OBVIOUS
  <2> HIDE DEF R
  <2>7. [[[NoDeo EXCEPT !.on = t] EXCEPT !.pdir = StartPdir] EXCEPT !.powerloss = t] = Deo(0, StartPdir)
    BY <2>2, <2>3, <2>4, <2>5, <2>6
  <2>8. [NoDeo EXCEPT !.on = t, !.pdir = StartPdir, !.powerloss = t]
          = [[[NoDeo EXCEPT !.on = t] EXCEPT !.pdir = StartPdir] EXCEPT !.powerloss = t]
    OBVIOUS
  <2>9. [NoDeo EXCEPT !.on = TRUE, !.pdir = StartPdir, !.powerloss = TRUE] = Deo(0, StartPdir)
    BY <2>1, <2>7, <2>8, Zenon
  <2> QED
    BY <2>9 DEF ForceDeorphan, disk, ram
<1>2. RamInv /\ op = NoOp
  BY <1>1, IdleIs
<1>3. PICK n, P, C : Whole(n, P, C) /\ Knit(n, P, C)
  BY DEF Inv
<1>4. Owed' = Owed
  BY <1>1 DEF Owed
<1>5. Whole(n, P, C)' /\ RamInv'
  BY <1>1, <1>2, <1>3, <1>4 DEF Whole, RamInv
<1>6. Repairing(n, P)' /\ OpInv(n, P, C)'
  BY <1>1, <1>2 DEF Repairing, OpInv, RamInv
<1>7. Knit(n, P, C)'
  <2>1. deo'.pass = 0
    BY <1>1 DEF Deo
  <2>2. PICK K : Ties(n, P, C, gdisk.moves, K) /\ Loose(n, P, K)
    BY <1>3 DEF Knit
  <2>3. Loose(n, P, K)'
    BY <1>1, <2>1, <2>2 DEF Loose
  <2> QED
    BY <1>1, <2>2, <2>3 DEF Knit
<1> QED
  BY <1>5, <1>6, <1>7 DEF Inv

(* What lfs_fs_preporphans and lfs_fs_prepmove do to the global state.        *)
LEMMA RamsIs ==
    ASSUME NEW gs \in Rams
    PROVE  /\ gs.orphans \in Nat /\ gs.moves \in SUBSET Moves
           /\ NoMove(gs) \in Rams /\ NoMove(gs).moves = {} /\ NoMove(gs).orphans = gs.orphans
           /\ Announce(gs) \in Rams /\ Announce(gs).moves = gs.moves /\ Announce(gs).orphans = gs.orphans + 1
           /\ gs.orphans >= 1 => Preps(gs, -1) \in Rams /\ Preps(gs, -1).orphans >= 0
           /\ Preps(gs, -1).moves = gs.moves
  BY DEF Rams, NoMove, Announce, Preps

(* lfs_fs_demove removes the entry of the old name.                           *)
LEMMA DemoveInv == ASSUME Inv, Demove, com' = NoCom PROVE Inv' /\ tree' = tree
<1> DEFINE v  == CHOOSE x \in gdisk.moves : TRUE
           h  == Fetch(blk, v.pair)
           gs == NoMove(gstate)
<1>1. Running("idle") /\ gdisk.moves # {}
      /\ Start(h, [h.m EXCEPT !.ents[v.name] = NoEnt], TRUE, gs, gdelta, NoOp, deo)
  BY DEF Demove, Undoing
<1>2. RamInv /\ deo = NoDeo
  BY <1>1, IdleIs
<1>3. PICK n, P, C : /\ Plan(n, P, C, gdisk.moves, OnDisk(gdisk)) /\ Reads(blk, n, P, C)
                     /\ Knots(n, P, C, gdisk.moves, gstate)
  BY <1>1, IdleIs
<1>4. v \in gdisk.moves /\ \A w \in gdisk.moves : w = v
  BY <1>1, <1>2 DEF RamInv
<1>5. v \in Moves
  BY <1>2, <1>4 DEF RamInv, Rams
<1> HIDE DEF v
<1>6. PICK i \in 1 .. n : v.pair = P[i]
  BY <1>3, <1>4 DEF Plan, Fits, PairsOf
<1>7. v.name \in Names /\ v = [pair |-> P[i], name |-> v.name]
  BY <1>5, <1>6 DEF Moves
<1> DEFINE ents == [C[P[i]].ents EXCEPT ![v.name] = NoEnt]
           C1   == Edited(C, P[i], ents)
<1>8. C[P[i]].ents \in [Names -> Ents] /\ NoEnt \in Ents /\ P[i] \in PairsOf(n, P)
  BY <1>3, EntsIs
<1>9. ents \in [Names -> Ents] /\ ents[v.name] = NoEnt /\ \A a \in Names : a # v.name => ents[a] = C[P[i]].ents[a]
  BY <1>7, <1>8
<1>10. Fetch(blk, P[i]).m = C[P[i]] /\ h = Fetch(blk, P[i])
  BY <1>3, <1>6 DEF Reads
<1>11. [h.m EXCEPT !.ents[v.name] = NoEnt] = [Fetch(blk, P[i]).m EXCEPT !.ents = ents]
  BY <1>10
<1> HIDE DEF ents, h
<1>12. /\ \A q \in PairsOf(n, P) : q # P[i] => C1[q] = C[q]
       /\ C1[P[i]].ents = ents /\ C1[P[i]].split = C[P[i]].split /\ C1[P[i]].tail = C[P[i]].tail
  BY <1>3, <1>9, EditedChanged DEF Changed
<1> HIDE DEF C1
<1>13. Fits(PairsOf(n, P), Hards(n, P, C), C1, {})
  BY <1>1, <1>3, <1>4, <1>7, <1>8, <1>9, <1>12, FitsRemove DEF Plan
<1>14. gs \in Rams /\ gs.moves = {} /\ gs.orphans = gstate.orphans
  BY <1>2, RamsIs DEF RamInv
<1> HIDE DEF gs
<1>15. Still(gs.moves, P[i]) /\ Aside(NoOp, n, P, C, i)
  BY <1>14 DEF Still, Aside, NoOp, NoHandle, NoPair
<1>16. Fits(PairsOf(n, P), Hards(n, P, C), Edited(C, P[i], ents), gs.moves)
  BY <1>13, <1>14 DEF C1
<1>17. Start(Fetch(blk, P[i]), [Fetch(blk, P[i]).m EXCEPT !.ents = ents], TRUE, gs, gdelta, NoOp, deo)
  BY <1>1, <1>10, <1>11
<1>18. /\ Moved(gs) /\ op' = NoOp /\ deo' = NoDeo
       /\ \E n2, P2, C2 : /\ Plan(n2, P2, C2, gs.moves, OnDisk(gs))
                          /\ Kept(blk, blk', n, P, C, Edited(C, P[i], ents), i, n2, P2, C2)
  BY <1>2, <1>3, <1>9, <1>14, <1>15, <1>16, <1>17, Edits
<1>19. /\ gdisk.moves = {[pair |-> P[i], name |-> v.name]}
       /\ OneEnt(PairsOf(n, P), C, C1, P[i], v.name) /\ C1[P[i]].ents[v.name] = NoEnt
  BY <1>4, <1>7, <1>9, <1>12 DEF OneEnt
<1>20. PICK K : Bound(n, P, C, Edited(C, P[i], ents), i, gs, K)
  <2>1. PICK K : /\ Tied(PairsOf(n, P), Hards(n, P, C), C, gdisk.moves, K) /\ Sorted(PairsOf(n, P), C)
                 /\ K # {} => gstate.orphans > 0
    BY <1>3 DEF Knots, Ties
  <2>2. Tied(PairsOf(n, P), Hards(n, P, C), C1, {}, K)
    BY <1>7, <1>8, <1>19, <2>1, TiedPick
  <2>3. Sorted(PairsOf(n, P), C1)
    BY <1>19, <2>1, SortedPick
  <2> QED
    BY <1>13, <1>14, <1>15, <2>1, <2>2, <2>3 DEF Bound, C1
<1>21. tree' = tree
  <2>1. Listed(PairsOf(n, P), C, gdisk.moves, C1)
    BY <1>19, ListsPick DEF Listed
  <2>2. OnDisk(gdisk).moves = gdisk.moves /\ blk \in Disks /\ tree = Mounted(blk)
    BY <1>2 DEF OnDisk, RamInv
  <2>3. Listed(PairsOf(n, P), C, gdisk.moves, Edited(C, P[i], ents))
    BY <2>1 DEF C1
  <2> QED
    BY <1>3, <1>14, <1>18, <2>2, <2>3, KeptMounted
<1> QED
  BY <1>14, <1>18, <1>20, <1>21, KeptIdle

(* lfs_fs_mkconsistent_ writes the global state.                              *)
LEMMA MkConsistentInv == ASSUME Inv, MkConsistent, com' = NoCom PROVE Inv' /\ tree' = tree
<1>1. Running("idle") /\ gdisk.moves = {} /\ gstate.orphans = 0
      /\ Start(Fetch(blk, Root), Fetch(blk, Root).m, FALSE, gstate, gdelta, NoOp, deo)
  BY DEF MkConsistent, Ready
<1>2. RamInv /\ deo = NoDeo /\ gstate.moves = {} /\ gstate \in Rams
  BY <1>1, IdleIs DEF RamInv
<1>3. PICK n, P, C : /\ Plan(n, P, C, gdisk.moves, OnDisk(gdisk)) /\ Reads(blk, n, P, C)
                     /\ Knots(n, P, C, gdisk.moves, gstate)
  BY <1>1, IdleIs
<1>4. P[1] = Root /\ 1 \in 1 .. n
  BY <1>3, PlanHard DEF Plan
<1>5. C[Root] \in Contents /\ C[Root].ents \in [Names -> Ents] /\ Fetch(blk, Root).m = C[Root]
  BY <1>3, <1>4, EntsIs DEF Reads
<1> DEFINE ents == C[Root].ents
           C1   == Edited(C, P[1], ents)
<1>6. [Fetch(blk, Root).m EXCEPT !.ents = ents] = Fetch(blk, Root).m
  BY <1>5 DEF Contents
<1> HIDE DEF ents
<1>7. ents \in [Names -> Ents]
  BY <1>5 DEF ents
<1>8. /\ \A q \in PairsOf(n, P) : q # P[1] => C1[q] = C[q]
      /\ C1[P[1]].ents = ents /\ C1[P[1]].split = C[P[1]].split /\ C1[P[1]].tail = C[P[1]].tail
  BY <1>3, <1>4, <1>7, EditedChanged DEF Changed
<1> HIDE DEF C1
<1>9. \A q \in PairsOf(n, P) : C1[q].ents = C[q].ents /\ C1[q].split = C[q].split
  BY <1>4, <1>8 DEF ents
<1>10. Fits(PairsOf(n, P), Hards(n, P, C), C1, gstate.moves)
  <2>1. \A mv : Fits(PairsOf(n, P), Hards(n, P, C), C, mv) => Fits(PairsOf(n, P), Hards(n, P, C), C1, mv)
    BY <1>9, FitsSame
  <2> QED
    BY <1>1, <1>2, <1>3, <2>1 DEF Plan
<1>11. Still(gstate.moves, P[1]) /\ Aside(NoOp, n, P, C, 1)
  BY <1>2 DEF Still, Aside, NoOp, NoHandle, NoPair
<1>12. Start(Fetch(blk, P[1]), [Fetch(blk, P[1]).m EXCEPT !.ents = ents], FALSE, gstate, gdelta, NoOp, deo)
  BY <1>1, <1>4, <1>6
<1>13. /\ Moved(gstate) /\ op' = NoOp /\ deo' = NoDeo
       /\ \E n2, P2, C2 : /\ Plan(n2, P2, C2, gstate.moves, OnDisk(gstate))
                          /\ Kept(blk, blk', n, P, C, Edited(C, P[1], ents), 1, n2, P2, C2)
  BY <1>2, <1>3, <1>4, <1>7, <1>10, <1>11, <1>12, Edits DEF C1
<1>14. Bound(n, P, C, Edited(C, P[1], ents), 1, gstate, {})
  <2>1. Tied(PairsOf(n, P), Hards(n, P, C), C, gdisk.moves, {}) /\ Sorted(PairsOf(n, P), C)
    BY <1>1, <1>3, AllTied
  <2>2. \A q \in PairsOf(n, P) : C[q].split => C1[q].tail = C[q].tail
    BY <1>8
  <2>3. Tied(PairsOf(n, P), Hards(n, P, C), C1, gdisk.moves, {})
    BY <1>9, <2>1, <2>2, TiedSame
  <2>4. Lasts(PairsOf(n, P), C, PairsOf(n, P), C1, {})
    BY <1>9, <2>2, LastsSame
  <2> QED
    BY <1>1, <1>2, <1>10, <1>11, <2>1, <2>3, <2>4 DEF Bound, Lasts, C1
<1>15. tree' = tree
  <2>1. \A q \in PairsOf(n, P) : C[q].split => C1[q].tail = C[q].tail
    BY <1>8
  <2>2. \A x, q : Part(PairsOf(n, P), C, x, q) <=> Part(PairsOf(n, P), C1, x, q)
    BY <1>9, <2>1, PartSame
  <2>3. Listed(PairsOf(n, P), C, {}, C1)
    BY <1>9, <2>2 DEF Listed, Lists, Entry
  <2>4. OnDisk(gdisk).moves = {} /\ blk \in Disks /\ tree = Mounted(blk)
    BY <1>1, <1>2 DEF OnDisk, RamInv
  <2>5. Listed(PairsOf(n, P), C, {}, Edited(C, P[1], ents))
    BY <2>3 DEF C1
  <2> QED
    BY <1>1, <1>2, <1>3, <1>13, <2>4, <2>5, KeptMounted
<1> QED
  BY <1>2, <1>13, <1>14, <1>15, KeptIdle

(* A commit by which one name is new makes it.                                *)
LEMMA TurnsAdd ==
    ASSUME NEW n, NEW P, NEW C, NEW C1, Turned(n, P, C, C1, {}), NEW d \in Nodes(blk, {}), d.ent.type = "dir",
           NEW p, AloneIn(Firsts(n, P, C), PairsOf(n, P), C, d.ent.pair, p),
           NEW a \in Names, OneEnt(PairsOf(n, P), C, C1, p, a), C[p].ents[a] = NoEnt,
           C1[p].ents[a].type \in Files \cup {"dir"},
           C1[p].ents[a].type = "dir" => Blank(C1[C1[p].ents[a].pair]), NEW T, C1[p].ents[a].type \in T
    PROVE  Atomic!Make(Append(d.path, a), T) /\ tree' # tree
<1> DEFINE N  == Nodes(blk, {})
           N1 == Nodes(blk', {})
<1>1. /\ tree = Shades(N) /\ Grown(N, Firsts(n, P, C), PairsOf(n, P), C, {})
      /\ tree' = Shades(N1) /\ Grown(N1, Firsts(n, P, C), PairsOf(n, P), C1, {})
      /\ Altered(n, P, C, C1) /\ Sorted(PairsOf(n, P), C1) /\ d \in N
  BY DEF Turned
<1> HIDE DEF N, N1
<1> QED
  BY <1>1, AddsNode

(* A file is created.                                                         *)
LEMMA CreateInv ==
    ASSUME Inv, NEW d \in Dirs, NEW nm \in Names, Create(d, nm), com' = NoCom
    PROVE  Inv' /\ Atomic!Make(Append(d.path, nm), Files) /\ tree' # tree
<1> DEFINE h == FindIn(d, nm)
<1>1. PICK f \in Files : Start(h, [h.m EXCEPT !.ents[nm] = Reg(f)], FALSE, gstate, gdelta, NoOp, deo)
  BY DEF Create
<1>2. Running("idle") /\ gdisk.moves = {} /\ ~Present(h, nm) /\ gstate.orphans = 0
  BY DEF Create, Ready
<1>3. RamInv /\ deo = NoDeo /\ gstate.moves = {} /\ gstate \in Rams
  BY <1>2, IdleIs DEF RamInv
<1>4. PICK n, P, C : Plan(n, P, C, {}, OnDisk(gdisk)) /\ Reads(blk, n, P, C) /\ Knots(n, P, C, {}, gstate)
  BY <1>2, IdleIs
<1>5. PICK i \in 1 .. n : h = Fetch(blk, P[i]) /\ Rooted(n, P, C, P[i])
  <2>1. PICK k, j, e : /\ P[k] = d.ent.pair /\ Rooted(n, P, C, P[k])
                       /\ InChain(n, P, C, k, j) /\ FindIn(d, nm) = Fetch(blk, P[j])
                       /\ InChain(n, P, C, k, e)
    BY <1>2, <1>3, <1>4, DirsOn DEF RamInv
  <2>2. j \in 1 .. n /\ Rooted(n, P, C, P[j])
    BY <1>4, <2>1, ChainRooted
  <2> QED
    BY <2>1, <2>2
<1>6. h.m = C[P[i]] /\ C[P[i]].ents[nm] = NoEnt
  <2>1. h.m = C[P[i]]
    BY <1>4, <1>5 DEF Reads
  <2>2. h.m.ents[nm] = NoEnt
    BY <1>2 DEF Present, Has, MoveHere
  <2> QED
    BY <2>1, <2>2
<1> DEFINE ents == [C[P[i]].ents EXCEPT ![nm] = Reg(f)]
           C1   == Edited(C, P[i], ents)
<1>7. C[P[i]].ents \in [Names -> Ents] /\ Reg(f) \in Ents /\ Reg(f).type # "dir" /\ P[i] \in PairsOf(n, P)
  BY <1>4, EntsIs
<1>8. ents \in [Names -> Ents] /\ ents[nm] = Reg(f) /\ \A a \in Names : a # nm => ents[a] = C[P[i]].ents[a]
  BY <1>7
<1>9. [h.m EXCEPT !.ents[nm] = Reg(f)] = [Fetch(blk, P[i]).m EXCEPT !.ents = ents]
  BY <1>5, <1>6
<1> HIDE DEF ents, h
<1>10. /\ \A q \in PairsOf(n, P) : q # P[i] => C1[q] = C[q]
       /\ C1[P[i]].ents = ents /\ C1[P[i]].split = C[P[i]].split /\ C1[P[i]].tail = C[P[i]].tail
  BY <1>4, <1>8, EditedChanged DEF Changed
<1> HIDE DEF C1
<1>11. Fits(PairsOf(n, P), Hards(n, P, C), C1, {})
  <2>1. C1[P[i]].ents[nm].type # "dir"
    BY <1>7, <1>8, <1>10
  <2>2. \A a \in Names : a # nm => C1[P[i]].ents[a] = C[P[i]].ents[a]
    BY <1>8, <1>10
  <2>3. P[i] \in {Root} \cup Hards(n, P, C) \/ Led(PairsOf(n, P), C, {}, P[i])
    BY <1>5 DEF Rooted, Fixed
  <2>4. Fits(PairsOf(n, P), Hards(n, P, C), C, {})
    BY <1>4 DEF Plan
  <2> QED
    BY <1>6, <1>7, <1>10, <2>1, <2>2, <2>3, <2>4, FitsAdd
<1>12. Still(gstate.moves, P[i]) /\ Aside(NoOp, n, P, C, i)
  BY <1>3 DEF Still, Aside, NoOp, NoHandle, NoPair
<1>13. Start(Fetch(blk, P[i]), [Fetch(blk, P[i]).m EXCEPT !.ents = ents], FALSE, gstate, gdelta, NoOp, deo)
  BY <1>1, <1>5, <1>9
<1>14. Fits(PairsOf(n, P), Hards(n, P, C), Edited(C, P[i], ents), gstate.moves)
  BY <1>3, <1>11 DEF C1
<1>15. /\ Moved(gstate) /\ op' = NoOp /\ deo' = NoDeo
       /\ \E n2, P2, C2 : /\ Plan(n2, P2, C2, gstate.moves, OnDisk(gstate))
                          /\ Kept(blk, blk', n, P, C, Edited(C, P[i], ents), i, n2, P2, C2)
  BY <1>3, <1>4, <1>8, <1>12, <1>13, <1>14, Edits
<1>16. Tied(PairsOf(n, P), Hards(n, P, C), C, {}, {}) /\ Sorted(PairsOf(n, P), C)
  BY <1>2, <1>4, AllTied
<1>17. /\ Room(PairsOf(n, P), C, P[i], nm)
       /\ AloneIn(Firsts(n, P, C), PairsOf(n, P), C, d.ent.pair, P[i])
  <2>1. FindIn(d, nm).pair = P[i]
    BY <1>5 DEF h, Fetch
  <2> QED
    BY <1>2, <1>3, <1>4, <1>16, <2>1, PlaceFound DEF RamInv
<1>18. OneEnt(PairsOf(n, P), C, C1, P[i], nm)
  BY <1>8, <1>10 DEF OneEnt
<1>19. Bound(n, P, C, Edited(C, P[i], ents), i, gstate, {})
  <2>1. C1[P[i]].ents[nm].type # "dir"
    BY <1>7, <1>8, <1>10
  <2>2. Tied(PairsOf(n, P), Hards(n, P, C), C1, {}, {} \ {{}})
    BY <1>6, <1>7, <1>16, <1>18, <2>1, TiedAdd
  <2>3. {} \ {{}} = {}
    OBVIOUS
  <2>4. Sorted(PairsOf(n, P), C1)
    BY <1>17, <1>18, SortedPut
  <2> QED
    BY <1>3, <1>11, <1>12, <2>2, <2>3, <2>4 DEF Bound, C1
<1>20. Turned(n, P, C, C1, {})
  <2>1. gstate.moves = {} /\ RamInv /\ gdisk.moves = {}
    BY <1>2, <1>3
  <2>2. Turned(n, P, C, Edited(C, P[i], ents), gstate.moves)
    BY <1>4, <1>8, <1>15, <1>19, <1>16, <2>1, EditTurns
  <2> QED
    BY <2>1, <2>2 DEF C1
<1>21. Atomic!Make(Append(d.path, nm), Files) /\ tree' # tree
  <2>1. d \in Nodes(blk, {}) /\ d.ent.type = "dir"
    BY <1>2 DEF Dirs
  <2>2. C1[P[i]].ents[nm].type \in Files /\ C1[P[i]].ents[nm].type # "dir"
    BY <1>7, <1>8, <1>10 DEF Reg
  <2>3. /\ C1[P[i]].ents[nm].type = "dir" => Blank(C1[C1[P[i]].ents[nm].pair])
        /\ C1[P[i]].ents[nm].type \in Files \cup {"dir"}
    BY <2>2
  <2> QED
    BY <1>6, <1>17, <1>18, <1>20, <2>1, <2>2, <2>3, TurnsAdd
<1> QED
  BY <1>3, <1>15, <1>19, <1>21, KeptIdle

(* Of call o, the pairs that no path goes through.                            *)
Apart(o, gs, K) ==
    /\ K # {} => gs.orphans > 0
    /\ o.at = "unlink" => K \subseteq {o.pair}
    /\ o.at \in {"old", "drop"} => K \subseteq {o.hook.pair}

(* The call goes on, with the disk in order.                                  *)
LEMMA GoesAgain ==
    ASSUME NEW gs \in Rams, \A v, w \in gs.moves : v = w, Moved(gs), deo' = NoDeo, blk' \in Disks,
           op'.at \notin {"link", "add"},
           NEW n, NEW P, NEW C, Plan(n, P, C, gs.moves, OnDisk(gs)), Reads(blk', n, P, C), OpInv(n, P, C)',
           NEW K, Ties(n, P, C, gs.moves, K), Apart(op', gs, K)
    PROVE  Inv'
<1>1. OnDisk(gs) \in Gs
  BY OnDiskTyped
<1>2. Owed' = NoG
  BY DEF Owed
<1>3. Xor(OnDisk(gdisk), Owed)' = OnDisk(gs)
  BY <1>1, <1>2, XorWith DEF Moved
<1>4. Whole(n, P, C)'
  BY <1>3 DEF Whole, Moved
<1>5. RamInv'
  BY DEF RamInv, Moved
<1>6. Knit(n, P, C)'
  BY DEF Knit, Loose, Apart, Moved, NoDeo
<1> QED
  BY <1>4, <1>5, <1>6 DEF Inv

(* A directory without entries, that no entry will lead to. *)
Empties(n, P, C, C1, j) ==
    Blank(C[P[j]]) /\ Unled(PairsOf(n, P), C1, P[j]) /\ P[j] \notin Fixed(n, P, C)

(* A directory that is to be dropped stays where it is over a commit to       *)
(* another pair.                                                              *)
LEMMA KeptDoomed ==
    ASSUME blk \in Disks, NEW n, NEW P, NEW C, NEW C1, Reads(blk, n, P, C), NEW i, NEW j \in 1 .. n, j # i,
           Empties(n, P, C, C1, j), NEW n2, NEW P2, NEW C2, Kept(blk, blk', n, P, C, C1, i, n2, P2, C2)
    PROVE  \E l \in 1 .. n2 : Doomed(n2, P2, C2, l) /\ Fetch(blk, P[j]) = Fetch(blk', P2[l])
<1>1. P[j] \in PairsOf(n2, P2) /\ (P[j] \in Hards(n2, P2, C2) <=> P[j] \in Hards(n, P, C))
  BY DEF Kept
<1>2. PICK l \in 1 .. n2 : P2[l] = P[j]
  BY <1>1 DEF PairsOf
<1>3. ~C[P[j]].split
  BY DEF Empties, Blank
<1>4. Fetch(blk', P2[l]) = Fetch(blk, P[j])
  BY <1>2, <1>3 DEF Kept
<1>5. C2[P2[l]] = C[P[j]]
  BY <1>2, <1>4 DEF Kept, Reads
<1>6. Unled(PairsOf(n2, P2), C2, P2[l])
  BY <1>2 DEF Empties, Kept
<1>7. P2[l] \notin Fixed(n2, P2, C2)
  BY <1>1, <1>2 DEF Empties, Fixed
<1> QED
  BY <1>4, <1>5, <1>6, <1>7 DEF Doomed, Empties

(* The next commit of the call drops it.                                      *)
LEMMA DropsNext ==
    ASSUME blk \in Disks, NEW gs \in Rams, gs.moves = {}, gs.orphans >= 1, Moved(gs), deo' = NoDeo,
           NEW n, NEW P, NEW C, NEW C1, Reads(blk, n, P, C), NEW i, NEW j \in 1 .. n, j # i,
           Empties(n, P, C, C1, j), op'.at = "drop", op'.hook = Fetch(blk, P[j]),
           NEW K, Bound(n, P, C, C1, i, gs, K), K \subseteq {P[j]},
           \E n2, P2, C2 : /\ Plan(n2, P2, C2, gs.moves, OnDisk(gs))
                         /\ Kept(blk, blk', n, P, C, C1, i, n2, P2, C2)
    PROVE  Inv'
<1>1. PICK n2, P2, C2 : /\ Plan(n2, P2, C2, gs.moves, OnDisk(gs))
                        /\ Kept(blk, blk', n, P, C, C1, i, n2, P2, C2)
  OBVIOUS
<1>2. PICK l \in 1 .. n2 : Doomed(n2, P2, C2, l) /\ Fetch(blk, P[j]) = Fetch(blk', P2[l])
  BY <1>1, KeptDoomed
<1>3. Dropping(n2, P2, C2)'
  BY <1>2 DEF Dropping, Doomed, Moved
<1>4. OpInv(n2, P2, C2)'
  BY <1>3 DEF OpInv
<1>5. blk' \in Disks /\ Reads(blk', n2, P2, C2)
  BY <1>1 DEF Kept
<1>6. Ties(n2, P2, C2, gs.moves, K)
  BY <1>1, KeptTied
<1>7. Apart(op', gs, K)
  <2>1. Fetch(blk, P[j]).pair = P[j]
    BY FetchSettled DEF Reads
  <2>2. K # {} => gs.orphans > 0
    BY DEF Bound
  <2> QED
    BY <2>1, <2>2 DEF Apart
<1> QED
  BY <1>1, <1>4, <1>5, <1>6, <1>7, GoesAgain

(* A directory found empty has one pair, without entries.                     *)
LEMMA EmptyIs ==
    ASSUME NEW n, NEW P, NEW C, NEW mv, NEW g, Plan(n, P, C, mv, g), Reads(blk, n, P, C), NEW i \in 1 .. n,
           NEW nm \in Names, C[P[i]].ents[nm].type = "dir", EmptyDir(C[P[i]].ents[nm])
    PROVE  \E j \in 1 .. n : j # i /\ P[j] = C[P[i]].ents[nm].pair /\ Blank(C[P[j]])
                             /\ P[j] \notin Fixed(n, P, C)
<1>1. P[i] \in PairsOf(n, P) /\ Aims(PairsOf(n, P), Hards(n, P, C), C)
  BY DEF PairsOf, Plan, Fits
<1>2. C[P[i]].ents[nm].pair \in PairsOf(n, P) \ Fixed(n, P, C)
  BY <1>1 DEF Aims, Fixed
<1>3. PICK j \in 1 .. n : P[j] = C[P[i]].ents[nm].pair
  BY <1>2 DEF PairsOf
<1>4. Fetch(blk, P[j]).m = C[P[j]]
  BY DEF Reads
<1>5. Size(C[P[j]].ents) = 0 /\ ~C[P[j]].split
  BY <1>3, <1>4 DEF EmptyDir
<1>6. Blank(C[P[j]])
  BY <1>5, SizeZero DEF Blank
<1>7. j # i
  BY <1>6 DEF Blank, NoEnt
<1> QED
  BY <1>2, <1>3, <1>6, <1>7

(* lfs_remove_: the entry goes, a directory becomes an orphan.                *)
LEMMA RemoveInv ==
    ASSUME Inv, NEW d \in Dirs, NEW nm \in Names, lfs_remove_(d, nm), com' = NoCom
    PROVE  Inv' /\ Atomic!Delete(Append(d.path, nm)) /\ tree' # tree
<1> DEFINE h  == FindIn(d, nm)
           e  == h.m.ents[nm]
           gs == IF e.type = "dir" THEN Announce(gstate) ELSE gstate
           o  == IF e.type = "dir" THEN [NoOp EXCEPT !.at = "drop", !.hook = Fetch(blk, e.pair)] ELSE NoOp
<1>1. /\ Running("idle") /\ gdisk.moves = {} /\ gstate.orphans = 0 /\ (e.type = "dir" => EmptyDir(e))
      /\ e # NoEnt
      /\ Start(h, [h.m EXCEPT !.ents[nm] = NoEnt], TRUE, gs, gdelta, o, deo)
  BY DEF lfs_remove_, Ready, Present, Has
<1>2. RamInv /\ deo = NoDeo /\ gstate.moves = {} /\ gstate \in Rams /\ blk \in Disks
  BY <1>1, IdleIs DEF RamInv
<1>3. PICK n, P, C : Plan(n, P, C, {}, OnDisk(gdisk)) /\ Reads(blk, n, P, C) /\ Knots(n, P, C, {}, gstate)
  BY <1>1, IdleIs
<1>4. PICK i \in 1 .. n : h = Fetch(blk, P[i])
  <2>1. PICK k, j : InChain(n, P, C, k, j) /\ FindIn(d, nm) = Fetch(blk, P[j]) /\ Rooted(n, P, C, P[k])
    BY <1>1, <1>2, <1>3, DirsOn
  <2>2. j \in 1 .. n
    BY <1>3, <2>1, ChainRooted
  <2> QED
    BY <2>1, <2>2
<1>5. h.m = C[P[i]]
  BY <1>3, <1>4 DEF Reads
<1> DEFINE ents == [C[P[i]].ents EXCEPT ![nm] = NoEnt]
           C1   == Edited(C, P[i], ents)
<1>6. C[P[i]].ents \in [Names -> Ents] /\ NoEnt \in Ents /\ P[i] \in PairsOf(n, P)
  BY <1>3, EntsIs
<1>7. ents \in [Names -> Ents] /\ ents[nm] = NoEnt /\ \A a \in Names : a # nm => ents[a] = C[P[i]].ents[a]
  BY <1>6
<1>8. [h.m EXCEPT !.ents[nm] = NoEnt] = [Fetch(blk, P[i]).m EXCEPT !.ents = ents]
  BY <1>4, <1>5
<1>9. e = C[P[i]].ents[nm]
  BY <1>5
<1> HIDE DEF ents, h, e
<1>10. /\ \A q \in PairsOf(n, P) : q # P[i] => C1[q] = C[q]
       /\ C1[P[i]].ents = ents /\ C1[P[i]].split = C[P[i]].split /\ C1[P[i]].tail = C[P[i]].tail
  BY <1>3, <1>7, EditedChanged DEF Changed
<1> HIDE DEF C1
<1>11. e.type = "dir" => \E j \in 1 .. n : j # i /\ P[j] = e.pair /\ Blank(C[P[j]]) /\ P[j] \notin Fixed(n, P, C)
  BY <1>1, <1>3, <1>9, EmptyIs
<1>12. /\ Fits(PairsOf(n, P), Hards(n, P, C), C1, {})
       /\ e.type = "dir" => Unled(PairsOf(n, P), C1, e.pair)
  <2>1. C[P[i]].ents[nm].type = "dir" => Blank(C[C[P[i]].ents[nm].pair])
    BY <1>9, <1>11
  <2>2. C1[P[i]].ents[nm] = NoEnt /\ \A a \in Names : a # nm => C1[P[i]].ents[a] = C[P[i]].ents[a]
    BY <1>7, <1>10
  <2>3. Fits(PairsOf(n, P), Hards(n, P, C), C, {})
    BY <1>3 DEF Plan
  <2> QED
    BY <1>6, <1>9, <1>10, <2>1, <2>2, <2>3, FitsRemove
<1>13. /\ gs \in Rams /\ gs.moves = {} /\ (e.type = "dir" => gs.orphans >= 1)
  BY <1>2, RamsIs
<1>14. Start(Fetch(blk, P[i]), [Fetch(blk, P[i]).m EXCEPT !.ents = ents], TRUE, gs, gdelta, o, deo)
  BY <1>1, <1>4, <1>8
<1> HIDE DEF gs
<1>15. Fits(PairsOf(n, P), Hards(n, P, C), Edited(C, P[i], ents), gs.moves) /\ Still(gs.moves, P[i])
  BY <1>12, <1>13 DEF C1, Still
<1>16. OneEnt(PairsOf(n, P), C, C1, P[i], nm) /\ C1[P[i]].ents[nm] = NoEnt
  BY <1>7, <1>10 DEF OneEnt
<1>17. ASSUME NEW X, e.type # "dir" => X = {},
              e.type = "dir" => X = {e.pair} /\ gs.orphans >= 1
       PROVE  Bound(n, P, C, Edited(C, P[i], ents), i, gs, X)
  <2>1. Tied(PairsOf(n, P), Hards(n, P, C), C, {}, {}) /\ Sorted(PairsOf(n, P), C)
    BY <1>1, <1>3, AllTied
  <2>2. OneEnt(PairsOf(n, P), C, C1, P[i], nm) /\ C1[P[i]].ents[nm] = NoEnt
    BY <1>16
  <2>3. C[P[i]].ents[nm].type = "dir" =>
          \E y \in PairsOf(n, P) \ ({Root} \cup Hards(n, P, C)) :
             X = {y} /\ y = C[P[i]].ents[nm].pair /\ Blank(C[y]) /\ Unled(PairsOf(n, P), C1, y)
    BY <1>9, <1>11, <1>12, <1>17 DEF Fixed, PairsOf
  <2>4. Frees(PairsOf(n, P), Hards(n, P, C), C, C1, P[i], nm, X)
    BY <1>9, <1>17, <2>3 DEF Frees
  <2>5. Tied(PairsOf(n, P), Hards(n, P, C), C1, {}, {} \cup X)
    BY <1>6, <2>1, <2>2, <2>4, TiedRemove
  <2>6. {} \cup X = X
    OBVIOUS
  <2>7. gs.moves = {} /\ (X # {} => gs.orphans > 0)
    BY <1>13, <1>17, RamsIs
  <2>8. Sorted(PairsOf(n, P), C1)
    BY <2>1, <2>2, SortedPick
  <2> QED
    BY <1>15, <2>5, <2>6, <2>7, <2>8 DEF Bound, C1
<1>18. ASSUME NEW X, Bound(n, P, C, Edited(C, P[i], ents), i, gs, X), Moved(gs),
              \E n2, P2, C2 : /\ Plan(n2, P2, C2, gs.moves, OnDisk(gs))
                            /\ Kept(blk, blk', n, P, C, Edited(C, P[i], ents), i, n2, P2, C2)
       PROVE  Atomic!Delete(Append(d.path, nm)) /\ tree' # tree
  <2> DEFINE N  == Nodes(blk, {})
             N1 == Nodes(blk', {})
  <2>1. RamInv /\ gdisk.moves = {} /\ Sorted(PairsOf(n, P), C)
    BY <1>1, <1>2, <1>3, AllTied
  <2>2. Turned(n, P, C, Edited(C, P[i], ents), gs.moves)
    BY <1>3, <1>7, <1>13, <1>18, <2>1, EditTurns
  <2>3. d \in N /\ d.ent.type = "dir"
    BY <1>1 DEF Dirs
  <2>4. /\ tree = Shades(N) /\ Grown(N, Firsts(n, P, C), PairsOf(n, P), C, {})
        /\ tree' = Shades(N1) /\ Grown(N1, Firsts(n, P, C), PairsOf(n, P), C1, {})
        /\ Line(n, P, Along(n, P, C))
    BY <1>13, <2>2 DEF Turned, C1
  <2> HIDE DEF N, N1
  <2>5. AloneIn(Firsts(n, P, C), PairsOf(n, P), C, d.ent.pair, P[i])
    <3>1. FindIn(d, nm).pair = P[i]
      BY <1>4 DEF h, Fetch
    <3> QED
      BY <1>2, <1>3, <2>1, <3>1, PlaceFound
  <2>6. C[P[i]].ents[nm] # NoEnt /\ (C[P[i]].ents[nm].type = "dir" => Blank(C[C[P[i]].ents[nm].pair]))
    BY <1>1, <1>9, <1>11
  <2> QED
    BY <1>16, <2>1, <2>3, <2>4, <2>5, <2>6, RemovesNode
<1>19. CASE e.type # "dir"
  <2>1. o = NoOp /\ Aside(NoOp, n, P, C, i)
    BY <1>19 DEF Aside, NoOp, NoHandle, NoPair
  <2> HIDE DEF o
  <2>2. Start(Fetch(blk, P[i]), [Fetch(blk, P[i]).m EXCEPT !.ents = ents], TRUE, gs, gdelta, NoOp, deo)
    BY <1>14, <2>1
  <2>3. /\ Moved(gs) /\ op' = NoOp /\ deo' = NoDeo
        /\ \E n2, P2, C2 : /\ Plan(n2, P2, C2, gs.moves, OnDisk(gs))
                           /\ Kept(blk, blk', n, P, C, Edited(C, P[i], ents), i, n2, P2, C2)
    BY <1>2, <1>3, <1>7, <1>13, <1>15, <2>1, <2>2, Edits
  <2>4. Bound(n, P, C, Edited(C, P[i], ents), i, gs, {})
    BY <1>17, <1>19
  <2>5. Atomic!Delete(Append(d.path, nm)) /\ tree' # tree
    BY <1>18, <2>3, <2>4
  <2> QED
    BY <1>13, <2>3, <2>4, <2>5, KeptIdle
<1>20. CASE e.type = "dir"
  <2>1. PICK j \in 1 .. n : j # i /\ P[j] = e.pair /\ Blank(C[P[j]]) /\ P[j] \notin Fixed(n, P, C)
    BY <1>11, <1>20
  <2>2. o.at = "drop" /\ o.hook = Fetch(blk, P[j])
    BY <1>20, <2>1 DEF NoOp
  <2> HIDE DEF o
  <2>3. Fetch(blk, P[j]).pair = P[j]
    BY <1>2, <1>3, FetchSettled DEF Reads
  <2>4. Aside(o, n, P, C, i)
    BY <2>1, <2>2, <2>3 DEF Aside, Blank
  <2>5. /\ Moved(gs) /\ op' = o /\ deo' = NoDeo
        /\ \E n2, P2, C2 : /\ Plan(n2, P2, C2, gs.moves, OnDisk(gs))
                           /\ Kept(blk, blk', n, P, C, Edited(C, P[i], ents), i, n2, P2, C2)
    BY <1>2, <1>3, <1>7, <1>13, <1>14, <1>15, <2>4, Edits
  <2>6. Empties(n, P, C, Edited(C, P[i], ents), j)
    BY <1>12, <1>20, <2>1 DEF Empties, C1
  <2>7. Bound(n, P, C, Edited(C, P[i], ents), i, gs, {P[j]})
    BY <1>13, <1>17, <1>20, <2>1
  <2>8. Atomic!Delete(Append(d.path, nm)) /\ tree' # tree
    BY <1>18, <2>5, <2>7
  <2>9. op'.at = "drop" /\ op'.hook = Fetch(blk, P[j])
    BY <2>2, <2>5
  <2>10. Inv'
    BY <1>2, <1>3, <1>13, <1>20, <2>1, <2>5, <2>6, <2>7, <2>9, DropsNext
  <2> QED
    BY <2>8, <2>10
<1> QED
  BY <1>19, <1>20

(* The entry of the old name is left behind, to be removed by the next commit. *)
Leaves(o, gs, n, P, C, C1, i, k, a1) ==
    /\ gs.moves = {[pair |-> P[k], name |-> a1]} /\ C[P[k]].ents[a1] # NoEnt /\ ~Bare(C1[P[i]])
    /\ o.at = "old" /\ o.name = a1 /\ o.h = Fetch(blk, P[k])
    /\ o.drops => /\ gs.orphans >= 1
                  /\ \E j \in 1 .. n : j # i /\ Empties(n, P, C, C1, j) /\ o.hook = Fetch(blk, P[j])

(* The next commit of the call removes the old name.                          *)
LEMMA RenamesNext ==
    ASSUME blk \in Disks, NEW gs \in Rams, Moved(gs), deo' = NoDeo, NEW a1 \in Names,
           NEW n, NEW P, NEW C, NEW C1, Reads(blk, n, P, C),
           NEW i, NEW k \in 1 .. n, k # i, NEW o, Leaves(o, gs, n, P, C, C1, i, k, a1), op' = o,
           NEW K, Bound(n, P, C, C1, i, gs, K), K \subseteq {o.hook.pair},
           \E n2, P2, C2 : /\ Plan(n2, P2, C2, gs.moves, OnDisk(gs))
                         /\ Kept(blk, blk', n, P, C, C1, i, n2, P2, C2)
    PROVE  Inv'
<1> USE DEF Leaves
<1>1. PICK n2, P2, C2 : /\ Plan(n2, P2, C2, gs.moves, OnDisk(gs))
                        /\ Kept(blk, blk', n, P, C, C1, i, n2, P2, C2)
  OBVIOUS
<1>2. P[k] \in PairsOf(n2, P2) /\ Fetch(blk', P[k]) = Fetch(blk, P[k])
  BY <1>1 DEF Kept
<1>3. PICK l \in 1 .. n2 : P2[l] = P[k]
  BY <1>2 DEF PairsOf
<1>4. C2[P2[l]] = C[P[k]]
  BY <1>1, <1>2, <1>3 DEF Kept, Reads
<1>5. op'.drops => \E j \in 1 .. n2 : j # l /\ Doomed(n2, P2, C2, j) /\ op'.hook = Fetch(blk', P2[j])
  <2> SUFFICES ASSUME op'.drops PROVE \E j \in 1 .. n2 : j # l /\ Doomed(n2, P2, C2, j) /\ op'.hook = Fetch(blk', P2[j])
    OBVIOUS
  <2>1. PICK j0 \in 1 .. n : j0 # i /\ Empties(n, P, C, C1, j0) /\ op'.hook = Fetch(blk, P[j0])
    OBVIOUS
  <2>2. PICK j \in 1 .. n2 : Doomed(n2, P2, C2, j) /\ Fetch(blk, P[j0]) = Fetch(blk', P2[j])
    BY <1>1, <2>1, KeptDoomed
  <2>3. j # l
    BY <1>4, <2>2 DEF Doomed, Blank
  <2> QED
    BY <2>1, <2>2, <2>3
<1>6. Renaming(n2, P2, C2)'
  BY <1>2, <1>3, <1>5 DEF Renaming, Doomed, Moved
<1>7. OpInv(n2, P2, C2)'
  BY <1>6 DEF OpInv
<1>8. blk' \in Disks /\ Reads(blk', n2, P2, C2)
  BY <1>1 DEF Kept
<1>9. \A v, w \in gs.moves : v = w
  OBVIOUS
<1>10. Ties(n2, P2, C2, gs.moves, K)
  BY <1>1, KeptTied
<1>11. Apart(op', gs, K)
  BY DEF Apart, Bound
<1> QED
  BY <1>1, <1>7, <1>8, <1>9, <1>10, <1>11, GoesAgain

(* lfs_rename_: the new name.                                                 *)
LEMMA RenameInv ==
    ASSUME Inv, NEW d \in Dirs, NEW a1 \in Names, NEW nd \in Dirs, NEW a0 \in Names,
           lfs_rename_(d, a1, nd, a0), com' = NoCom
    PROVE  Inv' /\ Atomic!Rename(Append(d.path, a1), Append(nd.path, a0)) /\ tree' # tree
<1> DEFINE h     == FindIn(d, a1)
           to    == FindIn(nd, a0)
           e     == h.m.ents[a1]
           prev  == to.m.ents[a0]
           over  == Present(to, a0)
           same  == Overlap(h.pair, to.pair)
           isdir == over /\ prev.type = "dir"
           gs1   == IF isdir THEN Announce(gstate) ELSE gstate
           gs    == IF same THEN gs1 ELSE [gs1 EXCEPT !.moves = {[pair |-> h.pair, name |-> a1]}]
           put   == [to.m.ents EXCEPT ![a0] = e]
           ents  == IF same THEN [put EXCEPT ![a1] = NoEnt] ELSE put
           o     == [NoOp EXCEPT !.at = IF same /\ ~isdir THEN "idle" ELSE IF same THEN "drop" ELSE "old",
                             !.h = IF same THEN NoHandle ELSE h, !.name = IF same THEN 0 ELSE a1,
                             !.hook = IF isdir THEN Fetch(blk, prev.pair) ELSE NoHandle,
                             !.drops = isdir]
<1>1. /\ Running("idle") /\ gdisk.moves = {} /\ gstate.orphans = 0 /\ Present(h, a1) /\ (isdir => EmptyDir(prev))
      /\ ~IsPrefix(Append(d.path, a1), nd.path) /\ (d # nd \/ a1 # a0)
      /\ over => (prev.type = "dir") = (e.type = "dir")
      /\ Start(to, [to.m EXCEPT !.ents = ents], same \/ over, gs, gdelta, o, deo)
  BY DEF lfs_rename_, Ready, PrepMove
<1>2. Present(h, a1) /\ (isdir => EmptyDir(prev)) /\ gdisk.moves = {}
  BY <1>1, Zenon
<1>3. RamInv /\ deo = NoDeo /\ gstate.moves = {} /\ gstate \in Rams /\ blk \in Disks
  BY <1>1, IdleIs DEF RamInv
<1>4. PICK n, P, C : Plan(n, P, C, {}, OnDisk(gdisk)) /\ Reads(blk, n, P, C) /\ Knots(n, P, C, {}, gstate)
  BY <1>1, IdleIs
<1>5. PICK k \in 1 .. n : h = Fetch(blk, P[k]) /\ \E l : P[l] = d.ent.pair /\ InChain(n, P, C, l, k)
  <2>1. PICK l, j : /\ P[l] = d.ent.pair /\ InChain(n, P, C, l, j) /\ FindIn(d, a1) = Fetch(blk, P[j])
                    /\ Rooted(n, P, C, P[l])
    BY <1>1, <1>3, <1>4, DirsOn
  <2>2. j \in 1 .. n
    BY <1>4, <2>1, ChainRooted
  <2> QED
    BY <2>1, <2>2
<1>6. PICK i \in 1 .. n : /\ to = Fetch(blk, P[i]) /\ Rooted(n, P, C, P[i])
                          /\ \E l : P[l] = nd.ent.pair /\ InChain(n, P, C, l, i)
  <2>1. PICK l, j : /\ P[l] = nd.ent.pair /\ InChain(n, P, C, l, j) /\ FindIn(nd, a0) = Fetch(blk, P[j])
                    /\ Rooted(n, P, C, P[l])
    BY <1>1, <1>3, <1>4, DirsOn
  <2>2. j \in 1 .. n /\ Rooted(n, P, C, P[j])
    BY <1>4, <2>1, ChainRooted
  <2> QED
    BY <2>1, <2>2
<1>7. h.m = C[P[k]] /\ to.m = C[P[i]] /\ h.pair = P[k] /\ to.pair = P[i]
  BY <1>3, <1>4, <1>5, <1>6, FetchSettled DEF Reads
<1>8. /\ C[P[i]].ents \in [Names -> Ents] /\ C[P[k]].ents \in [Names -> Ents] /\ NoEnt \in Ents
      /\ P[i] \in PairsOf(n, P) /\ P[k] \in PairsOf(n, P) /\ P[k] \in Pairs
      /\ (P[k] = P[i] => k = i) /\ (k # i => P[k] \cap P[i] = {})
  <2>1. \A l \in 1 .. n : C[P[l]].ents \in [Names -> Ents] /\ NoEnt \in Ents /\ P[l] \in PairsOf(n, P)
    BY <1>4, EntsIs
  <2>2. /\ P \in [1 .. n -> Pairs]
        /\ \A j, l \in 1 .. n : j # l => P[j] \cap P[l] = {}
        /\ \A j, l \in 1 .. n : P[j] = P[l] => j = l
    BY <1>4, LineAlong DEF Plan
  <2> QED
    BY <2>1, <2>2
<1>9. same <=> k = i
  BY <1>7, <1>8 DEF Overlap, Pairs
<1>10. /\ e = C[P[k]].ents[a1] /\ e # NoEnt /\ prev = C[P[i]].ents[a0]
       /\ isdir <=> prev.type = "dir"
  <2>1. e # NoEnt
    BY <1>2 DEF Present, Has
  <2>2. over <=> prev # NoEnt
    BY <1>2 DEF Present, Has, MoveHere
  <2>3. prev.type = "dir" => prev # NoEnt
    BY DEF NoEnt
  <2> QED
    BY <1>7, <2>1, <2>2, <2>3
<1>11. prev # NoEnt => over
  BY <1>2 DEF Present, Has, MoveHere
<1>12. prev.type = "dir" =>
          \E j \in 1 .. n : j # i /\ P[j] = prev.pair /\ Blank(C[P[j]]) /\ P[j] \notin Fixed(n, P, C)
  <2> SUFFICES ASSUME prev.type = "dir"
               PROVE  \E j \in 1 .. n : /\ j # i /\ P[j] = prev.pair /\ Blank(C[P[j]])
                                       /\ P[j] \notin Fixed(n, P, C)
    OBVIOUS
  <2>1. EmptyDir(C[P[i]].ents[a0]) /\ C[P[i]].ents[a0].type = "dir"
    BY <1>2, <1>10
  <2>2. C[P[i]].ents[a0].pair = prev.pair
    BY <1>10
  <2> QED
    BY <1>4, <2>1, <2>2, EmptyIs
<1>13. /\ ents \in [Names -> Ents]
       /\ k = i => ents[a1] = NoEnt
       /\ k # i \/ a0 # a1 => ents[a0] = e
       /\ \A a \in Names : a # a0 /\ (k = i => a # a1) => ents[a] = C[P[i]].ents[a]
  <2>1. put \in [Names -> Ents] /\ put[a0] = e /\ \A a \in Names : a # a0 => put[a] = C[P[i]].ents[a]
    BY <1>7, <1>8, <1>10
  <2> HIDE DEF put, same, e
  <2>2. CASE k = i
    <3>1. ents = [put EXCEPT ![a1] = NoEnt]
      BY <1>9, <2>2
    <3> HIDE DEF ents
    <3> QED
      BY <1>8, <2>1, <2>2, <3>1
  <2>3. CASE k # i
    <3>1. ents = put
      BY <1>9, <2>3
    <3> HIDE DEF ents
    <3> QED
      BY <2>1, <2>3, <3>1
  <2> QED
    BY <2>2, <2>3
<1>14. /\ gs1 \in Rams /\ gs1.moves = {} /\ (isdir => gs1.orphans >= 1)
  BY <1>3, RamsIs
<1>15. /\ gs \in Rams /\ (k = i => gs.moves = {}) /\ (k # i => gs.moves = {[pair |-> P[k], name |-> a1]})
       /\ isdir => gs.orphans >= 1
  <2> HIDE DEF gs1, isdir, same
  <2>1. CASE k = i
    BY <1>9, <1>14, <2>1
  <2>2. CASE k # i
    <3>1. gs = [gs1 EXCEPT !.moves = {[pair |-> P[k], name |-> a1]}]
      BY <1>7, <1>9, <2>2
    <3>2. [pair |-> P[k], name |-> a1] \in Moves
      BY <1>8 DEF Moves, Pairs
    <3> QED
      BY <1>14, <2>2, <3>1, <3>2 DEF Rams
  <2> QED
    BY <2>1, <2>2
<1>16. /\ o.at = (IF same /\ ~isdir THEN "idle" ELSE IF same THEN "drop" ELSE "old")
       /\ o.h = (IF same THEN NoHandle ELSE h) /\ o.name = (IF same THEN 0 ELSE a1)
       /\ o.hook = (IF isdir THEN Fetch(blk, prev.pair) ELSE NoHandle) /\ (o.drops <=> isdir)
  BY DEF NoOp
<1>17. same /\ ~isdir => o = NoOp
  <2> SUFFICES ASSUME same, ~isdir PROVE o = NoOp
    OBVIOUS
  <2>1. PICK f : f = FALSE
    OBVIOUS
  <2> DEFINE R == [at |-> "idle", h |-> NoHandle, hook |-> NoHandle, name |-> 0, pair |-> NoPair, drops |-> f]
  <2>2. NoOp = R
    BY <2>1, Zenon DEF NoOp
  <2>3. isdir = f
    BY <2>1, Zenon
  <2>4. /\ [R EXCEPT !.at = "idle"] = R /\ [R EXCEPT !.h = NoHandle] = R /\ [R EXCEPT !.name = 0] = R
        /\ [R EXCEPT !.hook = NoHandle] = R /\ [R EXCEPT !.drops = f] = R
    OBVIOUS
  <2> HIDE DEF R, isdir, same
  <2>5. o = [NoOp EXCEPT !.at = "idle", !.h = NoHandle, !.name = 0, !.hook = NoHandle, !.drops = f]
    BY <2>3
  <2> QED
    BY <2>2, <2>4, <2>5
<1> HIDE DEF gs, gs1, o, ents, put, e, prev, isdir, same, over, h, to
<1>18. isdir => \E j \in 1 .. n : j # i /\ P[j] = prev.pair /\ Blank(C[P[j]]) /\ P[j] \notin Fixed(n, P, C)
                                  /\ o.hook = Fetch(blk, P[j]) /\ Fetch(blk, P[j]).pair = P[j]
  <2> SUFFICES ASSUME isdir
               PROVE  \E j \in 1 .. n : j # i /\ P[j] = prev.pair /\ Blank(C[P[j]]) /\ P[j] \notin Fixed(n, P, C)
                                  /\ o.hook = Fetch(blk, P[j]) /\ Fetch(blk, P[j]).pair = P[j]
    OBVIOUS
  <2>1. PICK j \in 1 .. n : j # i /\ P[j] = prev.pair /\ Blank(C[P[j]]) /\ P[j] \notin Fixed(n, P, C)
    BY <1>10, <1>12
  <2>2. Fetch(blk, P[j]).pair = P[j]
    BY <1>3, <1>4, FetchSettled DEF Reads
  <2> QED
    BY <1>16, <2>1, <2>2
<1>19. Aside(o, n, P, C, i)
  <2>1. CASE isdir
    BY <1>18, <2>1 DEF Aside, Blank
  <2>2. CASE ~isdir
    BY <1>16, <2>2 DEF Aside, NoHandle, NoPair
  <2> QED
    BY <2>1, <2>2
<1> DEFINE C1 == Edited(C, P[i], ents)
<1>20. /\ \A q \in PairsOf(n, P) : q # P[i] => C1[q] = C[q]
       /\ C1[P[i]].ents = ents /\ C1[P[i]].split = C[P[i]].split /\ C1[P[i]].tail = C[P[i]].tail
  BY <1>4, <1>13, EditedChanged DEF Changed
<1> HIDE DEF C1
<1>21. C[P[i]].ents[a0].type = "dir" => Blank(C[C[P[i]].ents[a0].pair])
  BY <1>10, <1>12
<1>22. /\ Fits(PairsOf(n, P), Hards(n, P, C), C, {})
       /\ P[i] \in {Root} \cup Hards(n, P, C) \/ Led(PairsOf(n, P), C, {}, P[i])
  BY <1>4, <1>6 DEF Plan, Rooted, Fixed
<1>23. /\ Tied(PairsOf(n, P), Hards(n, P, C), C, {}, {}) /\ Sorted(PairsOf(n, P), C)
       /\ AloneIn(Firsts(n, P, C), PairsOf(n, P), C, d.ent.pair, P[k])
       /\ AloneIn(Firsts(n, P, C), PairsOf(n, P), C, nd.ent.pair, P[i])
       /\ Room(PairsOf(n, P), C, P[i], a0)
  <2>1. Tied(PairsOf(n, P), Hards(n, P, C), C, {}, {}) /\ Sorted(PairsOf(n, P), C)
    BY <1>1, <1>4, AllTied
  <2>2. FindIn(d, a1).pair = P[k] /\ FindIn(nd, a0).pair = P[i]
    BY <1>7 DEF h, to
  <2>3. AloneIn(Firsts(n, P, C), PairsOf(n, P), C, d.ent.pair, P[k])
    BY <1>1, <1>3, <1>4, <2>1, <2>2, PlaceFound
  <2>4. /\ AloneIn(Firsts(n, P, C), PairsOf(n, P), C, nd.ent.pair, P[i])
        /\ Room(PairsOf(n, P), C, P[i], a0)
    BY <1>1, <1>3, <1>4, <2>1, <2>2, PlaceFound
  <2> QED
    BY <2>1, <2>3, <2>4
<1>24. d \in Nodes(blk, {}) /\ d.ent.type = "dir" /\ nd \in Nodes(blk, {}) /\ nd.ent.type = "dir"
  BY <1>1 DEF Dirs
<1>25. k # i \/ a0 # a1
  <2> SUFFICES ASSUME k = i, a0 = a1 PROVE FALSE
    OBVIOUS
  <2>1. Grown(Nodes(blk, {}), Firsts(n, P, C), PairsOf(n, P), C, {})
    <3>1. OnDisk(gdisk).moves = {}
      BY <1>1 DEF OnDisk
    <3> QED
      BY <1>3, <1>4, <1>23, <3>1, NodesOf
  <2>2. d.ent.pair = nd.ent.pair
    BY <1>23 DEF AloneIn
  <2>3. d = nd
    BY <1>24, <2>1, <2>2, GrownIs
  <2> QED
    BY <1>1, <2>3
<1>26. Replaced(PairsOf(n, P), C, C1, gs.moves, P[i], a0, P[k], a1)
  <2>1. P[k] = P[i] <=> k = i
    BY <1>8
  <2>2. /\ P[k] # P[i] \/ a1 # a0
        /\ \A a \in Names : a # a0 /\ (P[k] = P[i] => a # a1) => C1[P[i]].ents[a] = C[P[i]].ents[a]
        /\ P[k] = P[i] => C1[P[i]].ents[a1] = NoEnt
    BY <1>10, <1>13, <1>20, <1>25, <2>1
  <2>3. /\ P[k] = P[i] => gs.moves = {}
        /\ P[k] # P[i] => gs.moves = {[pair |-> P[k], name |-> a1]}
    BY <1>15, <2>1
  <2>4. C1[P[i]].ents[a0] = C[P[k]].ents[a1]
    BY <1>10, <1>13, <1>20, <1>25
  <2> QED
    BY <1>20, <2>2, <2>3, <2>4 DEF Replaced
<1>27. /\ Fits(PairsOf(n, P), Hards(n, P, C), C1, gs.moves)
       /\ prev.type = "dir" => Unled(PairsOf(n, P), C1, prev.pair)
  <2>1. /\ Fits(PairsOf(n, P), Hards(n, P, C), C1, gs.moves)
        /\ C[P[i]].ents[a0].type = "dir" => Unled(PairsOf(n, P), C1, C[P[i]].ents[a0].pair)
    BY <1>8, <1>21, <1>22, <1>26, FitsMove
  <2> QED
    BY <1>10, <2>1
<1>28. Fits(PairsOf(n, P), Hards(n, P, C), Edited(C, P[i], ents), gs.moves) /\ Still(gs.moves, P[i])
  <2>1. Still(gs.moves, P[i])
    BY <1>8, <1>15 DEF Still
  <2> QED
    BY <1>27, <2>1 DEF C1
<1>29. gs.moves = {} \/ \E a \in Names : ents[a] # NoEnt
  BY <1>10, <1>13, <1>15
<1>30. Start(Fetch(blk, P[i]), [Fetch(blk, P[i]).m EXCEPT !.ents = ents], same \/ over, gs, gdelta, o, deo)
  BY <1>1, <1>6
<1>31. /\ Moved(gs) /\ op' = o /\ deo' = NoDeo
       /\ \E n2, P2, C2 : /\ Plan(n2, P2, C2, gs.moves, OnDisk(gs))
                          /\ Kept(blk, blk', n, P, C, Edited(C, P[i], ents), i, n2, P2, C2)
  BY <1>3, <1>4, <1>13, <1>15, <1>19, <1>28, <1>29, <1>30, Edits
<1>32. isdir => \E j \in 1 .. n : j # i /\ Empties(n, P, C, Edited(C, P[i], ents), j) /\ o.hook = Fetch(blk, P[j])
  BY <1>10, <1>18, <1>27 DEF Empties, C1
<1> DEFINE K == IF isdir THEN {prev.pair} ELSE {}
           S == PairsOf(n, P)
           Z == Hards(n, P, C)
<1>33. Tied(S, Z, C1, gs.moves, K)
  <2>1. Tied(S, Z, C, {}, {}) /\ Replaced(S, C, C1, gs.moves, P[i], a0, P[k], a1)
    BY <1>23, <1>26
  <2>2. C[P[i]].ents[a0].type = "dir" =>
          \E y \in S \ ({Root} \cup Z) :
             K = {y} /\ y = C[P[i]].ents[a0].pair /\ Blank(C[y]) /\ Unled(S, C1, y)
    BY <1>10, <1>12, <1>27 DEF Fixed, PairsOf
  <2>3. Frees(S, Z, C, C1, P[i], a0, K)
    BY <1>10, <2>2 DEF Frees
  <2> HIDE DEF K, S, Z
  <2>4. ASSUME NEW D, Closed(S, C, {[pair |-> P[k], name |-> a1]}, D) PROVE P[i] \in D
    <3>1. PICK ld : P[ld] = d.ent.pair /\ InChain(n, P, C, ld, k)
      BY <1>5
    <3>2. PICK ln : P[ln] = nd.ent.pair /\ InChain(n, P, C, ln, i)
      BY <1>6
    <3>3. InOrder(blk, n, P, C)
      BY <1>3, <1>4 DEF InOrder, Plan
    <3>4. ~IsPrefix(Append(d.path, a1), nd.path)
      BY <1>1
    <3>5. Closed(PairsOf(n, P), C, {[pair |-> P[k], name |-> a1]}, D)
      BY <2>4 DEF S
    <3> QED
      BY <1>24, <3>1, <3>2, <3>3, <3>4, <3>5, AsideTied
  <2>5. P[i] \in S /\ P[k] \in S /\ C1[P[i]].tail = C[P[i]].tail
    BY <1>8, <1>20 DEF S
  <2> QED
    BY <2>1, <2>3, <2>4, <2>5, TiedMove
<1>34. Bound(n, P, C, Edited(C, P[i], ents), i, gs, K)
  <2>1. K # {} => gs.orphans > 0
    BY <1>15, RamsIs
  <2> HIDE DEF K
  <2>2. Sorted(PairsOf(n, P), C1)
    BY <1>20, <1>23, <1>26, SortedMove
  <2> QED
    BY <1>28, <1>33, <2>1, <2>2 DEF Bound, C1, S, Z
<1>35. Atomic!Rename(Append(d.path, a1), Append(nd.path, a0)) /\ tree' # tree
  <2> DEFINE N  == Nodes(blk, {})
             N1 == Nodes(blk', gs.moves)
  <2> HIDE DEF K
  <2>1. RamInv /\ gdisk.moves = {}
    BY <1>1, <1>3
  <2>2. Turned(n, P, C, Edited(C, P[i], ents), gs.moves)
    BY <1>4, <1>13, <1>29, <1>31, <1>34, <1>23, <2>1, EditTurns
  <2>3. /\ tree = Shades(N) /\ Grown(N, Firsts(n, P, C), PairsOf(n, P), C, {})
        /\ tree' = Shades(N1) /\ Grown(N1, Firsts(n, P, C), PairsOf(n, P), C1, gs.moves)
        /\ Altered(n, P, C, C1) /\ Line(n, P, Along(n, P, C))
        /\ Sorted(PairsOf(n, P), C) /\ Sorted(PairsOf(n, P), C1)
    BY <2>2 DEF Turned, C1
  <2>4. d \in N /\ nd \in N /\ d.ent.type = "dir" /\ nd.ent.type = "dir"
    BY <1>24
  <2> HIDE DEF N, N1
  <2>5. C[P[i]].ents[a0] # NoEnt => (C[P[i]].ents[a0].type = "dir") = (C[P[k]].ents[a1].type = "dir")
    BY <1>1, <1>10, <1>11
  <2>6. C[P[k]].ents[a1] # NoEnt /\ C1[P[i]].tail = C[P[i]].tail
    BY <1>10, <1>20
  <2>7. ~IsPrefix(Append(d.path, a1), nd.path) /\ (d # nd \/ a1 # a0)
    BY <1>1
  <2> QED
    BY <1>21, <1>23, <1>26, <2>3, <2>4, <2>5, <2>6, <2>7, MovesNode
<1>36. CASE k = i /\ ~isdir
  <2>1. \A v, w \in gs.moves : v = w
    BY <1>15, <1>36
  <2>2. op' = NoOp
    BY <1>9, <1>17, <1>31, <1>36
  <2> HIDE DEF K
  <2> QED
    BY <1>15, <1>31, <1>34, <1>35, <2>1, <2>2, KeptIdle
<1>37. CASE k = i /\ isdir
  <2>1. o.at = "drop"
    BY <1>9, <1>16, <1>37
  <2>2. PICK j \in 1 .. n : /\ j # i /\ P[j] = prev.pair /\ o.hook = Fetch(blk, P[j])
                            /\ Empties(n, P, C, Edited(C, P[i], ents), j)
    BY <1>10, <1>18, <1>27, <1>37 DEF Empties, C1
  <2>3. Bound(n, P, C, Edited(C, P[i], ents), i, gs, {P[j]})
    BY <1>34, <1>37, <2>2
  <2>4. op'.at = "drop" /\ op'.hook = Fetch(blk, P[j])
    BY <1>31, <2>1, <2>2
  <2>5. Inv'
    BY <1>3, <1>4, <1>15, <1>31, <1>37, <2>2, <2>3, <2>4, DropsNext
  <2> QED
    BY <1>35, <2>5
<1>38. CASE k # i
  <2>1. o.at = "old" /\ o.h = Fetch(blk, P[k]) /\ o.name = a1 /\ (o.drops <=> isdir)
    BY <1>5, <1>9, <1>16, <1>38
  <2>2. ~Bare(Edited(C, P[i], ents)[P[i]])
    BY <1>10, <1>13, <1>20, <1>38 DEF Bare, C1
  <2>3. C[P[k]].ents[a1] # NoEnt
    BY <1>10
  <2>4. Leaves(o, gs, n, P, C, Edited(C, P[i], ents), i, k, a1)
    BY <1>15, <1>32, <1>38, <2>1, <2>2, <2>3 DEF Leaves
  <2>5. K \subseteq {o.hook.pair}
    <3>1. isdir => o.hook.pair = prev.pair
      BY <1>18
    <3> QED
      BY <3>1
  <2> HIDE DEF K
  <2>6. Inv'
    BY <1>3, <1>4, <1>15, <1>31, <1>34, <1>38, <2>4, <2>5, RenamesNext
  <2> QED
    BY <1>35, <2>6
<1> QED
  BY <1>36, <1>37, <1>38

(* lfs_mkdir_: the new pair is written, off the thread.                       *)
LEMMA MkdirInv ==
    ASSUME Inv, NEW d \in Dirs, NEW nm \in Names, lfs_mkdir_(d, nm)
    PROVE  Inv' /\ tree' = tree /\ Append(d.path, nm) \in Atomic!Paths
<1> DEFINE h    == FindIn(d, nm)
           end  == Last(Chain(blk, d.ent.pair))
           x    == Lowest(Free, 2)
           cur  == CHOOSE b \in x : TRUE
           g    == Delta(gstate, gdelta)
           m    == [Empty EXCEPT !.rev = 1, !.tail = end.m.tail, !.g = g]
<1>1. /\ Running("idle") /\ gdisk.moves = {} /\ gstate.orphans = 0
      /\ ~Present(h, nm) /\ Cardinality(Free) >= 2 + Spare
      /\ blk' = [b \in Blocks |-> CASE b = cur -> m [] b \in x \ {cur} -> Empty [] OTHER -> blk[b]]
      /\ gstate' = gstate /\ gdisk' = gstate /\ gdelta' = NoG /\ taken' = x /\ deo' = deo /\ tree' = tree
      /\ op' = IF h.m.split THEN [NoOp EXCEPT !.at = "link", !.h = end, !.hook = h, !.name = nm, !.pair = x]
               ELSE [NoOp EXCEPT !.at = "add", !.hook = h, !.name = nm, !.pair = x]
      /\ call'.path = Append(d.path, nm)
  BY DEF lfs_mkdir_, Ready, Asks
<1>2. /\ RamInv /\ deo = NoDeo /\ gstate.moves = {} /\ gstate \in Rams /\ gdisk \in Rams
      /\ gdelta = NoG /\ blk \in Disks
  BY <1>1, IdleIs DEF RamInv
<1>3. PICK n, P, C : Plan(n, P, C, {}, OnDisk(gdisk)) /\ Reads(blk, n, P, C) /\ Knots(n, P, C, {}, gstate)
  BY <1>1, IdleIs
<1>4. PICK i, j, e : /\ Rooted(n, P, C, P[i]) /\ InChain(n, P, C, i, j) /\ h = Fetch(blk, P[j])
                     /\ InChain(n, P, C, i, e) /\ end = Fetch(blk, P[e]) /\ ~C[P[e]].split
  BY <1>1, <1>2, <1>3, DirsOn
<1>5. j \in 1 .. n /\ e \in 1 .. n /\ Rooted(n, P, C, P[j]) /\ n \in Nat
  <2>1. n \in Nat
    BY <1>3, LineAlong DEF Plan
  <2> QED
    BY <1>3, <1>4, <2>1, ChainRooted
<1>6. ~C[P[j]].split => j = e
  BY <1>4, <1>5, ChainEndsOnce
<1>7. /\ h.m = C[P[j]] /\ end.m = C[P[e]] /\ C[P[j]].ents[nm] = NoEnt
      /\ C[P[e]].tail \in SUBSET Blocks /\ \A k \in 1 .. n : P[k] \in Pairs
  <2>1. h.m = C[P[j]] /\ end.m = C[P[e]]
    BY <1>3, <1>4, <1>5 DEF Reads
  <2>2. h.m.ents[nm] = NoEnt
    BY <1>1 DEF Present, Has, MoveHere
  <2>3. C[P[e]] \in Contents
    BY <1>3, <1>5, EntsIs
  <2>4. P \in [1 .. n -> Pairs]
    BY <1>3, LineAlong DEF Plan
  <2> QED
    BY <2>1, <2>2, <2>3, <2>4 DEF Contents
<1>8. /\ Room(PairsOf(n, P), C, P[j], nm)
      /\ AloneIn(Firsts(n, P, C), PairsOf(n, P), C, d.ent.pair, P[j])
  <2>1. h.pair = P[j]
    BY <1>4 DEF Fetch
  <2>2. Sorted(PairsOf(n, P), C)
    BY <1>1, <1>3, AllTied
  <2> HIDE DEF end
  <2> QED
    BY <1>1, <1>2, <1>3, <1>5, <2>1, <2>2, PlaceFound
<1>9. g \in Gs /\ g.moves = {} /\ Xor(OnDisk(gstate), g) = OnDisk(gdisk) /\ OnDisk(gdisk) \in Gs
  <2>1. g \in Gs /\ Xor(OnDisk(gdisk), g) = OnDisk(gstate)
    <3>1. g = Delta(gstate, NoG)
      BY <1>2
    <3>2. NoG \in Gs
      BY DEF NoG, Gs
    <3> HIDE DEF g
    <3> QED
      BY <1>2, <3>1, <3>2, DeltaIs
  <2>2. OnDisk(gdisk) \in Gs /\ OnDisk(gdisk).moves = {} /\ OnDisk(gstate).moves = {}
    <3>1. OnDisk(gdisk) \in Gs
      BY <1>2, OnDiskTyped
    <3> QED
      BY <1>1, <1>2, <3>1 DEF OnDisk
  <2> HIDE DEF g
  <2>3. Xor(Xor(OnDisk(gdisk), g), g) = OnDisk(gdisk)
    BY <2>1, <2>2, XorMoves
  <2>4. (OnDisk(gdisk).moves \ g.moves) \cup (g.moves \ OnDisk(gdisk).moves) = OnDisk(gstate).moves
    BY <2>1 DEF Xor
  <2> QED
    BY <2>1, <2>2, <2>3, <2>4
<1>10. Cardinality(Free) > 1
  <2>1. IsFiniteSet(Free)
    BY ThreadAssumption, FS_Subset DEF Free
  <2>2. Cardinality(Free) \in Nat
    BY <2>1, FS_CardinalityType
  <2> HIDE DEF h
  <2> QED
    BY <1>1, <2>2, TreeAssumption
<1>11. x \in Pairs /\ x \subseteq Free /\ cur \in x
  <2>1. x \in Pairs /\ x \subseteq Free
    BY <1>10, LowestTwo DEF Free
  <2> HIDE DEF x
  <2> QED
    BY <2>1 DEF Pairs
<1> HIDE DEF x, cur, g
<1>12. \A k \in 1 .. n : P[k] \cap x = {}
  <2>1. \A k \in 1 .. n : P[k] \cap Free = {}
    BY <1>2, <1>3, FreeAvoids DEF Plan
  <2> QED
    BY <1>11, <2>1
<1>13. /\ m \in Contents /\ Empty \in Contents /\ m.rev = 1 /\ m.tail = C[P[e]].tail /\ m.g = g /\ Blank(m)
       /\ Empty.rev = 0
  <2>1. NoEnt \in Ents /\ NoG \in Gs
    BY <1>3, <1>5, <1>9, EntsIs, XorWith
  <2> HIDE DEF end
  <2> QED
    BY <1>7, <1>9, <2>1 DEF Empty, Contents, NoPair, Blank
<1> HIDE DEF m
<1>14. /\ blk' \in Disks /\ blk'[cur] = m /\ \A b \in x : b # cur => blk'[b] = Empty
       /\ \A b \in Blocks : b \notin x => blk'[b] = blk[b]
  BY <1>1, <1>2, <1>11, <1>13 DEF Disks, Pairs
<1>15. Settled(blk', x) /\ Fetch(blk', x).m = m
  BY <1>11, <1>13, <1>14, WritePair
<1>16. \A k \in 1 .. n : Settled(blk', P[k]) /\ Fetch(blk', P[k]) = Fetch(blk, P[k])
  <2> SUFFICES ASSUME NEW k \in 1 .. n PROVE Settled(blk', P[k]) /\ Fetch(blk', P[k]) = Fetch(blk, P[k])
    OBVIOUS
  <2>1. \A c \in P[k] : blk'[c] = blk[c]
    BY <1>7, <1>12, <1>14 DEF Pairs
  <2> QED
    BY <1>2, <1>3, <1>14, <2>1, FetchAgrees DEF Reads
<1>17. Reads(blk', n, P, C)
  BY <1>3, <1>16 DEF Reads
<1>18. /\ op'.at = (IF h.m.split THEN "link" ELSE "add") /\ op'.hook = h /\ op'.name = nm /\ op'.pair = x
       /\ h.m.split => op'.h = end
  <2> HIDE DEF h, end
  <2> QED
    BY <1>1 DEF NoOp
<1> HIDE DEF h, end
<1>19. New(blk, n, P, op.pair, C[P[e]].tail)'
  BY <1>1, <1>9, <1>12, <1>13, <1>15, <1>18 DEF New
<1>20. Owed' = g
  <2>1. op'.at \in {"link", "add"}
    BY <1>18
  <2> QED
    BY <1>13, <1>15, <1>18, <2>1 DEF Owed
<1>21. Whole(n, P, C)'
  BY <1>1, <1>2, <1>3, <1>9, <1>17, <1>20 DEF Whole
<1>22. RamInv' /\ Nodes(blk, {}) = Nodes(blk', {})
  <2>1. OnDisk(gdisk).moves = {} /\ {} \in SUBSET Moves
    BY <1>1 DEF OnDisk
  <2>2. Mounted(blk) = Mounted(blk') /\ Nodes(blk, {}) = Nodes(blk', {})
    BY <1>2, <1>3, <1>14, <1>17, <2>1, MountedSame
  <2> QED
    BY <1>1, <1>2, <1>14, <2>2 DEF RamInv
<1>23. Hook(n, P, C, j)'
  <2>1. d \in Nodes(blk', {}) /\ d.ent.type = "dir"
    BY <1>1, <1>22 DEF Dirs
  <2>2. Asked(n, P, C, P[j])'
    BY <1>1, <1>8, <1>18, <2>1 DEF Asked
  <2> QED
    BY <1>4, <1>5, <1>7, <1>16, <1>18, <1>8, <2>2 DEF Hook
<1>24. OpInv(n, P, C)'
  <2>1. CASE h.m.split
    <3>1. op'.at = "link" /\ op'.h = Fetch(blk', P[e]) /\ C[P[j]].split
      BY <1>4, <1>5, <1>7, <1>16, <1>18, <2>1
    <3>2. Linking(n, P, C)'
      BY <1>1, <1>2, <1>4, <1>5, <1>18, <1>19, <1>23, <3>1 DEF Linking
    <3> QED
      BY <3>2 DEF OpInv
  <2>2. CASE ~h.m.split
    <3>1. op'.at = "add" /\ ~C[P[j]].split /\ j = e
      BY <1>6, <1>7, <1>18, <2>2
    <3>2. Adding(n, P, C)'
      BY <1>1, <1>2, <1>5, <1>18, <1>19, <1>23, <3>1 DEF Adding, Rooted
    <3> QED
      BY <3>2 DEF OpInv
  <2> QED
    BY <2>1, <2>2
<1>25. Knit(n, P, C)'
  <2>1. Ties(n, P, C, {}, {})
    BY <1>1, <1>3, AllTied DEF Ties
  <2>2. Loose(n, P, {})'
    BY <1>1, <1>2 DEF Loose, NoDeo
  <2>3. gdisk'.moves = {}
    BY <1>1, <1>2
  <2> QED
    BY <2>1, <2>2, <2>3 DEF Knit
<1>26. Append(d.path, nm) \in Atomic!Paths
  <2>1. OnDisk(gdisk).moves = {}
    BY <1>1 DEF OnDisk
  <2>2. tree = Shades(Nodes(blk, {}))
    BY <1>2, <1>3, <2>1, MountedIs DEF RamInv
  <2>3. d \in Nodes(blk, {}) /\ d.ent.type = "dir"
    BY <1>1 DEF Dirs
  <2> QED
    BY <2>2, <2>3, PathsIs
<1> QED
  BY <1>1, <1>2, <1>21, <1>22, <1>24, <1>25, <1>26 DEF Inv

(* The plan of a commit that puts a new pair on the thread behind P[i].        *)
LinkedIn(n, P, C, C1, i, x, gs) ==
    /\ Plan(n + 1, Ins(n, P, i, x), C1, {}, OnDisk(gs)) /\ Elsewhere(blk, n + 1, Ins(n, P, i, x), C1, i)
    /\ PairsOf(n + 1, Ins(n, P, i, x)) = PairsOf(n, P) \cup {x}
    /\ Hards(n + 1, Ins(n, P, i, x), C1) = Hards(n, P, C)
    /\ x \notin PairsOf(n, P) /\ x \notin Fixed(n, P, C)
    /\ Unled(PairsOf(n + 1, Ins(n, P, i, x)), C1, x)
    /\ \A k \in 1 .. n : k # i => C1[P[k]] = C[P[k]]
    /\ C1[P[i]] = [C[P[i]] EXCEPT !.tail = x, !.split = FALSE, !.g = Xor(C[P[i]].g, Delta(gs, NoG))]
    /\ C1[P[i]] \in Contents
    /\ \A k \in 1 .. n + 1 : Ins(n, P, i, x)[k] \cap Free = {}

(* A thread with the new pair put in behind pair i.                           *)
LEMMA LinkPlan ==
    ASSUME NEW gs \in Rams, gdisk \in Rams, blk \in Disks, NEW n, NEW P, NEW C, NEW x,
           Plan(n, P, C, {}, Xor(OnDisk(gdisk), Fetch(blk, x).m.g)), Reads(blk, n, P, C),
           NEW i \in 1 .. n, ~C[P[i]].split, New(blk, n, P, x, C[P[i]].tail)
    PROVE  \E C1 : LinkedIn(n, P, C, C1, i, x, gs)
<1> DEFINE d  == Delta(gs, NoG)
           y  == OnDisk(gdisk)
           w  == Fetch(blk, x).m
           m  == [C[P[i]] EXCEPT !.tail = x, !.split = FALSE, !.g = Xor(C[P[i]].g, d)]
           C1 == [p \in Pairs |-> IF p = P[i] THEN m ELSE IF p = x THEN w ELSE C[p]]
           Q  == Ins(n, P, i, x)
<1>1. /\ P \in [1 .. n -> Pairs] /\ n \in Nat /\ P[1] = Root /\ 1 \in 1 .. n
      /\ \A j, k \in 1 .. n : P[j] = P[k] => j = k
      /\ C[P[i]] \in Contents
  <2>1. n \in Nat \ {0}
    BY LineAlong DEF Plan
  <2>2. n \in Nat /\ 1 \in 1 .. n
    BY <2>1
  <2>3. /\ P \in [1 .. n -> Pairs] /\ P[1] = Root
        /\ \A j, k \in 1 .. n : P[j] = P[k] => j = k
        /\ C[P[i]] \in Contents
    BY LineAlong DEF Plan
  <2> QED
    BY <2>2, <2>3
<1>2. /\ x \in Pairs /\ w \in Contents /\ w.g \in Gs /\ w.tail = C[P[i]].tail /\ Blank(w)
      /\ \A k \in 1 .. n : P[k] \cap x = {}
  <2>1. x \in Pairs /\ w \in Contents
    BY FetchSettled DEF New
  <2> QED
    BY <2>1 DEF New, Contents
<1>3. y \in Gs /\ d \in Gs /\ Xor(y, d) = OnDisk(gs)
  BY <1>2, OnDiskTyped, DeltaIs
<1> HIDE DEF y, d, w
<1>4. C[P[i]].g \in Gs /\ Xor(C[P[i]].g, d) \in Gs /\ x \in SUBSET Blocks /\ x # {}
  <2>1. C[P[i]].g \in Gs
    BY <1>1 DEF Contents
  <2> QED
    BY <1>2, <1>3, <2>1, XorTyped DEF Pairs
<1>5. /\ m \in Contents /\ m.tail = x /\ m.split = FALSE /\ m.g = Xor(C[P[i]].g, d) /\ m.ents = C[P[i]].ents
  BY <1>1, <1>4 DEF Contents
<1> HIDE DEF m
<1>6. \A k \in 1 .. n : P[k] # x
  BY <1>2, <1>4
<1>7. C1[P[i]] = m /\ C1[x] = w /\ \A k \in 1 .. n : k # i => C1[P[k]] = C[P[k]]
  BY <1>1, <1>2, <1>6
<1> HIDE DEF C1
<1>8. Xor(Xor(Xor(y, w.g), d), C1[x].g) = OnDisk(gs)
  <2>1. Xor(y, w.g) \in Gs /\ Xor(y, d) \in Gs
    BY <1>2, <1>3, XorTyped
  <2>2. Xor(Xor(y, w.g), d) = Xor(Xor(y, d), w.g)
    BY <1>2, <1>3, XorMoves
  <2>3. Xor(Xor(Xor(y, d), w.g), w.g) = Xor(y, d)
    BY <1>2, <2>1, XorMoves
  <2> QED
    BY <1>3, <1>7, <2>2, <2>3
<1>9. /\ Plan(n + 1, Q, C1, {}, Xor(Xor(Xor(y, w.g), d), C1[x].g))
      /\ PairsOf(n + 1, Q) = PairsOf(n, P) \cup {x}
      /\ Hards(n + 1, Q, C1) = Hards(n, P, C)
      /\ Unled(PairsOf(n + 1, Q), C1, x)
      /\ x \notin PairsOf(n, P) /\ x \notin Hards(n, P, C)
  <2>1. /\ C1[P[i]] \in Contents /\ C1[x] \in Contents /\ C1[P[i]].tail = x /\ ~C1[P[i]].split
        /\ C1[x].tail = C[P[i]].tail /\ Blank(C1[x])
        /\ C1[P[i]].g = Xor(C[P[i]].g, d) /\ C1[P[i]].ents = C[P[i]].ents
    BY <1>2, <1>5, <1>7
  <2>2. Plan(n, P, C, {}, Xor(y, w.g))
    BY DEF y, w
  <2> QED
    BY <1>2, <1>3, <1>7, <2>1, <2>2, PlanLink
<1>10. Plan(n + 1, Q, C1, {}, OnDisk(gs))
  BY <1>8, <1>9
<1>11. /\ \A k \in 1 .. n + 1 : k # i => Q[k] = x \/ \E l \in 1 .. n : l # i /\ Q[k] = P[l]
       /\ \A k \in 1 .. n + 1 : Q[k] = x \/ \E l \in 1 .. n : Q[k] = P[l]
  BY <1>1, InsPlace
<1>12. Elsewhere(blk, n + 1, Q, C1, i)
  <2>1. Settled(blk, x) /\ Fetch(blk, x).m = C1[x]
    BY <1>7 DEF New, w
  <2>2. \A l \in 1 .. n : l # i => Settled(blk, P[l]) /\ Fetch(blk, P[l]).m = C1[P[l]]
    BY <1>7 DEF Reads
  <2> HIDE DEF Q
  <2> QED
    BY <1>11, <2>1, <2>2 DEF Elsewhere
<1>13. \A k \in 1 .. n + 1 : Q[k] \cap Free = {}
  <2>1. x \cap Free = {}
    BY DEF New, Free
  <2>2. \A l \in 1 .. n : P[l] \cap Free = {}
    BY FreeAvoids DEF Plan
  <2> HIDE DEF Q
  <2> QED
    BY <1>11, <2>1, <2>2
<1>14. x \notin Fixed(n, P, C)
  BY <1>1, <1>6, <1>9 DEF Fixed
<1>15. C1[P[i]] = [C[P[i]] EXCEPT !.tail = x, !.split = FALSE, !.g = Xor(C[P[i]].g, Delta(gs, NoG))]
       /\ C1[P[i]] \in Contents
  <2>1. C1[P[i]] = [C[P[i]] EXCEPT !.tail = x, !.split = FALSE, !.g = Xor(C[P[i]].g, d)]
    BY <1>7 DEF m
  <2> QED
    BY <1>5, <1>7, <2>1 DEF d
<1>16. LinkedIn(n, P, C, C1, i, x, gs)
  BY <1>7, <1>9, <1>10, <1>12, <1>13, <1>14, <1>15 DEF LinkedIn
<1> QED
  BY <1>16

(* x enters the line P empty: the names and their order stay.                 *)
Enters(n, P, C, C1, x) ==
    /\ Blank(C1[x])
    /\ \A q \in PairsOf(n, P) : C1[q].ents = C[q].ents /\ C1[q].split = C[q].split
    /\ \A q \in PairsOf(n, P) : C[q].split => C1[q].tail = C[q].tail
    /\ \A T : Keeps(PairsOf(n, P), C, PairsOf(n, P) \cup {x}, C1, T)

(* The new pair is empty; the names and their order stay.                     *)
LEMMA LinkKeeps ==
    ASSUME NEW n, NEW P, NEW C, NEW g, Plan(n, P, C, {}, g), NEW i \in 1 .. n, NEW x,
           ~C[P[i]].split, New(blk, n, P, x, C[P[i]].tail), NEW C1, NEW gs, LinkedIn(n, P, C, C1, i, x, gs)
    PROVE  Enters(n, P, C, C1, x)
<1> DEFINE Q == Ins(n, P, i, x)
<1>1. n \in Nat /\ C[P[i]] \in Contents
  BY LineAlong DEF Plan
<1>2. /\ \A q \in PairsOf(n, P) : C1[q].ents = C[q].ents /\ C1[q].split = C[q].split
      /\ \A q \in PairsOf(n, P) : C[q].split => C1[q].tail = C[q].tail
  <2>1. C1[P[i]].ents = C[P[i]].ents /\ C1[P[i]].split = FALSE
    BY <1>1 DEF LinkedIn, Contents
  <2>2. C[P[i]].split = FALSE
    BY <1>1 DEF Contents
  <2>3. \A k \in 1 .. n : k # i => C1[P[k]] = C[P[k]]
    BY DEF LinkedIn
  <2> QED
    BY <2>1, <2>2, <2>3 DEF PairsOf
<1>3. Blank(C1[x])
  <2>1. PICK k \in 1 .. n + 1 : k # i /\ Q[k] = x
    BY <1>1, InsPlace
  <2>2. Settled(blk, x) /\ Fetch(blk, x).m = C1[x]
    BY <2>1 DEF LinkedIn, Elsewhere
  <2> QED
    BY <2>2 DEF New
<1>4. ASSUME NEW T PROVE Keeps(PairsOf(n, P), C, PairsOf(n, P) \cup {x}, C1, T)
  <2>1. Tails(PairsOf(n, P), C)
    BY TailsIs DEF Plan
  <2>2. ~C1[x].split /\ Bare(C1[x])
    BY <1>3 DEF Blank, Bare
  <2>3. x \notin PairsOf(n, P)
    BY DEF LinkedIn
  <2> QED
    BY <1>2, <2>1, <2>2, <2>3, KeepsIns
<1> QED
  BY <1>2, <1>3, <1>4 DEF Enters

(* It is on the thread, and on no path yet.                                   *)
LEMMA LinkTied ==
    ASSUME NEW n, NEW P, NEW C, NEW g, Plan(n, P, C, {}, g), Ties(n, P, C, {}, {}), NEW i \in 1 .. n, NEW x,
           ~C[P[i]].split, New(blk, n, P, x, C[P[i]].tail), NEW C1, NEW gs, LinkedIn(n, P, C, C1, i, x, gs)
    PROVE  Ties(n + 1, Ins(n, P, i, x), C1, {}, {x})
<1> DEFINE Q == Ins(n, P, i, x)
<1>1. /\ Unled(PairsOf(n + 1, Q), C1, x) /\ PairsOf(n + 1, Q) = PairsOf(n, P) \cup {x}
      /\ Hards(n + 1, Q, C1) = Hards(n, P, C)
      /\ x \notin PairsOf(n, P) /\ x \notin Hards(n, P, C) /\ x # Root
  BY DEF LinkedIn, Fixed
<1>2. /\ Blank(C1[x])
      /\ \A q \in PairsOf(n, P) : C1[q].ents = C[q].ents /\ C1[q].split = C[q].split
      /\ \A q \in PairsOf(n, P) : C[q].split => C1[q].tail = C[q].tail
      /\ Keeps(PairsOf(n, P), C, PairsOf(n, P) \cup {x}, C1, {})
  <2>1. Enters(n, P, C, C1, x)
    BY LinkKeeps
  <2> QED
    BY <2>1 DEF Enters
<1>3. ASSUME NEW N, Tied(PairsOf(n, P), Hards(n, P, C), C, {}, N)
      PROVE  Tied(PairsOf(n, P) \cup {x}, Hards(n, P, C), C1, {}, N \cup {x})
  <2> DEFINE S == PairsOf(n, P)
             Z == Hards(n, P, C)
  <2> HIDE DEF S, Z
  <2>1. /\ x \notin S /\ x \notin Z /\ x # Root
        /\ \A q \in S : C1[q].ents = C[q].ents /\ C1[q].split = C[q].split
        /\ \A q \in S : C[q].split => C1[q].tail = C[q].tail
    BY <1>1, <1>2 DEF S, Z
  <2>2. Tied(S, Z, C, {}, N) /\ Unled(S \cup {x}, C1, x)
    BY <1>1, <1>3 DEF S, Z
  <2>3. Tied(S \cup {x}, Z, C1, {}, N \cup {x})
    BY <1>2, <2>1, <2>2, TiedIns
  <2> QED
    BY <2>3 DEF S, Z
<1>4. {} \cup {x} = {x}
  OBVIOUS
<1>5. Sorted(PairsOf(n + 1, Q), C1)
  BY <1>1, <1>2 DEF Ties, Keeps, Lasts
<1>6. Tied(PairsOf(n, P) \cup {x}, Hards(n, P, C), C1, {}, {x})
  BY <1>3, <1>4 DEF Ties
<1>7. Tied(PairsOf(n + 1, Q), Hards(n + 1, Q, C1), C1, {}, {x})
  BY <1>1, <1>6
<1> QED
  BY <1>5, <1>7 DEF Ties

(* The new pair is put on the thread, an orphan still.                        *)
LEMMA MkdirLinkInv == ASSUME Inv, MkdirLink, com' = NoCom, Awaits PROVE Inv' /\ tree' = tree
<1> DEFINE x  == op.pair
           gs == Announce(gstate)
           o  == [op EXCEPT !.at = "unlink", !.h = NoHandle]
           c  == [op.h.m EXCEPT !.tail = x, !.split = FALSE]
<1>1. op.at = "link" /\ Start(op.h, c, FALSE, gs, gdelta, o, deo) /\ ~deo.on
  BY DEF MkdirLink, Running
<1>2. PICK n, P, C : /\ Whole(n, P, C) /\ OpInv(n, P, C) /\ (deo = NoDeo \/ Repairing(n, P))
                     /\ Knit(n, P, C)
  BY DEF Inv
<1>3. Linking(n, P, C)
  BY <1>1, <1>2 DEF OpInv, NoOp, Unlinking, Adding, Renaming, Dropping
<1>4. /\ RamInv /\ deo = NoDeo /\ gstate.moves = {} /\ gdisk.moves = {} /\ gstate \in Rams /\ gdisk \in Rams
      /\ gdelta = NoG /\ blk \in Disks
  <2>1. op # NoOp
    BY <1>1 DEF NoOp
  <2> QED
    BY <1>2, <1>3, <2>1 DEF Repairing, Linking, Inv, RamInv
<1>5. PICK i \in 1 .. n, j \in 1 .. n :
          /\ op.h = Fetch(blk, P[i]) /\ ~C[P[i]].split /\ New(blk, n, P, x, C[P[i]].tail)
          /\ Hook(n, P, C, j) /\ C[P[j]].split
  BY <1>3 DEF Linking
<1>6. Plan(n, P, C, {}, Xor(OnDisk(gdisk), Fetch(blk, x).m.g)) /\ Reads(blk, n, P, C)
  BY <1>1, <1>2, <1>4 DEF Whole, Owed
<1>7. gs \in Rams /\ gs.moves = {} /\ gs.orphans >= 1
  BY <1>4, RamsIs
<1> HIDE DEF x, gs
<1>8. PICK C1 : LinkedIn(n, P, C, C1, i, x, gs)
  BY <1>4, <1>5, <1>6, <1>7, LinkPlan
<1> DEFINE Q == Ins(n, P, i, x)
<1>9. /\ n \in Nat /\ \A k \in 1 .. n : k # i => P[k] \cap P[i] = {}
      /\ C[P[i]] \in Contents /\ Fetch(blk, P[i]).m = C[P[i]]
  BY <1>6, LineAlong DEF Plan, Reads
<1>10. /\ i \in 1 .. n + 1 /\ Q[i] = P[i]
       /\ \A k \in 1 .. n : k # i => \E l \in 1 .. n + 1 : l # i /\ Q[l] = P[k]
  BY <1>9, InsPlace
<1> HIDE DEF Q
<1>11. Goes(Fetch(blk, Q[i]), c, gs, NoG, o, NoDeo)
  <2>1. ~Drops(op.h, c, FALSE)
    BY DEF Drops
  <2>2. Goes(op.h, c, gs, gdelta, o, deo)
    BY <1>1, <1>4, <2>1, StartGoes
  <2> QED
    BY <1>4, <1>5, <1>10, <2>2
<1>12. Delta(gs, NoG) \in Gs
  <2>1. NoG \in Gs
    BY DEF NoG, Gs
  <2> QED
    BY <1>4, <1>7, <2>1, DeltaIs
<1>13. Fills(C1[Q[i]], c, Xor(Fetch(blk, Q[i]).m.g, Delta(gs, NoG)))
  <2>1. op.h.m = C[P[i]]
    BY <1>5, <1>9
  <2>2. C1[P[i]] = [C[P[i]] EXCEPT !.tail = x, !.split = FALSE, !.g = Xor(C[P[i]].g, Delta(gs, NoG))]
    BY <1>8 DEF LinkedIn
  <2> QED
    BY <1>9, <1>10, <2>1, <2>2 DEF Fills, Contents
<1>14. /\ o.at = "unlink" /\ o.hook = op.hook /\ o.name = op.name /\ o.pair = x
  <2>1. op.hook.pair = op.hook.pair
    OBVIOUS
  <2> QED
    BY <1>1 DEF x
<1> HIDE DEF o, c
<1>15. o.hook.pair \cap Q[i] = {} /\ j # i /\ Fetch(blk, P[j]).m = C[P[j]]
  <2>1. j # i
    BY <1>5
  <2>2. Fetch(blk, P[j]).pair = P[j] /\ Fetch(blk, P[j]).m = C[P[j]]
    BY <1>4, <1>6, FetchSettled DEF Reads
  <2> QED
    BY <1>5, <1>9, <1>10, <1>14, <2>1, <2>2 DEF Hook
<1>16. /\ Moved(gs) /\ op' = o
       /\ deo' = IF NoDeo.on THEN [NoDeo EXCEPT !.pdir = Fetch(blk', Q[i])] ELSE NoDeo
       /\ \E n2, P2, C2 : /\ Plan(n2, P2, C2, gs.moves, OnDisk(gs))
                          /\ After(blk, blk', Fetch(blk', Q[i]), n + 1, Q, C1, i, n2, P2, C2)
  <2>1. /\ Plan(n + 1, Q, C1, gs.moves, OnDisk(gs)) /\ Elsewhere(blk, n + 1, Q, C1, i)
        /\ \A k \in 1 .. n + 1 : Q[k] \cap Free = {}
    BY <1>7, <1>8 DEF LinkedIn, Q
  <2>2. Settled(blk, Q[i]) /\ Still(gs.moves, Q[i])
    BY <1>6, <1>7, <1>10 DEF Reads, Still
  <2> QED
    BY <1>4, <1>7, <1>10, <1>11, <1>12, <1>13, <1>15, <2>1, <2>2, GoesOn
<1>17. deo' = NoDeo
  BY <1>16 DEF NoDeo
<1>18. PICK n2, P2, C2 : /\ Plan(n2, P2, C2, gs.moves, OnDisk(gs))
                         /\ After(blk, blk', Fetch(blk', Q[i]), n + 1, Q, C1, i, n2, P2, C2)
  BY <1>16
<1>19. /\ blk' \in Disks /\ Reads(blk', n2, P2, C2)
       /\ PairsOf(n + 1, Q) \subseteq PairsOf(n2, P2)
       /\ \A p \in PairsOf(n + 1, Q) : p \in Hards(n2, P2, C2) <=> p \in Hards(n + 1, Q, C1)
       /\ \A k \in 1 .. n + 1 : k # i => Fetch(blk', Q[k]) = Fetch(blk, Q[k])
       /\ \A p : Unled(PairsOf(n + 1, Q), C1, p) => Unled(PairsOf(n2, P2), C2, p)
  BY <1>18 DEF After
<1>20. /\ x \in PairsOf(n + 1, Q) /\ x \notin Hards(n + 1, Q, C1) /\ x # Root
       /\ Unled(PairsOf(n + 1, Q), C1, x)
  BY <1>8 DEF LinkedIn, Q, Fixed
<1>21. x \in PairsOf(n2, P2) \ Fixed(n2, P2, C2) /\ Unled(PairsOf(n2, P2), C2, x)
  BY <1>19, <1>20 DEF Fixed
<1>22. PICK l \in 1 .. n2 : P2[l] = P[j] /\ Fetch(blk', P2[l]) = Fetch(blk, P[j]) /\ C2[P2[l]] = C[P[j]]
  <2>1. PICK k \in 1 .. n + 1 : k # i /\ Q[k] = P[j]
    BY <1>10, <1>15
  <2>2. Fetch(blk', P[j]) = Fetch(blk, P[j]) /\ P[j] \in PairsOf(n2, P2)
    BY <1>19, <2>1 DEF PairsOf
  <2>3. PICK l \in 1 .. n2 : P2[l] = P[j]
    BY <2>2 DEF PairsOf
  <2>4. C2[P2[l]] = Fetch(blk', P2[l]).m
    BY <1>19 DEF Reads
  <2> QED
    BY <1>15, <2>2, <2>3, <2>4
<1>23. Keeps(PairsOf(n, P), C, PairsOf(n2, P2), C2, {P[j]}) /\ Keeps(PairsOf(n, P), C, PairsOf(n2, P2), C2, {})
  <2>1. Enters(n, P, C, C1, x)
    BY <1>5, <1>6, <1>8, LinkKeeps
  <2>2. PairsOf(n + 1, Q) = PairsOf(n, P) \cup {x}
    BY <1>8 DEF LinkedIn, Q
  <2>3. /\ Keeps(PairsOf(n, P), C, PairsOf(n + 1, Q), C1, {P[j]})
        /\ Keeps(PairsOf(n, P), C, PairsOf(n + 1, Q), C1, {})
    BY <2>1, <2>2 DEF Enters
  <2>4. Keeps(PairsOf(n + 1, Q), C1, PairsOf(n2, P2), C2, PairsOf(n + 1, Q) \ {Q[i]})
    BY <1>18 DEF After
  <2>5. {P[j]} \subseteq PairsOf(n + 1, Q) \ {Q[i]}
    <3>1. P[j] \cap P[i] = {} /\ P[j] # {} /\ P[j] \in PairsOf(n, P)
      <4>1. Line(n, P, Along(n, P, C))
        BY <1>6 DEF Plan
      <4>2. P \in [1 .. n -> Pairs]
        BY <4>1, LineAlong
      <4>3. P[j] \in Pairs
        BY <4>2
      <4> QED
        BY <1>9, <1>15, <4>3 DEF Pairs, PairsOf
    <3> QED
      BY <1>10, <2>2, <3>1
  <2>6. PairsOf(n, P) \cap PairsOf(n2, P2) \subseteq PairsOf(n + 1, Q) /\ {} \subseteq PairsOf(n + 1, Q) \ {Q[i]}
    BY <2>2
  <2>7. Keeps(PairsOf(n, P), C, PairsOf(n2, P2), C2, {P[j]})
    BY <2>3, <2>4, <2>5, <2>6, KeepsThen
  <2>8. Keeps(PairsOf(n, P), C, PairsOf(n2, P2), C2, {})
    BY <2>3, <2>4, <2>6, KeepsThen
  <2> QED
    BY <2>7, <2>8
<1>24. P2[l] \in PairsOf(n, P) \cap PairsOf(n2, P2) /\ op.name \in Names /\ Room(PairsOf(n2, P2), C2, P2[l], op.name)
  <2>1. P2[l] = P[j] /\ P[j] \in PairsOf(n, P) \cap PairsOf(n2, P2)
    BY <1>22 DEF PairsOf
  <2>2. op.name \in Names /\ Room(PairsOf(n, P), C, P[j], op.name)
    BY <1>5 DEF Hook
  <2>3. Room(PairsOf(n2, P2), C2, P[j], op.name)
    BY <1>23, <2>1, <2>2 DEF Keeps
  <2> QED
    BY <2>1, <2>2, <2>3
<1>25. Mounted(blk) = Mounted(blk') /\ Nodes(blk, {}) = Nodes(blk', {})
  <2> DEFINE g == Xor(OnDisk(gdisk), Fetch(blk, x).m.g)
  <2>1. g.moves = {} /\ OnDisk(gs).moves = {}
    BY <1>4, <1>5, <1>7 DEF New, Xor, OnDisk
  <2>2. Plan(n, P, C, {}, g) /\ Reads(blk, n, P, C)
    BY <1>6
  <2>3. Plan(n2, P2, C2, {}, OnDisk(gs)) /\ Reads(blk', n2, P2, C2) /\ blk' \in Disks
    BY <1>7, <1>18, <1>19
  <2> HIDE DEF g
  <2> QED
    BY <1>4, <1>23, <2>1, <2>2, <2>3, CutSame
<1>26. Asked(n2, P2, C2, P2[l])'
  <2>1. PICK d \in Nodes(blk, {}) :
            /\ d.ent.type = "dir" /\ AloneIn(Firsts(n, P, C), PairsOf(n, P), C, d.ent.pair, P[j])
            /\ call.path = Append(d.path, op.name)
    BY <1>5 DEF Hook, Asked
  <2>2. d.ent.pair \in PairsOf(n2, P2) \ Hards(n2, P2, C2) /\ d.ent.pair \in PairsOf(n, P)
    <3>1. d.ent.pair \in PairsOf(n, P) \ Hards(n, P, C)
      BY <2>1 DEF AloneIn, Firsts
    <3>2. d.ent.pair \in PairsOf(n + 1, Q) \ Hards(n + 1, Q, C1)
      BY <1>8, <3>1 DEF LinkedIn, Q
    <3> QED
      BY <1>19, <3>1, <3>2
  <2>3. Part(PairsOf(n, P), C, d.ent.pair, P[j])
    BY <2>1 DEF AloneIn
  <2>4. Part(PairsOf(n2, P2), C2, d.ent.pair, P2[l])
    BY <1>22, <1>23, <1>24, <2>2, <2>3 DEF Keeps, Joined
  <2>5. Line(n2, P2, Along(n2, P2, C2))
    BY <1>18 DEF Plan
  <2>6. AloneIn(Firsts(n2, P2, C2), PairsOf(n2, P2), C2, d.ent.pair, P2[l])
    BY <2>2, <2>4, <2>5, PartAlone DEF Firsts
  <2>7. call'.path = call.path /\ op'.name = op.name
    BY <1>14, <1>16 DEF Awaits
  <2> QED
    BY <1>25, <2>1, <2>6, <2>7 DEF Asked
<1>27. Hook(n2, P2, C2, l)' /\ C2[P2[l]].split
  <2>1. op'.hook = op.hook /\ op'.name = op.name
    BY <1>14, <1>16
  <2>2. op.hook = Fetch(blk, P[j]) /\ C[P[j]].ents[op.name] = NoEnt /\ C[P[j]].split
    BY <1>5 DEF Hook
  <2> QED
    BY <1>22, <1>24, <1>26, <2>1, <2>2 DEF Hook
<1>28. Unlinking(n2, P2, C2)'
  <2>1. op'.at = "unlink" /\ op'.pair = x
    BY <1>14, <1>16
  <2>2. op'.pair \in PairsOf(n2, P2) \ Fixed(n2, P2, C2) /\ Unled(PairsOf(n2, P2), C2, op'.pair) /\ Blank(C2[op'.pair])
    <3>1. PICK k \in 1 .. n + 1 : k # i /\ Q[k] = x
      BY <1>5, <1>9, InsPlace DEF Q
    <3>2. Fetch(blk', x) = Fetch(blk, x) /\ x \in PairsOf(n2, P2)
      BY <1>19, <1>21, <3>1
    <3>3. C2[x] = Fetch(blk', x).m
      BY <1>19, <3>2 DEF Reads, PairsOf
    <3> QED
      BY <1>5, <1>21, <2>1, <3>2, <3>3 DEF New
  <2> QED
    BY <1>7, <1>16, <1>27, <2>1, <2>2 DEF Unlinking, Moved
<1>29. OpInv(n2, P2, C2)' /\ op'.at \notin {"link", "add"}
  BY <1>14, <1>16, <1>28 DEF OpInv
<1>30. Ties(n + 1, Q, C1, {}, {x})
  <2>1. Ties(n, P, C, {}, {})
    BY <1>1, <1>2, <1>4 DEF Knit, Loose
  <2>2. Ties(n + 1, Ins(n, P, i, x), C1, {}, {x})
    BY <1>5, <1>6, <1>8, <2>1, LinkTied
  <2> QED
    BY <2>2 DEF Q
<1>31. Ties(n2, P2, C2, gs.moves, {x})
  <2>1. Follows(PairsOf(n + 1, Q), Hards(n + 1, Q, C1), C1, PairsOf(n2, P2), Hards(n2, P2, C2), C2,
                PairsOf(n + 1, Q), {})
    BY <1>18 DEF After
  <2>2. Tied(PairsOf(n2, P2), Hards(n2, P2, C2), C2, {}, {x} \ {})
    BY <1>30, <2>1 DEF Follows, Ties
  <2>3. {x} \ {} = {x}
    OBVIOUS
  <2>4. Keeps(PairsOf(n + 1, Q), C1, PairsOf(n2, P2), C2, PairsOf(n + 1, Q) \ {Q[i]})
    BY <1>18 DEF After
  <2>5. Sorted(PairsOf(n2, P2), C2)
    BY <1>30, <2>4 DEF Ties, Keeps, Lasts
  <2> QED
    BY <1>7, <2>2, <2>3, <2>5 DEF Ties
<1>32. Apart(op', gs, {x})
  BY <1>7, <1>14, <1>16, RamsIs DEF Apart
<1>33. Inv'
  BY <1>7, <1>16, <1>17, <1>18, <1>19, <1>29, <1>31, <1>32, GoesAgain
<1> QED
  BY <1>4, <1>16, <1>33, <1>25 DEF RamInv, Moved

(* The entry of the new directory, when its pair is on the thread.            *)
LEMMA MkdirSplitInv ==
    ASSUME Inv, op.at = "unlink", com' = NoCom, NEW gs, gs = Preps(gstate, -1), ~deo.on,
           Start(op.hook, [op.hook.m EXCEPT !.ents[op.name] = Dir(op.pair)], FALSE, gs, gdelta, NoOp, deo),
           op.hook.m.split
    PROVE  Inv' /\ Atomic!Make(call.path, {"dir"}) /\ tree' # tree
<1>1. PICK n, P, C : /\ Whole(n, P, C) /\ OpInv(n, P, C) /\ (deo = NoDeo \/ Repairing(n, P))
                     /\ Knit(n, P, C)
  BY DEF Inv
<1>2. Unlinking(n, P, C)
  BY <1>1 DEF OpInv, NoOp, Linking, Adding, Renaming, Dropping
<1>3. /\ RamInv /\ deo = NoDeo /\ gstate.moves = {} /\ gdisk.moves = {} /\ gstate \in Rams /\ gdisk \in Rams
      /\ gdelta = NoG /\ blk \in Disks
  <2>1. op # NoOp
    BY DEF NoOp
  <2> QED
    BY <1>1, <1>2, <2>1 DEF Repairing, Unlinking, Inv, RamInv
<1>4. PICK j \in 1 .. n : Hook(n, P, C, j) /\ C[P[j]].split
  BY <1>2 DEF Unlinking
<1>5. Plan(n, P, C, {}, OnDisk(gdisk)) /\ Reads(blk, n, P, C)
  <2>1. OnDisk(gdisk) \in Gs
    BY <1>3, OnDiskTyped
  <2>2. Owed = NoG /\ Xor(OnDisk(gdisk), Owed) = OnDisk(gdisk)
    BY <2>1, XorWith DEF Owed
  <2> QED
    BY <1>1, <1>3, <2>2 DEF Whole
<1> DEFINE x == op.pair
           a == op.name
<1>6. /\ op.hook = Fetch(blk, P[j]) /\ a \in Names /\ C[P[j]].ents[a] = NoEnt
      /\ x \in PairsOf(n, P) \ Fixed(n, P, C) /\ Unled(PairsOf(n, P), C, x) /\ Blank(C[x])
      /\ Room(PairsOf(n, P), C, P[j], a)
  BY <1>2, <1>4 DEF Hook, Unlinking
<1>7. op.hook.m = C[P[j]]
  BY <1>5, <1>6 DEF Reads
<1> HIDE DEF x, a
<1> DEFINE ents == [C[P[j]].ents EXCEPT ![a] = Dir(x)]
           C1   == Edited(C, P[j], ents)
<1>8. C[P[j]].ents \in [Names -> Ents] /\ P[j] \in PairsOf(n, P)
  BY <1>5, EntsIs
<1>9. Dir(x) \in Ents /\ Dir(x).type = "dir" /\ Dir(x).pair = x
  <2>1. x \in Pairs
    <3>1. Line(n, P, Along(n, P, C))
      BY <1>5 DEF Plan
    <3>2. P \in [1 .. n -> Pairs]
      BY <3>1, LineAlong
    <3> QED
      BY <1>6, <3>2 DEF PairsOf
  <2> QED
    BY <2>1 DEF Dir, Ents, Kinds, Pairs
<1>10. ents \in [Names -> Ents] /\ ents[a] = Dir(x) /\ \A b \in Names : b # a => ents[b] = C[P[j]].ents[b]
  BY <1>6, <1>8, <1>9
<1>11. [op.hook.m EXCEPT !.ents[op.name] = Dir(op.pair)] = [Fetch(blk, P[j]).m EXCEPT !.ents = ents]
  BY <1>6, <1>7 DEF a, x
<1> HIDE DEF ents
<1>12. /\ \A q \in PairsOf(n, P) : q # P[j] => C1[q] = C[q]
       /\ C1[P[j]].ents = ents /\ C1[P[j]].split = C[P[j]].split /\ C1[P[j]].tail = C[P[j]].tail
  BY <1>5, <1>10, EditedChanged DEF Changed
<1> HIDE DEF C1
<1>13. Fits(PairsOf(n, P), Hards(n, P, C), C, {})
  BY <1>5 DEF Plan
<1>14. P[j] \in {Root} \cup Hards(n, P, C) \/ Led(PairsOf(n, P), C, {}, P[j])
  BY <1>4, <1>8, <1>13 DEF Fits, Orphans, Blank
<1>15. Fits(PairsOf(n, P), Hards(n, P, C), C1, {})
  <2>1. /\ \A b \in Names : b # a => C1[P[j]].ents[b] = C[P[j]].ents[b]
        /\ C1[P[j]].ents[a] = Dir(x)
    BY <1>10, <1>12
  <2>2. C1[P[j]].ents[a].type = "dir" =>
          /\ C1[P[j]].ents[a].pair \in PairsOf(n, P) \ ({Root} \cup Hards(n, P, C))
          /\ Unled(PairsOf(n, P), C, C1[P[j]].ents[a].pair)
    BY <1>6, <1>9, <2>1 DEF Fixed
  <2> QED
    BY <1>6, <1>8, <1>12, <1>13, <1>14, <2>1, <2>2, FitsAdd
<1>16. gs \in Rams /\ gs.moves = {}
  <2>1. gstate.orphans >= 1
    BY <1>2 DEF Unlinking
  <2> QED
    BY <1>3, <2>1, RamsIs
<1>17. Still(gs.moves, P[j]) /\ Aside(NoOp, n, P, C, j)
  BY <1>16 DEF Still, Aside, NoOp, NoHandle, NoPair
<1>18. Fits(PairsOf(n, P), Hards(n, P, C), Edited(C, P[j], ents), gs.moves)
  BY <1>15, <1>16 DEF C1
<1>19. Start(Fetch(blk, P[j]), [Fetch(blk, P[j]).m EXCEPT !.ents = ents], FALSE, gs, gdelta, NoOp, deo)
  BY <1>6, <1>11
<1>20. /\ Moved(gs) /\ op' = NoOp /\ deo' = NoDeo
       /\ \E n2, P2, C2 : /\ Plan(n2, P2, C2, gs.moves, OnDisk(gs))
                          /\ Kept(blk, blk', n, P, C, Edited(C, P[j], ents), j, n2, P2, C2)
  BY <1>3, <1>5, <1>10, <1>16, <1>17, <1>18, <1>19, Edits
<1>21. PICK K : /\ Tied(PairsOf(n, P), Hards(n, P, C), C, {}, K) /\ Sorted(PairsOf(n, P), C)
                /\ K \subseteq {x} /\ P[j] \notin K
  <2>1. PICK K : Ties(n, P, C, gdisk.moves, K) /\ Loose(n, P, K)
    BY <1>1 DEF Knit
  <2>2. Tied(PairsOf(n, P), Hards(n, P, C), C, {}, K) /\ K \subseteq {x} /\ Sorted(PairsOf(n, P), C)
    BY <1>3, <2>1 DEF Ties, Loose, x
  <2>3. P[j] \notin K
    BY <1>4, <2>2 DEF Tied, Blank
  <2> QED
    BY <2>2, <2>3
<1>22. OneEnt(PairsOf(n, P), C, C1, P[j], a) /\ C1[P[j]].ents[a] = Dir(x)
  BY <1>10, <1>12 DEF OneEnt
<1>23. Tied(PairsOf(n, P), Hards(n, P, C), C1, {}, {})
  <2>1. /\ C1[P[j]].ents[a].type = "dir" => C1[P[j]].ents[a].pair = x
        /\ C1[P[j]].ents[a].type # "dir" => x \notin K
    BY <1>9, <1>22
  <2>2. Tied(PairsOf(n, P), Hards(n, P, C), C1, {}, K \ {x})
    <3>1. Tied(PairsOf(n, P), Hards(n, P, C), C, {}, K) /\ P[j] \notin K
      BY <1>21
    <3>2. OneEnt(PairsOf(n, P), C, C1, P[j], a)
      BY <1>22
    <3>3. P[j] \in PairsOf(n, P) /\ a \in Names /\ C[P[j]].ents[a] = NoEnt
      BY <1>6, <1>8
    <3> QED
      BY <2>1, <3>1, <3>2, <3>3, TiedAdd, SMTT(30)
  <2>3. K \ {x} = {}
    BY <1>21
  <2> QED
    BY <2>2, <2>3
<1>24. Sorted(PairsOf(n, P), C1)
  BY <1>6, <1>22, SortedPut
<1>25. Bound(n, P, C, Edited(C, P[j], ents), j, gs, {})
  BY <1>15, <1>16, <1>17, <1>23, <1>24 DEF Bound, C1
<1>26. Turned(n, P, C, C1, {})
  <2>1. RamInv /\ gdisk.moves = {} /\ gs.moves = {}
    BY <1>3, <1>16
  <2>2. Turned(n, P, C, Edited(C, P[j], ents), gs.moves)
    BY <1>5, <1>10, <1>20, <1>21, <1>25, <2>1, EditTurns
  <2> QED
    BY <2>1, <2>2 DEF C1
<1>27. Atomic!Make(call.path, {"dir"}) /\ tree' # tree
  <2>1. PICK d \in Nodes(blk, {}) : /\ d.ent.type = "dir"
                                    /\ AloneIn(Firsts(n, P, C), PairsOf(n, P), C, d.ent.pair, P[j])
                                    /\ call.path = Append(d.path, a)
    BY <1>4 DEF Hook, Asked, a
  <2>2. C1[P[j]].ents[a].type \in Files \cup {"dir"} /\ C1[P[j]].ents[a].type \in {"dir"}
    BY <1>9, <1>22
  <2>3. C1[P[j]].ents[a].type = "dir" => Blank(C1[C1[P[j]].ents[a].pair])
    <3>1. x # P[j] /\ C1[x] = C[x]
      BY <1>4, <1>6, <1>12 DEF Blank
    <3> QED
      BY <1>6, <1>9, <1>22, <3>1
  <2>4. Atomic!Make(Append(d.path, a), {"dir"}) /\ tree' # tree
    BY <1>6, <1>22, <1>26, <2>1, <2>2, <2>3, TurnsAdd
  <2> QED
    BY <2>1, <2>4
<1> QED
  BY <1>16, <1>20, <1>25, <1>27, KeptIdle

(* The nodes, by what C1 says of a thread that lists the same;                *)
LEMMA LikeNodes ==
    ASSUME NEW b \in Disks, NEW n, NEW P, NEW C, NEW g, Plan(n, P, C, {}, g), g.moves = {}, Reads(b, n, P, C),
           NEW N1, NEW Q, NEW C1, NEW g1, Plan(N1, Q, C1, {}, g1), Sorted(PairsOf(N1, Q), C1),
           Firsts(n, P, C) \subseteq PairsOf(N1, Q) \cap Firsts(N1, Q, C1), Sorted(PairsOf(n, P), C),
           NEW T, Alike(PairsOf(n, P), C, PairsOf(N1, Q), C1, T)
    PROVE  /\ Grown(Nodes(b, {}), Firsts(N1, Q, C1), PairsOf(N1, Q), C1, {})
           /\ Mounted(b) = Shades(Nodes(b, {}))
<1> DEFINE H  == Firsts(n, P, C)
           S  == PairsOf(n, P)
           H1 == Firsts(N1, Q, C1)
           S1 == PairsOf(N1, Q)
<1>1. Mounted(b) = Shades(Nodes(b, {})) /\ Stands(b, n, P, C) /\ Moving(n, P, {})
  BY MountedIs
<1>2. Listing(H, S, C, {}) /\ H \subseteq S
  BY PlanListing DEF Plan, Firsts
<1>3. Grown(Nodes(b, {}), H, S, C, {})
  BY <1>1, <1>2, NodesGrown
<1>4. Listing(H1, S1, C1, {})
  BY PlanListing DEF Plan, Firsts
<1>5. \A x \in H : \A a, e : Lists(S, C, {}, x, a, e) <=> Lists(S1, C1, {}, x, a, e)
  <2>1. \A x \in H : x \in S \cap S1
    BY <1>2
  <2> HIDE DEF H, S, S1
  <2> QED
    BY <2>1 DEF Alike, S, S1
<1> HIDE DEF H, S, H1, S1
<1>6. H \subseteq H1
  BY DEF H, H1
<1>7. Grown(Nodes(b, {}), H1, S1, C1, {})
  BY <1>3, <1>4, <1>5, <1>6, GrownSame
<1> QED
  BY <1>1, <1>7 DEF H1, S1

(* ... and by what was planned, after the commit.                             *)
LEMMA AfterNodes ==
    ASSUME NEW b \in Disks, NEW n, NEW P, NEW C, NEW g, Plan(n, P, C, {}, g), Sorted(PairsOf(n, P), C),
           NEW n2, NEW P2, NEW C2, NEW g2, Plan(n2, P2, C2, {}, g2), g2.moves = {}, Reads(b, n2, P2, C2),
           PairsOf(n, P) \subseteq PairsOf(n2, P2), NEW T, Alike(PairsOf(n, P), C, PairsOf(n2, P2), C2, T)
    PROVE  /\ Grown(Nodes(b, {}), Firsts(n, P, C), PairsOf(n, P), C, {})
           /\ Mounted(b) = Shades(Nodes(b, {}))
<1> DEFINE H  == Firsts(n, P, C)
           S  == PairsOf(n, P)
           S2 == PairsOf(n2, P2)
<1>1. Mounted(b) = Shades(Nodes(b, {})) /\ Stands(b, n2, P2, C2) /\ Moving(n2, P2, {})
  BY MountedIs
<1>2. Listing(H, S, C, {}) /\ H \subseteq S /\ H \subseteq S2
  BY PlanListing DEF Plan, Firsts
<1>3. \A x \in H : \A a, e : Lists(S, C, {}, x, a, e) <=> Lists(S2, C2, {}, x, a, e)
  <2>1. \A x \in H : x \in S \cap S2
    BY <1>2
  <2> HIDE DEF H, S, S2
  <2> QED
    BY <2>1 DEF Alike, S, S2
<1> HIDE DEF H, S, S2
<1>4. Listing(H, S2, C2, {})
  BY <1>2, <1>3, ListingSame
<1>5. Grown(Nodes(b, {}), H, S2, C2, {})
  BY <1>1, <1>2, <1>4, NodesGrown DEF S2
<1>6. Grown(Nodes(b, {}), H, S, C, {})
  <2>1. \A x \in H : \A a, e : Lists(S2, C2, {}, x, a, e) <=> Lists(S, C, {}, x, a, e)
    BY <1>3
  <2> QED
    BY <1>2, <1>5, <2>1, GrownSame
<1> QED
  BY <1>1, <1>6 DEF H, S

(* The entry of the new directory with the pair on the thread by one commit.  *)
LEMMA MkdirWholeInv ==
    ASSUME Inv, op.at = "add", com' = NoCom, ~deo.on, ~op.hook.m.split,
           Start(op.hook, [[op.hook.m EXCEPT !.ents[op.name] = Dir(op.pair)] EXCEPT !.tail = op.pair],
                 FALSE, gstate, gdelta, NoOp, deo)
    PROVE  Inv' /\ Atomic!Make(call.path, {"dir"}) /\ tree' # tree
<1>1. PICK n, P, C : /\ Whole(n, P, C) /\ OpInv(n, P, C) /\ (deo = NoDeo \/ Repairing(n, P))
                     /\ Knit(n, P, C)
  BY DEF Inv
<1>2. Adding(n, P, C)
  BY <1>1 DEF OpInv, NoOp, Linking, Unlinking, Renaming, Dropping
<1>3. /\ RamInv /\ deo = NoDeo /\ gstate.moves = {} /\ gdisk.moves = {} /\ gstate \in Rams /\ gdisk \in Rams
      /\ gdelta = NoG /\ blk \in Disks
  <2>1. op # NoOp
    BY DEF NoOp
  <2> QED
    BY <1>1, <1>2, <2>1 DEF Repairing, Adding, Inv, RamInv
<1>4. PICK j \in 1 .. n : /\ Hook(n, P, C, j) /\ ~C[P[j]].split /\ Rooted(n, P, C, P[j])
                          /\ New(blk, n, P, op.pair, C[P[j]].tail)
  BY <1>2 DEF Adding
<1> DEFINE x == op.pair
           a == op.name
           c == [[op.hook.m EXCEPT !.ents[a] = Dir(x)] EXCEPT !.tail = x]
           Q == Ins(n, P, j, x)
<1>5. Plan(n, P, C, {}, Xor(OnDisk(gdisk), Fetch(blk, x).m.g)) /\ Reads(blk, n, P, C)
  BY <1>1, <1>3 DEF Whole, Owed
<1>6. op.hook = Fetch(blk, P[j]) /\ a \in Names /\ C[P[j]].ents[a] = NoEnt
  BY <1>4 DEF Hook
<1>7. op.hook.m = C[P[j]] /\ C[P[j]].ents \in [Names -> Ents] /\ P[j] \in PairsOf(n, P) /\ C[P[j]] \in Contents
  <2>1. C[P[j]].ents \in [Names -> Ents] /\ P[j] \in PairsOf(n, P) /\ C[P[j]] \in Contents
    BY <1>5, EntsIs
  <2> QED
    BY <1>5, <1>6, <2>1 DEF Reads
<1>8. Start(Fetch(blk, P[j]), c, FALSE, gstate, gdelta, NoOp, deo)
  BY <1>6
<1>9. New(blk, n, P, x, C[P[j]].tail)
  BY <1>4
<1> HIDE DEF x, a
<1>10. PICK C1 : LinkedIn(n, P, C, C1, j, x, gstate)
  BY <1>3, <1>4, <1>5, <1>9, LinkPlan
<1> DEFINE ents == [C[P[j]].ents EXCEPT ![a] = Dir(x)]
           C3   == Edited(C1, P[j], ents)
<1>11. /\ Plan(n + 1, Q, C1, {}, OnDisk(gstate)) /\ Elsewhere(blk, n + 1, Q, C1, j)
       /\ PairsOf(n + 1, Q) = PairsOf(n, P) \cup {x} /\ Hards(n + 1, Q, C1) = Hards(n, P, C)
       /\ x \notin Fixed(n, P, C) /\ Unled(PairsOf(n + 1, Q), C1, x)
       /\ \A k \in 1 .. n : k # j => C1[P[k]] = C[P[k]]
       /\ C1[P[j]] = [C[P[j]] EXCEPT !.tail = x, !.split = FALSE, !.g = Xor(C[P[j]].g, Delta(gstate, NoG))]
       /\ C1[P[j]] \in Contents /\ \A k \in 1 .. n + 1 : Q[k] \cap Free = {}
  BY <1>10 DEF LinkedIn
<1>12. j \in 1 .. n + 1 /\ Q[j] = P[j]
  <2>1. n \in Nat
    BY <1>5, LineAlong DEF Plan
  <2> QED
    BY <2>1, InsPlace
<1> HIDE DEF Q
<1>13. /\ C1[P[j]].ents = C[P[j]].ents /\ C1[P[j]].tail = x /\ C1[P[j]].split = FALSE
       /\ C1[P[j]].g = Xor(C[P[j]].g, Delta(gstate, NoG)) /\ C1[P[j]].g \in Gs
  BY <1>7, <1>11 DEF Contents
<1>14. Dir(x) \in Ents /\ Dir(x).type = "dir" /\ Dir(x).pair = x
  <2>1. x \in Pairs
    BY <1>9 DEF New, Settled
  <2> QED
    BY <2>1 DEF Dir, Ents, Kinds, Pairs
<1>15. ents \in [Names -> Ents] /\ ents[a] = Dir(x) /\ \A b \in Names : b # a => ents[b] = C[P[j]].ents[b]
  BY <1>6, <1>7, <1>14
<1>16. c.ents = ents /\ c.tail = x /\ c.split = FALSE
  BY <1>4, <1>7, <1>14 DEF Contents
<1> HIDE DEF ents, c
<1>17. Changed(PairsOf(n + 1, Q), P[j], C1, C3, ents)
  BY <1>11, <1>12, <1>15, EditedChanged
<1>18. /\ \A k \in 1 .. n + 1 : k # j => C3[Q[k]] = C1[Q[k]]
       /\ C3[Q[j]] = [C1[P[j]] EXCEPT !.ents = ents]
       /\ C3[Q[j]] \in Contents
  <2>1. C3 = Edited(C1, Q[j], ents)
    BY <1>12
  <2> HIDE DEF C3
  <2>2. /\ \A k \in 1 .. n + 1 : k # j => Edited(C1, Q[j], ents)[Q[k]] = C1[Q[k]]
        /\ Edited(C1, Q[j], ents)[Q[j]] = [C1[Q[j]] EXCEPT !.ents = ents]
        /\ Edited(C1, Q[j], ents)[Q[j]] \in Contents
    BY <1>11, <1>12, <1>15, EditedIs
  <2> QED
    BY <1>12, <2>1, <2>2
<1> HIDE DEF C3
<1>19. /\ C3[Q[j]].tail = C1[Q[j]].tail /\ C3[Q[j]].split = C1[Q[j]].split
       /\ C3[Q[j]].g = Xor(C1[Q[j]].g, NoG) /\ C3[Q[j]].ents = ents
  <2>1. Xor(C1[P[j]].g, NoG) = C1[P[j]].g
    BY <1>13, XorWith
  <2> QED
    BY <1>11, <1>12, <1>18, <2>1 DEF Contents
<1>20. P[j] \in {Root} \cup Hards(n + 1, Q, C1) \/ Led(PairsOf(n + 1, Q), C1, {}, P[j])
  <2>1. CASE P[j] \in Fixed(n, P, C)
    BY <1>11, <2>1 DEF Fixed
  <2>2. CASE Led(PairsOf(n, P), C, {}, P[j])
    <3>1. PICK q \in PairsOf(n, P), b \in Names : Shown(C, {}, q, b, P[j])
      BY <2>2 DEF Led
    <3>2. C1[q].ents = C[q].ents
      <4>1. PICK k \in 1 .. n : q = P[k]
        BY DEF PairsOf
      <4> QED
        BY <1>11, <1>13, <4>1
    <3>3. Shown(C1, {}, q, b, P[j])
      BY <3>1, <3>2 DEF Shown, Leads
    <3> QED
      BY <1>11, <3>3 DEF Led
  <2> QED
    BY <1>4, <2>1, <2>2 DEF Rooted
<1>21. Fits(PairsOf(n + 1, Q), Hards(n + 1, Q, C1), C3, {})
  <2>1. /\ \A q \in PairsOf(n + 1, Q) : q # P[j] => C3[q] = C1[q]
        /\ C3[P[j]].ents = ents /\ C3[P[j]].split = C1[P[j]].split
    BY <1>17 DEF Changed
  <2>2. /\ \A b \in Names : b # a => C3[P[j]].ents[b] = C1[P[j]].ents[b]
        /\ C3[P[j]].ents[a] = Dir(x) /\ C1[P[j]].ents[a] = NoEnt
    BY <1>6, <1>13, <1>15, <2>1
  <2>3. C3[P[j]].ents[a].type = "dir" =>
          /\ C3[P[j]].ents[a].pair \in PairsOf(n + 1, Q) \ ({Root} \cup Hards(n + 1, Q, C1))
          /\ Unled(PairsOf(n + 1, Q), C1, C3[P[j]].ents[a].pair)
    BY <1>11, <1>14, <2>2 DEF Fixed
  <2>4. Fits(PairsOf(n + 1, Q), Hards(n + 1, Q, C1), C1, {}) /\ P[j] \in PairsOf(n + 1, Q)
    BY <1>7, <1>11 DEF Plan
  <2> QED
    BY <1>6, <1>20, <2>1, <2>2, <2>3, <2>4, FitsAdd
<1>22. Plan(n + 1, Q, C3, {}, OnDisk(gstate))
  <2>1. OnDisk(gstate) \in Gs
    BY <1>3, OnDiskTyped
  <2>2. NoG \in Gs /\ Xor(OnDisk(gstate), NoG) = OnDisk(gstate)
    BY <2>1, XorWith
  <2>3. Plan(n + 1, Q, C3, {}, Xor(OnDisk(gstate), NoG))
    <3>1. /\ Plan(n + 1, Q, C1, {}, OnDisk(gstate)) /\ j \in 1 .. n + 1 /\ NoG \in Gs
          /\ \A k \in 1 .. n + 1 : k # j => C3[Q[k]] = C1[Q[k]]
          /\ C3[Q[j]] \in Contents /\ C3[Q[j]].tail = C1[Q[j]].tail /\ C3[Q[j]].split = C1[Q[j]].split
          /\ C3[Q[j]].g = Xor(C1[Q[j]].g, NoG)
          /\ Fits(PairsOf(n + 1, Q), Hards(n + 1, Q, C1), C3, {})
      BY <1>11, <1>12, <1>18, <1>19, <1>21, <2>2
    <3> DEFINE N == n + 1
    <3> HIDE DEF N
    <3>2. /\ Plan(N, Q, C1, {}, OnDisk(gstate)) /\ j \in 1 .. N /\ NoG \in Gs
          /\ \A k \in 1 .. N : k # j => C3[Q[k]] = C1[Q[k]]
          /\ C3[Q[j]] \in Contents /\ C3[Q[j]].tail = C1[Q[j]].tail /\ C3[Q[j]].split = C1[Q[j]].split
          /\ C3[Q[j]].g = Xor(C1[Q[j]].g, NoG)
          /\ Fits(PairsOf(N, Q), Hards(N, Q, C1), C3, {})
      BY <3>1 DEF N
    <3>3. Plan(N, Q, C3, {}, Xor(OnDisk(gstate), NoG))
      BY <3>2, PlanKeep
    <3> QED
      BY <3>3 DEF N
  <2> QED
    BY <2>2, <2>3
<1>23. Elsewhere(blk, n + 1, Q, C3, j)
  BY <1>11, <1>18 DEF Elsewhere
<1>24. Fills(C3[Q[j]], c, Xor(Fetch(blk, Q[j]).m.g, Delta(gstate, NoG)))
  <2>1. Fetch(blk, Q[j]).m = C[P[j]]
    BY <1>6, <1>7, <1>12
  <2>2. C3[Q[j]].g = Xor(C[P[j]].g, Delta(gstate, NoG))
    BY <1>12, <1>13, <1>19, XorWith
  <2> QED
    BY <1>12, <1>13, <1>16, <1>19, <2>1, <2>2 DEF Fills
<1>25. Goes(Fetch(blk, Q[j]), c, gstate, NoG, NoOp, NoDeo)
  <2>1. ~Drops(Fetch(blk, P[j]), c, FALSE)
    BY DEF Drops
  <2>2. Goes(Fetch(blk, P[j]), c, gstate, gdelta, NoOp, deo)
    BY <1>3, <1>8, <2>1, StartGoes
  <2> QED
    BY <1>3, <1>12, <2>2
<1>26. /\ Delta(gstate, NoG) \in Gs /\ Settled(blk, Q[j]) /\ Still(gstate.moves, Q[j])
       /\ NoOp.hook.pair \cap Q[j] = {}
  <2>1. NoG \in Gs
    BY DEF NoG, Gs
  <2>2. Delta(gstate, NoG) \in Gs
    BY <1>3, <2>1, DeltaIs
  <2>3. NoOp.hook.pair = {}
    BY DEF NoOp, NoHandle, NoPair
  <2> QED
    BY <1>3, <1>5, <1>12, <2>2, <2>3 DEF Reads, Still
<1>27. /\ Moved(gstate) /\ op' = NoOp
       /\ deo' = IF NoDeo.on THEN [NoDeo EXCEPT !.pdir = Fetch(blk', Q[j])] ELSE NoDeo
       /\ \E n2, P2, C2 : /\ Plan(n2, P2, C2, gstate.moves, OnDisk(gstate))
                          /\ After(blk, blk', Fetch(blk', Q[j]), n + 1, Q, C3, j, n2, P2, C2)
  <2>1. Plan(n + 1, Q, C3, gstate.moves, OnDisk(gstate)) /\ \A k \in 1 .. n + 1 : Q[k] \cap Free = {}
    BY <1>3, <1>11, <1>22
  <2> QED
    BY <1>3, <1>12, <1>23, <1>24, <1>25, <1>26, <2>1, GoesOn
<1>28. deo' = NoDeo
  BY <1>27 DEF NoDeo
<1>29. PICK n2, P2, C2 : /\ Plan(n2, P2, C2, gstate.moves, OnDisk(gstate))
                         /\ After(blk, blk', Fetch(blk', Q[j]), n + 1, Q, C3, j, n2, P2, C2)
  BY <1>27
<1>30. \A v, w \in gstate.moves : v = w
  BY <1>3
<1>31. Ties(n + 1, Q, C1, {}, {x})
  <2>1. Ties(n, P, C, {}, {})
    BY <1>1, <1>3 DEF Knit, Loose
  <2> QED
    BY <1>4, <1>5, <1>9, <1>10, <2>1, LinkTied DEF Q
<1>32. OneEnt(PairsOf(n + 1, Q), C1, C3, P[j], a) /\ C3[P[j]].ents[a] = Dir(x) /\ C1[P[j]].ents[a] = NoEnt
  BY <1>6, <1>13, <1>15, <1>17 DEF OneEnt, Changed
<1>33. /\ Sorted(PairsOf(n, P), C) /\ Sorted(PairsOf(n + 1, Q), C1) /\ Sorted(PairsOf(n + 1, Q), C3)
       /\ Alike(PairsOf(n, P), C, PairsOf(n + 1, Q), C1, {}) /\ Blank(C1[x])
       /\ Joined(PairsOf(n, P), C, PairsOf(n + 1, Q), C1)
  <2>1. Sorted(PairsOf(n, P), C)
    BY <1>1 DEF Knit, Ties
  <2>2. Enters(n, P, C, C1, x)
    BY <1>4, <1>5, <1>9, <1>10, LinkKeeps
  <2>3. \A T : Keeps(PairsOf(n, P), C, PairsOf(n + 1, Q), C1, T)
    BY <1>11, <2>2 DEF Enters
  <2>4. Room(PairsOf(n, P), C, P[j], a)
    BY <1>4 DEF Hook, a
  <2>5. Keeps(PairsOf(n, P), C, PairsOf(n + 1, Q), C1, {P[j]}) /\ P[j] \in PairsOf(n, P) \cap PairsOf(n + 1, Q)
    BY <1>7, <1>11, <2>3
  <2>6. Room(PairsOf(n + 1, Q), C1, P[j], a)
    BY <1>6, <2>4, <2>5 DEF Keeps
  <2>7. Sorted(PairsOf(n + 1, Q), C3)
    BY <1>32, <2>6, SortedPut
  <2>8. Alike(PairsOf(n, P), C, PairsOf(n + 1, Q), C1, {}) /\ Joined(PairsOf(n, P), C, PairsOf(n + 1, Q), C1)
    BY <2>3 DEF Keeps, Lasts
  <2>9. Sorted(PairsOf(n + 1, Q), C1)
    BY <1>31 DEF Ties
  <2> QED
    BY <2>1, <2>2, <2>7, <2>8, <2>9 DEF Enters
<1>34. Tied(PairsOf(n + 1, Q), Hards(n + 1, Q, C1), C3, {}, {})
  <2>1. Tied(PairsOf(n + 1, Q), Hards(n + 1, Q, C1), C1, {}, {x})
    BY <1>31 DEF Ties
  <2>2. P[j] \in PairsOf(n + 1, Q) /\ P[j] # x
    BY <1>7, <1>10, <1>11 DEF LinkedIn
  <2>3. OneEnt(PairsOf(n + 1, Q), C1, C3, P[j], a)
    BY <1>32
  <2>4. C1[P[j]].ents[a] = NoEnt
    BY <1>32
  <2>5. /\ C3[P[j]].ents[a].type = "dir" => C3[P[j]].ents[a].pair = x
        /\ C3[P[j]].ents[a].type # "dir" => x \notin {x}
    BY <1>14, <1>32
  <2>6. ASSUME NEW K, Tied(PairsOf(n + 1, Q), Hards(n + 1, Q, C1), C1, {}, K), K = {x}
        PROVE  Tied(PairsOf(n + 1, Q), Hards(n + 1, Q, C1), C3, {}, K \ {x})
    BY <1>6, <2>2, <2>3, <2>4, <2>5, <2>6, TiedAdd
  <2>7. {x} \ {x} = {}
    OBVIOUS
  <2> QED
    BY <2>1, <2>6, <2>7
<1>35. Altered(n + 1, Q, C1, C3)
  <2> DEFINE N == n + 1
  <2> HIDE DEF N
  <2>1. Line(N, Q, Along(N, Q, C1)) /\ j \in 1 .. N /\ \A k \in 1 .. N : k # j => C3[Q[k]] = C1[Q[k]]
    BY <1>11, <1>12, <1>18 DEF N, Plan
  <2>2. C3[Q[j]] \in Contents /\ C3[Q[j]].tail = C1[Q[j]].tail /\ C3[Q[j]].split = C1[Q[j]].split
    BY <1>18, <1>19
  <2>3. Hards(N, Q, C3) = Hards(N, Q, C1)
    BY <2>1, <2>2, LineKeep
  <2>4. Line(N, Q, Along(N, Q, C3))
    BY <1>22 DEF N, Plan
  <2> QED
    BY <2>3, <2>4 DEF N, Altered
<1>36. Knots(n2, P2, C2, gstate.moves, gstate)
  <2>1. Hards(n + 1, Q, C3) = Hards(n + 1, Q, C1)
    BY <1>35 DEF Altered
  <2>2. Follows(PairsOf(n + 1, Q), Hards(n + 1, Q, C3), C3, PairsOf(n2, P2), Hards(n2, P2, C2), C2,
                PairsOf(n + 1, Q), {})
    BY <1>29 DEF After
  <2>3. Tied(PairsOf(n2, P2), Hards(n2, P2, C2), C2, {}, {} \ {})
    BY <1>34, <2>1, <2>2 DEF Follows
  <2>4. {} \ {} = {}
    OBVIOUS
  <2>5. Sorted(PairsOf(n2, P2), C2)
    <3>1. Lasts(PairsOf(n + 1, Q), C3, PairsOf(n2, P2), C2, PairsOf(n + 1, Q) \ {Q[j]})
      BY <1>29 DEF After, Keeps
    <3> QED
      BY <1>33, <3>1 DEF Lasts
  <2> QED
    BY <1>3, <2>3, <2>4, <2>5 DEF Knots, Ties
<1>37. Inv'
  <2>1. blk' \in Disks /\ Reads(blk', n2, P2, C2)
    BY <1>29 DEF After
  <2> QED
    BY <1>3, <1>27, <1>28, <1>29, <1>30, <1>36, <2>1, IdleAgain
<1>38. /\ Grown(Nodes(blk, {}), Firsts(n + 1, Q, C1), PairsOf(n + 1, Q), C1, {})
       /\ tree = Shades(Nodes(blk, {}))
  <2> DEFINE g == Xor(OnDisk(gdisk), Fetch(blk, x).m.g)
             N == n + 1
  <2>1. g.moves = {}
    BY <1>3, <1>9 DEF New, Xor, OnDisk
  <2>2. Plan(n, P, C, {}, g) /\ Reads(blk, n, P, C) /\ blk \in Disks
    BY <1>3, <1>5
  <2> HIDE DEF g, N
  <2>3. Plan(N, Q, C1, {}, OnDisk(gstate)) /\ Sorted(PairsOf(N, Q), C1)
    BY <1>11, <1>33 DEF N
  <2>4. Firsts(n, P, C) \subseteq PairsOf(N, Q) \cap Firsts(N, Q, C1)
    BY <1>11 DEF Firsts, N
  <2>5. Sorted(PairsOf(n, P), C) /\ Alike(PairsOf(n, P), C, PairsOf(N, Q), C1, {})
    BY <1>33 DEF N
  <2>6. /\ Grown(Nodes(blk, {}), Firsts(N, Q, C1), PairsOf(N, Q), C1, {})
        /\ Mounted(blk) = Shades(Nodes(blk, {}))
    BY <2>1, <2>2, <2>3, <2>4, <2>5, LikeNodes
  <2> QED
    BY <1>3, <2>6 DEF N, RamInv
<1>39. /\ Grown(Nodes(blk', {}), Firsts(n + 1, Q, C1), PairsOf(n + 1, Q), C3, {})
       /\ tree' = Shades(Nodes(blk', {}))
  <2> DEFINE N == n + 1
             T == PairsOf(N, Q) \ {Q[j]}
  <2>1. /\ blk' \in Disks /\ Reads(blk', n2, P2, C2) /\ PairsOf(n + 1, Q) \subseteq PairsOf(n2, P2)
        /\ Alike(PairsOf(n + 1, Q), C3, PairsOf(n2, P2), C2, PairsOf(n + 1, Q) \ {Q[j]})
    BY <1>29 DEF After, Keeps, Lasts
  <2> HIDE DEF N
  <2>2. /\ blk' \in Disks /\ Reads(blk', n2, P2, C2) /\ PairsOf(N, Q) \subseteq PairsOf(n2, P2)
        /\ Alike(PairsOf(N, Q), C3, PairsOf(n2, P2), C2, T)
    BY <2>1 DEF N
  <2> HIDE DEF T
  <2>3. Plan(N, Q, C3, {}, OnDisk(gstate)) /\ Sorted(PairsOf(N, Q), C3)
    BY <1>22, <1>33 DEF N
  <2>4. Plan(n2, P2, C2, {}, OnDisk(gstate)) /\ OnDisk(gstate).moves = {}
    BY <1>3, <1>29 DEF OnDisk
  <2>5. /\ Grown(Nodes(blk', {}), Firsts(N, Q, C3), PairsOf(N, Q), C3, {})
        /\ Mounted(blk') = Shades(Nodes(blk', {}))
    BY <2>2, <2>3, <2>4, AfterNodes
  <2>6. Firsts(N, Q, C3) = Firsts(N, Q, C1)
    BY <1>35 DEF Altered, Firsts, N
  <2> QED
    BY <1>27, <2>5, <2>6 DEF N, Moved
<1>40. Atomic!Make(call.path, {"dir"}) /\ tree' # tree
  <2> DEFINE N  == n + 1
             W  == Nodes(blk, {})
             W1 == Nodes(blk', {})
  <2> HIDE DEF N, W, W1
  <2>1. /\ tree = Shades(W) /\ Grown(W, Firsts(N, Q, C1), PairsOf(N, Q), C1, {})
        /\ tree' = Shades(W1) /\ Grown(W1, Firsts(N, Q, C1), PairsOf(N, Q), C3, {})
        /\ Altered(N, Q, C1, C3) /\ Sorted(PairsOf(N, Q), C3)
    BY <1>33, <1>35, <1>38, <1>39 DEF N, W, W1
  <2>2. PICK d \in W : /\ d.ent.type = "dir"
                      /\ AloneIn(Firsts(N, Q, C1), PairsOf(N, Q), C1, d.ent.pair, P[j])
                      /\ call.path = Append(d.path, a)
    <3>1. PICK d \in W : /\ d.ent.type = "dir"
                        /\ AloneIn(Firsts(n, P, C), PairsOf(n, P), C, d.ent.pair, P[j])
                        /\ call.path = Append(d.path, a)
      BY <1>4 DEF Hook, Asked, W, a
    <3>2. Line(N, Q, Along(N, Q, C1))
      BY <1>11 DEF Plan, N
    <3>3. d.ent.pair \in PairsOf(n, P) /\ d.ent.pair \in PairsOf(N, Q) \ Hards(N, Q, C1)
      BY <1>11, <3>1 DEF AloneIn, Firsts, N
    <3>4. Part(PairsOf(N, Q), C1, d.ent.pair, P[j])
      <4>1. Part(PairsOf(n, P), C, d.ent.pair, P[j])
        BY <3>1 DEF AloneIn
      <4>2. P[j] \in PairsOf(n, P) \cap PairsOf(N, Q)
        BY <1>7, <1>11 DEF N
      <4> QED
        BY <1>33, <3>3, <4>1, <4>2 DEF Joined, N
    <3>5. AloneIn(Firsts(N, Q, C1), PairsOf(N, Q), C1, d.ent.pair, P[j])
      BY <3>2, <3>3, <3>4, PartAlone DEF Firsts
    <3> QED
      BY <3>1, <3>5
  <2>3. OneEnt(PairsOf(N, Q), C1, C3, P[j], a) /\ C1[P[j]].ents[a] = NoEnt /\ a \in Names
    BY <1>6, <1>32 DEF N
  <2>4. C3[P[j]].ents[a].type \in Files \cup {"dir"} /\ C3[P[j]].ents[a].type \in {"dir"}
    BY <1>14, <1>32
  <2>5. C3[P[j]].ents[a].type = "dir" => Blank(C3[C3[P[j]].ents[a].pair])
    <3>1. x # P[j] /\ x \in PairsOf(n + 1, Q)
      BY <1>7, <1>10, <1>11 DEF LinkedIn
    <3>2. C3[x] = C1[x]
      BY <1>32, <3>1 DEF OneEnt
    <3> QED
      BY <1>14, <1>32, <1>33, <3>2
  <2>6. Atomic!Make(Append(d.path, a), {"dir"}) /\ tree' # tree
    BY <2>1, <2>2, <2>3, <2>4, <2>5, AddsNode
  <2> QED
    BY <2>2, <2>6
<1> QED
  BY <1>37, <1>40

(* No orphan is taken back that was not announced: lfs_mkdir_ does not fail.  *)
LEMMA MkdirAddInv ==
    ASSUME Inv, MkdirAdd, com' = NoCom
    PROVE  Inv' /\ Atomic!Make(call.path, {"dir"}) /\ tree' # tree
<1> DEFINE h  == op.hook
           gs == IF op.at = "unlink" THEN Preps(gstate, -1) ELSE gstate
           c0 == [h.m EXCEPT !.ents[op.name] = Dir(op.pair)]
           c  == IF h.m.split THEN c0 ELSE [c0 EXCEPT !.tail = op.pair]
<1>1. /\ op.at = "unlink" \/ op.at = "add"
      /\ ~deo.on
      /\ IF gs.orphans < 0 THEN Abort ELSE Start(h, c, FALSE, gs, gdelta, NoOp, deo)
  BY DEF MkdirAdd, Running
<1>2. PICK n, P, C : Whole(n, P, C) /\ OpInv(n, P, C)
  BY DEF Inv
<1>3. gstate \in Rams /\ blk \in Disks
  BY DEF Inv, RamInv
<1>4. CASE op.at = "unlink"
  <2>1. Unlinking(n, P, C)
    BY <1>2, <1>4 DEF OpInv, NoOp, Linking, Adding, Renaming, Dropping
  <2>2. gs = Preps(gstate, -1) /\ ~(gs.orphans < 0)
    <3>1. gstate.orphans >= 1
      BY <2>1 DEF Unlinking
    <3>2. Preps(gstate, -1).orphans \in Nat
      BY <1>3, <3>1, RamsIs DEF Rams
    <3> QED
      BY <1>4, <3>2
  <2>3. h.m.split
    <3>1. PICK j \in 1 .. n : Hook(n, P, C, j) /\ C[P[j]].split
      BY <2>1 DEF Unlinking
    <3> QED
      BY <1>2, <3>1 DEF Hook, Whole, Reads
  <2>4. Start(h, c0, FALSE, gs, gdelta, NoOp, deo)
    <3> HIDE DEF c0
    <3> QED
      BY <1>1, <2>2, <2>3
  <2> HIDE DEF gs
  <2> QED
    BY <1>1, <1>4, <2>2, <2>3, <2>4, MkdirSplitInv
<1>5. CASE op.at = "add"
  <2>1. Adding(n, P, C)
    BY <1>2, <1>5 DEF OpInv, NoOp, Linking, Unlinking, Renaming, Dropping
  <2>2. gs = gstate /\ ~(gs.orphans < 0)
    <3>1. gstate.orphans \in Nat
      BY <1>3, RamsIs
    <3> QED
      BY <1>5, <3>1
  <2>3. ~h.m.split
    <3>1. PICK j \in 1 .. n : Hook(n, P, C, j) /\ ~C[P[j]].split
      BY <2>1 DEF Adding
    <3> QED
      BY <1>2, <3>1 DEF Hook, Whole, Reads
  <2>4. Start(h, [c0 EXCEPT !.tail = op.pair], FALSE, gstate, gdelta, NoOp, deo)
    <3> HIDE DEF c0, gs
    <3> QED
      BY <1>1, <2>2, <2>3
  <2> QED
    BY <1>1, <1>5, <2>3, <2>4, MkdirWholeInv
<1> QED
  BY <1>1, <1>4, <1>5

(* lfs_rename_: the old name goes.                                            *)
LEMMA RenameOldInv == ASSUME Inv, RenameOld, com' = NoCom PROVE Inv' /\ tree' = tree
<1> DEFINE o  == IF op.drops THEN [op EXCEPT !.at = "drop", !.h = NoHandle, !.name = 0] ELSE NoOp
           a1 == op.name
           gs == NoMove(gstate)
<1>1. /\ op.at = "old" /\ ~deo.on
      /\ gstate.moves # {} =>
           Start(op.h, [op.h.m EXCEPT !.ents[a1] = NoEnt], TRUE, gs, gdelta, o, deo)
  BY DEF RenameOld, Running
<1>2. PICK n, P, C : /\ Whole(n, P, C) /\ OpInv(n, P, C) /\ (deo = NoDeo \/ Repairing(n, P))
                     /\ Knit(n, P, C)
  BY DEF Inv
<1>3. Renaming(n, P, C)
  BY <1>1, <1>2 DEF OpInv, NoOp, Unlinking, Linking, Adding, Dropping
<1>4. RamInv /\ deo = NoDeo /\ gstate \in Rams /\ gdisk.moves = gstate.moves /\ blk \in Disks /\ gdisk \in Rams
  <2>1. op # NoOp
    BY <1>1 DEF NoOp
  <2> QED
    BY <1>2, <2>1 DEF Repairing, Inv, RamInv
<1>5. Plan(n, P, C, gdisk.moves, OnDisk(gdisk)) /\ Reads(blk, n, P, C)
  <2>1. OnDisk(gdisk) \in Gs
    BY <1>4, OnDiskTyped
  <2>2. Owed = NoG /\ Xor(OnDisk(gdisk), Owed) = OnDisk(gdisk)
    BY <1>1, <2>1, XorWith DEF Owed
  <2> QED
    BY <1>2, <2>2 DEF Whole
<1>6. PICK i \in 1 .. n :
          /\ op.h = Fetch(blk, P[i]) /\ gstate.moves = {[pair |-> P[i], name |-> a1]} /\ a1 \in Names
          /\ op.drops => /\ gstate.orphans >= 1
                         /\ \E j \in 1 .. n : j # i /\ Doomed(n, P, C, j) /\ op.hook = Fetch(blk, P[j])
  BY <1>3 DEF Renaming
<1>7. Start(op.h, [op.h.m EXCEPT !.ents[a1] = NoEnt], TRUE, gs, gdelta, o, deo)
  BY <1>1, <1>6
<1> DEFINE ents == [C[P[i]].ents EXCEPT ![a1] = NoEnt]
           C1   == Edited(C, P[i], ents)
<1>8. C[P[i]].ents \in [Names -> Ents] /\ NoEnt \in Ents /\ P[i] \in PairsOf(n, P)
  BY <1>5, EntsIs
<1>9. ents \in [Names -> Ents] /\ ents[a1] = NoEnt /\ \A a \in Names : a # a1 => ents[a] = C[P[i]].ents[a]
  BY <1>6, <1>8
<1>10. [op.h.m EXCEPT !.ents[a1] = NoEnt] = [Fetch(blk, P[i]).m EXCEPT !.ents = ents]
  BY <1>5, <1>6 DEF Reads
<1> HIDE DEF ents, a1
<1>11. /\ \A q \in PairsOf(n, P) : q # P[i] => C1[q] = C[q]
       /\ C1[P[i]].ents = ents /\ C1[P[i]].split = C[P[i]].split /\ C1[P[i]].tail = C[P[i]].tail
  BY <1>5, <1>9, EditedChanged DEF Changed
<1> HIDE DEF C1
<1>12. /\ Fits(PairsOf(n, P), Hards(n, P, C), C1, {})
       /\ \A y : Unled(PairsOf(n, P), C, y) => Unled(PairsOf(n, P), C1, y)
  <2>1. C1[P[i]].ents[a1] = NoEnt /\ \A a \in Names : a # a1 => C1[P[i]].ents[a] = C[P[i]].ents[a]
    BY <1>9, <1>11
  <2>2. Fits(PairsOf(n, P), Hards(n, P, C), C, gdisk.moves)
    BY <1>5 DEF Plan
  <2>3. gdisk.moves # {} /\ \A v \in gdisk.moves : v = [pair |-> P[i], name |-> a1]
    BY <1>4, <1>6
  <2> QED
    BY <1>6, <1>8, <1>11, <2>1, <2>2, <2>3, FitsRemove
<1>13. gs \in Rams /\ gs.moves = {} /\ gs.orphans = gstate.orphans
  BY <1>4, RamsIs
<1>14. Start(Fetch(blk, P[i]), [Fetch(blk, P[i]).m EXCEPT !.ents = ents], TRUE, gs, gdelta, o, deo)
  BY <1>6, <1>7, <1>10
<1> HIDE DEF gs
<1>15. Fits(PairsOf(n, P), Hards(n, P, C), Edited(C, P[i], ents), gs.moves) /\ Still(gs.moves, P[i])
  BY <1>12, <1>13 DEF C1, Still
<1>16. /\ gdisk.moves = {[pair |-> P[i], name |-> a1]} /\ a1 \in Names
       /\ OneEnt(PairsOf(n, P), C, C1, P[i], a1) /\ C1[P[i]].ents[a1] = NoEnt
  BY <1>4, <1>6, <1>9, <1>11 DEF OneEnt, a1
<1>17. PICK K : Bound(n, P, C, Edited(C, P[i], ents), i, gs, K) /\ K \subseteq {op.hook.pair}
  <2>1. PICK K : Ties(n, P, C, gdisk.moves, K) /\ Loose(n, P, K)
    BY <1>2 DEF Knit
  <2>2. (K # {} => gstate.orphans > 0) /\ K \subseteq {op.hook.pair}
    BY <1>1, <2>1 DEF Loose
  <2>3. Tied(PairsOf(n, P), Hards(n, P, C), C1, {}, K)
    BY <1>8, <1>16, <2>1, TiedPick DEF Ties
  <2>4. Sorted(PairsOf(n, P), C1)
    BY <1>16, <2>1, SortedPick DEF Ties
  <2> QED
    BY <1>12, <1>13, <1>15, <2>2, <2>3, <2>4 DEF Bound, C1
<1>18. ASSUME Moved(gs), \E n2, P2, C2 : /\ Plan(n2, P2, C2, gs.moves, OnDisk(gs))
                                         /\ Kept(blk, blk', n, P, C, Edited(C, P[i], ents), i, n2, P2, C2)
       PROVE  tree' = tree
  <2>1. Listed(PairsOf(n, P), C, gdisk.moves, Edited(C, P[i], ents))
    BY <1>16, ListsPick DEF Listed, C1
  <2>2. OnDisk(gdisk).moves = gdisk.moves /\ tree = Mounted(blk)
    BY <1>4 DEF OnDisk, RamInv
  <2> QED
    BY <1>4, <1>5, <1>13, <1>18, <2>1, <2>2, KeptMounted
<1>19. CASE ~op.drops
  <2>1. o = NoOp /\ Aside(NoOp, n, P, C, i)
    BY <1>19 DEF Aside, NoOp, NoHandle, NoPair
  <2> HIDE DEF o
  <2>2. Start(Fetch(blk, P[i]), [Fetch(blk, P[i]).m EXCEPT !.ents = ents], TRUE, gs, gdelta, NoOp, deo)
    BY <1>14, <2>1
  <2>3. /\ Moved(gs) /\ op' = NoOp /\ deo' = NoDeo
        /\ \E n2, P2, C2 : /\ Plan(n2, P2, C2, gs.moves, OnDisk(gs))
                           /\ Kept(blk, blk', n, P, C, Edited(C, P[i], ents), i, n2, P2, C2)
    BY <1>4, <1>5, <1>9, <1>13, <1>15, <2>1, <2>2, Edits
  <2> QED
    BY <1>13, <1>17, <1>18, <2>3, KeptIdle
<1>20. CASE op.drops
  <2>1. PICK j \in 1 .. n : j # i /\ Doomed(n, P, C, j) /\ op.hook = Fetch(blk, P[j])
    BY <1>6, <1>20
  <2>2. o.at = "drop" /\ o.hook = Fetch(blk, P[j])
    BY <1>20, <2>1
  <2> HIDE DEF o
  <2>3. Fetch(blk, P[j]).pair = P[j]
    BY <1>4, <1>5, FetchSettled DEF Reads
  <2>4. Aside(o, n, P, C, i)
    BY <2>1, <2>2, <2>3 DEF Aside, Doomed, Blank
  <2>5. /\ Moved(gs) /\ op' = o /\ deo' = NoDeo
        /\ \E n2, P2, C2 : /\ Plan(n2, P2, C2, gs.moves, OnDisk(gs))
                           /\ Kept(blk, blk', n, P, C, Edited(C, P[i], ents), i, n2, P2, C2)
    BY <1>4, <1>5, <1>9, <1>13, <1>14, <1>15, <2>4, Edits
  <2>6. Empties(n, P, C, Edited(C, P[i], ents), j)
    BY <1>12, <2>1 DEF Empties, Doomed, C1
  <2>7. gs.orphans >= 1
    BY <1>6, <1>13, <1>20
  <2>8. K \subseteq {P[j]}
    BY <1>17, <2>1, <2>3
  <2>9. Inv'
    BY <1>4, <1>5, <1>13, <1>17, <2>1, <2>2, <2>5, <2>6, <2>7, <2>8, DropsNext
  <2> QED
    BY <1>18, <2>5, <2>9
<1> QED
  BY <1>19, <1>20

(* lfs_dir_drop finds the orphan on the thread, and takes it off.             *)
LEMMA DropInv == ASSUME Inv, Drop, com' = NoCom PROVE Inv' /\ tree' = tree
<1> DEFINE dir == op.hook
           gs  == Preps(gstate, -1)
           p   == The(Preds(blk, dir.pair))
           c   == [p.m EXCEPT !.tail = dir.m.tail, !.split = dir.m.split]
           gd  == Xor(gdelta, dir.m.g)
<1>1. op.at = "drop" /\ ~deo.on
  BY DEF Drop, Running
<1>2. PICK n, P, C : /\ Whole(n, P, C) /\ OpInv(n, P, C) /\ (deo = NoDeo \/ Repairing(n, P))
                     /\ Knit(n, P, C)
  BY DEF Inv
<1>3. Dropping(n, P, C)
  BY <1>1, <1>2 DEF OpInv, NoOp, Unlinking, Linking, Adding, Renaming
<1>4. /\ RamInv /\ deo = NoDeo /\ gstate \in Rams /\ gdisk \in Rams /\ blk \in Disks /\ gdelta = NoG
      /\ gstate.moves = {} /\ gdisk.moves = {} /\ gstate.orphans >= 1
  <2>1. op # NoOp
    BY <1>1 DEF NoOp
  <2> QED
    BY <1>2, <1>3, <2>1 DEF Repairing, Dropping, Inv, RamInv
<1>5. Plan(n, P, C, {}, OnDisk(gdisk)) /\ Reads(blk, n, P, C)
  <2>1. OnDisk(gdisk) \in Gs
    BY <1>4, OnDiskTyped
  <2>2. Owed = NoG /\ Xor(OnDisk(gdisk), Owed) = OnDisk(gdisk)
    BY <1>1, <2>1, XorWith DEF Owed
  <2> QED
    BY <1>2, <1>4, <2>2 DEF Whole
<1>6. PICK j \in 1 .. n : Doomed(n, P, C, j) /\ op.hook = Fetch(blk, P[j])
  BY <1>3 DEF Dropping
<1>7. Fetch(blk, P[j]).pair = P[j] /\ Fetch(blk, P[j]).m = C[P[j]]
  BY <1>4, <1>5, FetchSettled DEF Reads
<1>8. Line(n, P, Along(n, P, C))
  BY <1>5 DEF Plan
<1>9. n \in Nat \ {0} /\ P[1] = Root
  BY <1>8, LineAlong
<1>10. j # 1
  BY <1>6, <1>9 DEF Doomed, Fixed
<1>11. j - 1 \in 1 .. n - 1 /\ Preds(blk, P[j]) = {Fetch(blk, P[j - 1])} /\ The(Preds(blk, P[j])) = Fetch(blk, P[j - 1])
  BY <1>4, <1>5, <1>8, <1>10, HardPred
<1>12. PICK i \in 1 .. n - 1 : j = i + 1 /\ Preds(blk, P[j]) # {} /\ p = Fetch(blk, P[i])
  <2>1. j = (j - 1) + 1
    BY <1>9
  <2>2. Preds(blk, P[j]) # {} /\ p = Fetch(blk, P[j - 1])
    BY <1>6, <1>7, <1>11
  <2> QED
    BY <1>11, <2>1, <2>2
<1>13. gs \in Rams /\ gs.moves = {} /\ ~(gs.orphans < 0)
  <2>1. gs \in Rams /\ gs.moves = {} /\ gs.orphans >= 0
    BY <1>4, RamsIs
  <2>2. gs.orphans \in Nat
    BY <2>1, RamsIs
  <2> QED
    BY <2>1, <2>2
<1>14. Start(p, c, FALSE, gs, gd, NoOp, deo)
  BY <1>6, <1>7, <1>12, <1>13 DEF Drop
<1>15. gd = Xor(NoG, C[P[i + 1]].g)
  BY <1>4, <1>6, <1>7, <1>12
<1>16. i \in 1 .. n /\ Fetch(blk, P[i]).m = C[P[i]] /\ C[P[i]] \in Contents
  <2>1. i \in 1 .. n
    BY <1>9
  <2>2. Fetch(blk, P[i]).m = C[P[i]]
    BY <1>5, <2>1 DEF Reads
  <2> QED
    BY <1>5, <2>1, <2>2, EntsIs
<1>17. c.ents = C[P[i]].ents /\ c.tail = C[P[i + 1]].tail /\ c.split = C[P[i + 1]].split
  BY <1>6, <1>7, <1>12, <1>16 DEF Contents
<1> HIDE DEF gs, p, c, gd, dir
<1>18. Goes(Fetch(blk, P[i]), c, gs, Xor(NoG, C[P[i + 1]].g), NoOp, NoDeo)
  <2>1. ~Drops(p, c, FALSE)
    BY DEF Drops
  <2>2. Goes(p, c, gs, gd, NoOp, deo)
    BY <1>4, <1>14, <2>1, StartGoes
  <2> QED
    BY <1>4, <1>12, <1>15, <2>2
<1>19. Cuttable(gs, n, P, C, i, c, NoOp)
  <2>1. CutIs(n, P, C, gs.moves, i)
    BY <1>6, <1>12, <1>13 DEF CutIs, Doomed, Blank, Bare, Still
  <2>2. /\ \A k \in 1 .. n : Settled(blk, P[k])
        /\ \A k \in 1 .. n : Fetch(blk, P[k]).m = C[P[k]]
    BY <1>5 DEF Reads
  <2>3. \A k \in 1 .. n : P[k] \cap Free = {}
    BY <1>4, <1>5, <1>8, FreeAvoids
  <2>4. NoOp.hook.pair = {}
    BY DEF NoOp, NoHandle, NoPair
  <2> QED
    BY <1>5, <1>13, <1>17, <2>1, <2>2, <2>3, <2>4 DEF Cuttable
<1>20. WasCut(gs, n, P, C, i, NoOp, NoDeo)
  BY <1>4, <1>13, <1>18, <1>19, GoesCut
<1>21. PICK n2, P2, C2 : /\ Plan(n2, P2, C2, gs.moves, OnDisk(gs))
                         /\ Lost(blk, blk', n, P, C, i, n2, P2, C2)
  BY <1>20 DEF WasCut
<1>22. Moved(gs) /\ op' = NoOp /\ deo' = NoDeo
  BY <1>20 DEF WasCut, NoDeo
<1>23. \A v, w \in gs.moves : v = w
  BY <1>13
<1>24. Knots(n2, P2, C2, gs.moves, gs)
  <2>1. PICK K : Ties(n, P, C, gdisk.moves, K) /\ Loose(n, P, K)
    BY <1>2 DEF Knit
  <2>2. K \subseteq {P[i + 1]} /\ Tied(PairsOf(n, P), Hards(n, P, C), C, {}, K)
    BY <1>1, <1>4, <1>6, <1>7, <1>12, <2>1 DEF Loose, Ties
  <2>3. Follows(PairsOf(n, P), Hards(n, P, C), C, PairsOf(n2, P2), Hards(n2, P2, C2), C2,
                PairsOf(n, P) \ {P[i + 1]}, {P[i + 1]})
    BY <1>21 DEF Lost
  <2>4. Tied(PairsOf(n2, P2), Hards(n2, P2, C2), C2, {}, K \ {P[i + 1]})
    BY <2>2, <2>3 DEF Follows
  <2>5. K \ {P[i + 1]} = {}
    BY <2>2
  <2>6. Sorted(PairsOf(n2, P2), C2)
    BY <1>21, <2>1 DEF Lost, Keeps, Lasts, Ties
  <2> QED
    BY <1>13, <2>4, <2>5, <2>6 DEF Knots, Ties
<1>25. blk' \in Disks /\ Reads(blk', n2, P2, C2)
  BY <1>21 DEF Lost
<1>26. Inv'
  BY <1>13, <1>21, <1>22, <1>23, <1>24, <1>25, IdleAgain
<1>27. Mounted(blk) = Mounted(blk')
  <2>1. OnDisk(gdisk).moves = {} /\ OnDisk(gs).moves = {}
    BY <1>4, <1>13 DEF OnDisk
  <2>2. Plan(n2, P2, C2, {}, OnDisk(gs)) /\ Keeps(PairsOf(n, P), C, PairsOf(n2, P2), C2, {})
    BY <1>13, <1>21 DEF Lost
  <2> QED
    BY <1>4, <1>5, <1>25, <2>1, <2>2, CutSame
<1> QED
  BY <1>4, <1>22, <1>26, <1>27 DEF RamInv, Moved

(* Without a move under way a pair is found by the entries that lead to it.    *)
LEMMA EntriesOf ==
    ASSUME blk \in Disks, NEW n, NEW P, NEW C, NEW g, Plan(n, P, C, {}, g), Reads(blk, n, P, C),
           NEW l \in 1 .. n, NEW k \in 1 .. n
    PROVE  Entries(Fetch(blk, P[l]), {}, P[k]) = {a \in Names : Leads(C, P[l], a, P[k])}
<1>1. /\ \A i, j \in 1 .. n : i # j => P[i] \cap P[j] = {}
      /\ P[k] # {} /\ P[l] \in PairsOf(n, P)
  <2>1. Line(n, P, Along(n, P, C))
    BY DEF Plan
  <2>2. \A i, j \in 1 .. n : i # j => P[i] \cap P[j] = {}
    BY <2>1, LineAlong
  <2>3. P \in [1 .. n -> Pairs]
    BY <2>1, LineAlong
  <2> QED
    BY <2>2, <2>3 DEF PairsOf, Pairs
<1>2. Fetch(blk, P[l]).m = C[P[l]]
  BY DEF Reads
<1>3. MoveHere({}, Fetch(blk, P[l]).pair) = {}
  BY DEF MoveHere
<1>4. ASSUME NEW a \in Names, C[P[l]].ents[a].type = "dir", Overlap(C[P[l]].ents[a].pair, P[k])
      PROVE  C[P[l]].ents[a].pair = P[k]
  <2>1. C[P[l]].ents[a].pair \in PairsOf(n, P)
    BY <1>1, <1>4 DEF Plan, Fits, Aims
  <2>2. PICK j \in 1 .. n : C[P[l]].ents[a].pair = P[j]
    BY <2>1 DEF PairsOf
  <2>3. j = k
    BY <1>1, <1>4, <2>2 DEF Overlap
  <2> QED
    BY <2>2, <2>3
<1>5. Overlap(P[k], P[k]) /\ NoEnt.type # "dir"
  BY <1>1 DEF Overlap, NoEnt
<1> QED
  BY <1>2, <1>3, <1>4, <1>5 DEF Entries, DirsOf, Has, Leads

(* A pair without a parent is led to by no entry; the parent's entry leads    *)
(* to the pair itself, so that no half-orphan is found.                       *)
LEMMA ParentsOf ==
    ASSUME blk \in Disks, NEW n, NEW P, NEW C, NEW g, Plan(n, P, C, {}, g), Reads(blk, n, P, C),
           NEW k \in 1 .. n
    PROVE  /\ Parents(blk, {}, P[k]) = {} <=> Unled(PairsOf(n, P), C, P[k])
           /\ LET p == The(Parents(blk, {}, P[k]))
              IN Parents(blk, {}, P[k]) # {} =>
                     p.m.ents[CHOOSE x \in Entries(p, {}, P[k]) : TRUE].pair = P[k]
<1>1. Threaded(blk, n, P)
  BY ReadsThread DEF Plan
<1>2. \A l \in 1 .. n : Entries(Fetch(blk, P[l]), {}, P[k]) = {a \in Names : Leads(C, P[l], a, P[k])}
  BY EntriesOf
<1>3. ASSUME Parents(blk, {}, P[k]) = {} PROVE Unled(PairsOf(n, P), C, P[k])
  <2> SUFFICES ASSUME NEW q \in PairsOf(n, P), NEW a \in Names, Leads(C, q, a, P[k]) PROVE FALSE
    BY DEF Unled
  <2>1. PICK l \in 1 .. n : q = P[l]
    BY DEF PairsOf
  <2>2. ASSUME NEW j \in 1 .. n PROVE Entries(Fetch(blk, P[j]), {}, P[k]) # {} <=> j = l
    <3>1. j = l => Entries(Fetch(blk, P[j]), {}, P[k]) # {}
      BY <1>2, <2>1
    <3>2. ASSUME NEW b \in Names, Leads(C, P[j], b, P[k]) PROVE j = l
      <4>1. P[j] \in PairsOf(n, P) /\ P[k] \in PairsOf(n, P) /\ Once(PairsOf(n, P), C, {})
        BY DEF PairsOf, Plan, Fits
      <4>2. P[j] = P[l]
        BY <2>1, <3>2, <4>1 DEF Once, Shown
      <4> QED
        BY <4>2, LineAlong DEF Plan
    <3> QED
      BY <1>2, <3>1, <3>2
  <2>3. Parents(blk, {}, P[k]) = {Fetch(blk, P[l])}
    BY <1>1, <2>2, ParentsIs
  <2> QED
    BY <1>3, <2>3
<1> DEFINE p == The(Parents(blk, {}, P[k]))
           x == CHOOSE y \in Entries(p, {}, P[k]) : TRUE
<1>4. ASSUME Parents(blk, {}, P[k]) # {} PROVE p.m.ents[x].pair = P[k] /\ ~Unled(PairsOf(n, P), C, P[k])
  <2>1. p \in Parents(blk, {}, P[k])
    BY <1>4 DEF The
  <2>2. PICK l \in 1 .. n : p = Fetch(blk, P[l]) /\ Entries(p, {}, P[k]) # {}
    BY <1>1, <2>1, SomeParent
  <2>3. x \in Entries(p, {}, P[k])
    BY <2>2
  <2> HIDE DEF x
  <2>4. Leads(C, P[l], x, P[k])
    BY <1>2, <2>2, <2>3
  <2>5. x \in Names /\ P[l] \in PairsOf(n, P)
    BY <1>2, <2>2, <2>3 DEF PairsOf
  <2> QED
    BY <2>2, <2>4, <2>5 DEF Leads, Reads, Unled
<1> QED
  BY <1>3, <1>4

(* The search for orphans goes on, on the thread that a commit has left.       *)
LEMMA SearchesOn ==
    ASSUME NEW gs \in Rams, gs.moves = {}, Moved(gs), op' = NoOp, blk' \in Disks,
           NEW n, NEW P, NEW C, Plan(n, P, C, {}, OnDisk(gs)), Reads(blk', n, P, C),
           NEW pass \in {0, 1}, NEW pdir, deo' = Deo(pass, pdir),
           pdir = StartPdir \/ \E k \in 1 .. n : pdir = Fetch(blk', P[k]),
           NEW K, Ties(n, P, C, {}, K), K # {} => gs.orphans > 0, pass = 1 => Searched(blk', n, P, pdir, K)
    PROVE  Inv'
<1>1. OnDisk(gs) \in Gs
  BY OnDiskTyped
<1>2. Owed' = NoG
  BY DEF Owed, NoOp
<1>3. Xor(OnDisk(gdisk), Owed)' = OnDisk(gs)
  BY <1>1, <1>2, XorWith DEF Moved
<1>4. Whole(n, P, C)'
  BY <1>3 DEF Whole, Moved
<1>5. RamInv'
  BY DEF RamInv, Moved
<1>6. OpInv(n, P, C)'
  BY DEF OpInv
<1>7. Repairing(n, P)'
  BY DEF Repairing, Moved
<1>8. Knit(n, P, C)'
  <2>1. op'.at = "idle" /\ deo'.pass = pass /\ deo'.pdir = pdir
    BY DEF NoOp, Deo
  <2>2. gstate' = gs /\ gdisk' = gs
    BY DEF Moved
  <2>3. Loose(n, P, K)'
    BY <2>1, <2>2 DEF Loose
  <2> QED
    BY <2>2, <2>3 DEF Knit
<1> QED
  BY <1>4, <1>5, <1>6, <1>7, <1>8 DEF Inv

(* The passes of lfs_fs_deorphan.                                             *)
LEMMA PassIs ==
    ASSUME NEW pass \in {0, 1}, NEW pdir
    PROVE  /\ NextPass(Deo(pass, pdir)) = pass + 1
           /\ [Deo(pass, pdir) EXCEPT !.pass = 1, !.pdir = StartPdir, !.more = FALSE] = Deo(1, StartPdir)
<1>1. \A a, b : [[[on |-> a, pass |-> pass, pdir |-> pdir, more |-> b, powerloss |-> a]
                  EXCEPT !.pass = 1] EXCEPT !.pdir = StartPdir]
                  = [on |-> a, pass |-> 1, pdir |-> StartPdir, more |-> b, powerloss |-> a]
  <2> TAKE a, b
  <2> DEFINE R(k, h) == [on |-> a, pass |-> k, pdir |-> h, more |-> b, powerloss |-> a]
  <2>1. [R(pass, pdir) EXCEPT !.pass = 1] = R(1, pdir)
    OBVIOUS
  <2>2. [R(1, pdir) EXCEPT !.pdir = StartPdir] = R(1, StartPdir)
    OBVIOUS
  <2> HIDE DEF R
  <2>3. [[R(pass, pdir) EXCEPT !.pass = 1] EXCEPT !.pdir = StartPdir] = R(1, StartPdir)
    BY <2>1, <2>2
  <2> QED
    BY <2>3, Zenon DEF R
<1>2. \A a, b : [[on |-> a, pass |-> 1, pdir |-> StartPdir, more |-> b, powerloss |-> a] EXCEPT !.more = b]
                  = [on |-> a, pass |-> 1, pdir |-> StartPdir, more |-> b, powerloss |-> a]
  OBVIOUS
<1>3. [[[Deo(pass, pdir) EXCEPT !.pass = 1] EXCEPT !.pdir = StartPdir] EXCEPT !.more = FALSE] = Deo(1, StartPdir)
  BY <1>1, <1>2, Zenon DEF Deo
<1>4. \A d : [d EXCEPT !.pass = 1, !.pdir = StartPdir, !.more = FALSE]
                = [[[d EXCEPT !.pass = 1] EXCEPT !.pdir = StartPdir] EXCEPT !.more = FALSE]
  OBVIOUS
<1>5. ~Deo(pass, pdir).more /\ Deo(pass, pdir).pass = pass
  BY DEF Deo
<1> QED
  BY <1>3, <1>4, <1>5 DEF NextPass

(* lfs_fs_deorphan: what it takes off the thread has no entries.              *)
LEMMA DeorphanInv == ASSUME Inv, Deorphan, com' = NoCom PROVE Inv' /\ tree' = tree
<1> DEFINE pdir  == deo.pdir
           dir   == Fetch(blk, pdir.m.tail)
           found == Parents(blk, gdisk.moves, pdir.m.tail)
           p     == The(found)
           pair  == p.m.ents[CHOOSE x \in Entries(p, gdisk.moves, pdir.m.tail) : TRUE].pair
           pass  == deo.pass
           c     == [pdir.m EXCEPT !.tail = dir.m.tail, !.split = dir.m.split]
           gd    == Xor(gdelta, dir.m.g)
<1>1. deo.on
  BY Zenon DEF Deorphan
<1>2. PICK n, P, C : /\ Whole(n, P, C) /\ OpInv(n, P, C) /\ (deo = NoDeo \/ Repairing(n, P))
                     /\ Knit(n, P, C)
  BY DEF Inv
<1>3. Repairing(n, P)
  BY <1>1, <1>2 DEF NoDeo
<1>4. /\ RamInv /\ gstate \in Rams /\ gdisk \in Rams /\ blk \in Disks /\ gdelta = NoG
      /\ op = NoOp /\ gstate.moves = {} /\ gdisk.moves = {} /\ pass \in {0, 1} /\ deo = Deo(pass, pdir)
      /\ pdir = StartPdir \/ \E k \in 1 .. n : pdir = Fetch(blk, P[k])
  <2>1. \A q, h : Deo(q, h).pass = q /\ Deo(q, h).pdir = h
    BY DEF Deo
  <2> QED
    BY <1>3, <2>1 DEF Repairing, Inv, RamInv
<1>5. Plan(n, P, C, {}, OnDisk(gdisk)) /\ Reads(blk, n, P, C) /\ Owed = NoG
  <2>1. OnDisk(gdisk) \in Gs
    BY <1>4, OnDiskTyped
  <2>2. Owed = NoG /\ Xor(OnDisk(gdisk), Owed) = OnDisk(gdisk)
    BY <1>4, <2>1, XorWith DEF Owed, NoOp
  <2> QED
    BY <1>2, <1>4, <2>2 DEF Whole
<1>6. Line(n, P, Along(n, P, C))
  BY <1>5 DEF Plan
<1>7. n \in Nat \ {0} /\ P[1] = Root /\ C[P[n]].tail = NoPair
  BY <1>6, LineAlong
<1>8. P \in [1 .. n -> Pairs] /\ \A k \in 1 .. n : C[P[k]] \in Contents /\ P[k] # NoPair
  <2>1. P \in [1 .. n -> Pairs]
    BY <1>6, LineAlong
  <2>2. \A k \in 1 .. n : C[P[k]] \in Contents
    BY <1>6, LineAlong
  <2> QED
    BY <2>1, <2>2 DEF Pairs, NoPair
<1>9. \A k \in 1 .. n - 1 : C[P[k]].tail = P[k + 1]
  <2>1. \A k \in 1 .. n - 1 : Along(n, P, C)[k].tail = P[k + 1]
    BY <1>6 DEF Line
  <2>2. \A k \in 1 .. n : Along(n, P, C)[k] = C[P[k]]
    BY DEF Along
  <2>3. 1 .. n - 1 \subseteq 1 .. n
    BY <1>7
  <2> HIDE DEF Along
  <2> QED
    BY <2>1, <2>2, <2>3
<1>10. \A k \in 1 .. n : Fetch(blk, P[k]).pair = P[k] /\ Fetch(blk, P[k]).m = C[P[k]]
  BY <1>4, <1>5, FetchSettled DEF Reads
<1>11. StartPdir.m.tail = Root /\ StartPdir.m.split
  BY DEF StartPdir, NoHandle, Empty
<1>12. \A j, k \in 1 .. n : Fetch(blk, P[j]) = Fetch(blk, P[k]) \/ P[j] = P[k] => j = k
  <2>1. \A j, k \in 1 .. n : P[j] = P[k] => j = k
    BY <1>6, LineAlong
  <2>2. ASSUME NEW j \in 1 .. n, NEW k \in 1 .. n, Fetch(blk, P[j]) = Fetch(blk, P[k]) PROVE P[j] = P[k]
    <3>1. Fetch(blk, P[j]).pair = Fetch(blk, P[k]).pair
      BY <2>2
    <3>2. Fetch(blk, P[j]).pair = P[j] /\ Fetch(blk, P[k]).pair = P[k]
      BY <1>10
    <3> HIDE DEF dir
    <3> QED
      BY <3>1, <3>2
  <2> QED
    BY <2>1, <2>2
<1>13. PICK K : /\ Ties(n, P, C, {}, K) /\ (K # {} => gstate.orphans > 0)
                /\ pass = 1 => Searched(blk, n, P, pdir, K)
                /\ K \subseteq PairsOf(n, P) \ Fixed(n, P, C) /\ \A x \in K : Unled(PairsOf(n, P), C, x)
  <2>1. PICK K : Ties(n, P, C, gdisk.moves, K) /\ Loose(n, P, K)
    BY <1>2 DEF Knit
  <2> QED
    BY <1>1, <1>4, <2>1 DEF Loose, Ties, Tied, Fixed
<1>14. ASSUME pdir = StartPdir \/ \E k \in 1 .. n - 1 : pdir = Fetch(blk, P[k]),
              \A k \in 1 .. n - 1 : pass = 1 /\ pdir = Fetch(blk, P[k]) => P[k + 1] \notin K,
              deo' = [deo EXCEPT !.pdir = dir], UNCHANGED <<disk, ram, op, com, taken, spent>>
       PROVE  Inv' /\ tree' = tree
  <2>1. PICK k \in 1 .. n : dir = Fetch(blk, P[k])
    <3>1. CASE pdir = StartPdir
      BY <1>7, <1>11, <3>1
    <3>2. ASSUME NEW k \in 1 .. n - 1, pdir = Fetch(blk, P[k]) PROVE \E l \in 1 .. n : dir = Fetch(blk, P[l])
      <4>1. k \in 1 .. n /\ k + 1 \in 1 .. n
        BY <1>7
      <4> QED
        BY <1>9, <1>10, <3>2, <4>1
    <3> QED
      BY <1>14, <3>1, <3>2
  <2>2. deo' = Deo(pass, dir)
    BY <1>4, <1>14, DeoIs
  <2>3. pass = 1 => Searched(blk, n, P, dir, K)
    <3> SUFFICES ASSUME pass = 1, NEW q \in 1 .. n, dir = Fetch(blk, P[q]), NEW l \in 1 .. q PROVE P[l] \notin K
      BY DEF Searched
    <3>1. CASE pdir = StartPdir
      <4>1. dir = Fetch(blk, P[1]) /\ 1 \in 1 .. n
        BY <1>7, <1>11, <3>1
      <4>2. q = 1
        BY <1>12, <1>14, <4>1
      <4> QED
        BY <1>7, <1>13, <4>2 DEF Fixed
    <3>2. ASSUME NEW i \in 1 .. n - 1, pdir = Fetch(blk, P[i]) PROVE P[l] \notin K
      <4>1. i \in 1 .. n /\ i + 1 \in 1 .. n
        BY <1>7
      <4>2. dir = Fetch(blk, P[i + 1])
        BY <1>9, <1>10, <3>2, <4>1
      <4>3. q = i + 1
        BY <1>12, <1>14, <4>1, <4>2
      <4>4. l \in 1 .. i \/ l = i + 1
        BY <4>1, <4>3
      <4> QED
        BY <1>13, <1>14, <3>2, <4>1, <4>4 DEF Searched
    <3> QED
      BY <1>14, <3>1, <3>2
  <2> HIDE DEF dir, pass, pdir
  <2>4. UNCHANGED <<blk, tree, gstate, gdisk, gdelta, op>>
    BY <1>14 DEF disk, ram
  <2>5. Owed' = Owed
    BY <2>4 DEF Owed
  <2>6. Whole(n, P, C)' /\ RamInv'
    BY <1>2, <1>4, <2>4, <2>5 DEF Whole, RamInv
  <2>7. Repairing(n, P)'
    BY <1>4, <2>1, <2>2, <2>4 DEF Repairing
  <2>8. OpInv(n, P, C)'
    BY <1>4, <2>4 DEF OpInv
  <2>9. Knit(n, P, C)'
    <3>1. op'.at = "idle" /\ deo'.pass = pass /\ deo'.pdir = dir
      BY <1>4, <2>2, <2>4 DEF NoOp, Deo
    <3>2. Loose(n, P, K)'
      BY <1>13, <2>3, <2>4, <3>1 DEF Loose
    <3> QED
      BY <1>4, <1>13, <2>4, <3>2 DEF Knit
  <2> QED
    BY <2>4, <2>6, <2>7, <2>8, <2>9 DEF Inv
<1>15. CASE pdir.m.tail = NoPair
  <2>1. /\ IF pass + 1 = 2 THEN deo' = NoDeo /\ gstate' = [gstate EXCEPT !.orphans = 0]
                           ELSE deo' = Deo(1, StartPdir) /\ UNCHANGED gstate
        /\ UNCHANGED <<blk, tree, gdisk, gdelta, op>>
    <3>1. NextPass(deo) = pass + 1
      BY <1>4, PassIs
    <3>2. pass + 1 # 2 => pass + 1 = 1
      BY <1>4
    <3>3. [deo EXCEPT !.pass = 1, !.pdir = StartPdir, !.more = FALSE] = Deo(1, StartPdir)
      <4> HIDE DEF pass, pdir
      <4>1. deo = Deo(pass, pdir) /\ pass \in {0, 1}
        BY <1>4
      <4>2. [Deo(pass, pdir) EXCEPT !.pass = 1, !.pdir = StartPdir, !.more = FALSE] = Deo(1, StartPdir)
        BY <4>1, PassIs
      <4> QED
        BY <4>1, <4>2
    <3> QED
      BY <1>15, <3>1, <3>2, <3>3 DEF Deorphan, Passes, disk
  <2>2. pass = 1 => K = {}
    <3> SUFFICES ASSUME pass = 1, NEW x \in K PROVE FALSE
      OBVIOUS
    <3>1. PICK i \in 1 .. n : pdir = Fetch(blk, P[i])
      BY <1>4, <1>11, <1>15 DEF Root, NoPair
    <3>2. i = n
      <4>1. i \in 1 .. n - 1 => C[P[i]].tail = P[i + 1] /\ i + 1 \in 1 .. n
        BY <1>7, <1>9
      <4>2. C[P[i]].tail = NoPair
        BY <1>10, <1>15, <3>1
      <4>3. i \notin 1 .. n - 1
        BY <1>8, <4>1, <4>2
      <4> QED
        BY <1>7, <4>3
    <3>3. PICK l \in 1 .. n : x = P[l]
      BY <1>13 DEF PairsOf
    <3> QED
      BY <1>13, <3>1, <3>2, <3>3 DEF Searched
  <2> HIDE DEF pass, pdir
  <2>3. /\ gstate' \in Rams /\ gstate'.moves = gstate.moves
        /\ gstate'.orphans > 0 => gdisk.orphans > 0
    <3>1. gstate'.orphans = 0 \/ gstate' = gstate
      BY <1>4, <2>1 DEF Rams
    <3>2. gstate.orphans > 0 => gdisk.orphans > 0
      BY <1>4 DEF RamInv
    <3> QED
      BY <1>4, <2>1, <3>1, <3>2 DEF Rams
  <2>4. Owed' = Owed
    BY <2>1 DEF Owed
  <2>5. Whole(n, P, C)' /\ RamInv'
    BY <1>2, <1>4, <2>1, <2>3, <2>4 DEF Whole, RamInv
  <2>6. OpInv(n, P, C)'
    BY <1>4, <2>1 DEF OpInv
  <2>7. deo' = NoDeo \/ Repairing(n, P)'
    BY <1>4, <2>1, <2>3 DEF Repairing
  <2>8. Knit(n, P, C)'
    <3>1. CASE pass = 1
      <4>1. deo' = NoDeo /\ op'.at = "idle"
        BY <1>4, <2>1, <3>1 DEF NoOp
      <4>2. Loose(n, P, {})'
        BY <4>1 DEF Loose, NoDeo
      <4> QED
        BY <1>4, <1>13, <2>1, <2>2, <3>1, <4>2 DEF Knit
    <3>2. CASE pass = 0
      <4>1. deo' = Deo(1, StartPdir) /\ op'.at = "idle" /\ gstate' = gstate
        BY <1>4, <2>1, <3>2 DEF NoOp
      <4>2. Searched(blk', n, P, StartPdir, K)
        <5>1. StartPdir.pair = NoPair
          BY DEF StartPdir, NoHandle
        <5> QED
          BY <1>8, <1>10, <2>1, <5>1 DEF Searched
      <4>3. Loose(n, P, K)'
        BY <1>13, <4>1, <4>2 DEF Loose, Deo
      <4> QED
        BY <1>4, <1>13, <2>1, <4>3 DEF Knit
    <3> QED
      BY <1>4, <3>1, <3>2
  <2> QED
    BY <2>1, <2>5, <2>6, <2>7, <2>8 DEF Inv
<1>16. CASE pdir = StartPdir
  <2>1. pdir.m.tail # NoPair /\ pdir.m.split
    BY <1>11, <1>16 DEF Root, NoPair
  <2>2. deo' = [deo EXCEPT !.pdir = dir] /\ UNCHANGED <<disk, ram, op, com, taken, spent>>
    <3> HIDE DEF dir
    <3> QED
      BY <2>1 DEF Deorphan, dir
  <2>3. \A k \in 1 .. n - 1 : ~(pdir = Fetch(blk, P[k]))
    <3>1. pdir.pair = NoPair
      BY <1>16 DEF StartPdir, NoHandle
    <3>2. \A k \in 1 .. n - 1 : k \in 1 .. n
      BY <1>7
    <3> QED
      BY <1>8, <1>10, <3>1, <3>2
  <2> QED
    BY <1>14, <1>16, <2>2, <2>3
<1>17. ASSUME NEW i \in 1 .. n, pdir = Fetch(blk, P[i]), pdir.m.tail # NoPair
       PROVE  Inv' /\ tree' = tree
  <2>1. i \in 1 .. n - 1 /\ i + 1 \in 1 .. n
    BY <1>7, <1>10, <1>17
  <2>2. pdir.m = C[P[i]] /\ pdir.m.tail = P[i + 1] /\ dir = Fetch(blk, P[i + 1]) /\ dir.m = C[P[i + 1]]
    BY <1>9, <1>10, <1>17, <2>1
  <2>3. found # {} => pair = dir.pair
    <3>1. LET q == The(Parents(blk, {}, P[i + 1]))
          IN Parents(blk, {}, P[i + 1]) # {} =>
                 q.m.ents[CHOOSE x \in Entries(q, {}, P[i + 1]) : TRUE].pair = P[i + 1]
      BY <1>4, <1>5, <2>1, ParentsOf
    <3> QED
      BY <1>4, <1>10, <2>1, <2>2, <3>1
  <2>4. found = {} <=> Unled(PairsOf(n, P), C, P[i + 1])
    <3>1. found = Parents(blk, {}, P[i + 1])
      BY <1>4, <2>2
    <3> QED
      BY <1>4, <1>5, <2>1, <3>1, ParentsOf
  <2>5. \/ /\ ~pdir.m.split /\ pass = 1 /\ found = {}
           /\ Start(pdir, c, FALSE, gstate, gd, op, deo)
        \/ /\ deo' = [deo EXCEPT !.pdir = dir] /\ UNCHANGED <<disk, ram, op, com, taken, spent>>
           /\ pdir.m.split \/ pass # 1 \/ found # {}
    <3>1. deo.powerloss
      <4>1. Deo(pass, pdir).powerloss
        BY DEF Deo
      <4> QED
        BY <1>4, <4>1
    <3> QED
      BY <1>17, <2>3, <3>1, Zenon DEF Deorphan
  <2>6. CASE /\ deo' = [deo EXCEPT !.pdir = dir] /\ UNCHANGED <<disk, ram, op, com, taken, spent>>
             /\ pdir.m.split \/ pass # 1 \/ found # {}
    <3>1. ASSUME NEW k \in 1 .. n - 1, pass = 1, pdir = Fetch(blk, P[k]) PROVE P[k + 1] \notin K
      <4>1. k = i /\ k \in 1 .. n
        <5>1. k \in 1 .. n
          BY <1>7
        <5> QED
          BY <1>12, <1>17, <3>1, <5>1
      <4>2. CASE pdir.m.split
        <5>1. C[P[i]].split
          BY <2>2, <4>2
        <5>2. P[i + 1] \in Hards(n, P, C)
          BY <2>1, <5>1 DEF Hards
        <5> QED
          BY <1>13, <4>1, <5>2 DEF Fixed
      <4>3. CASE found # {}
        BY <1>13, <2>4, <4>1, <4>3
      <4> QED
        BY <2>6, <3>1, <4>2, <4>3
    <3> HIDE DEF found, dir, pass, pdir
    <3> QED
      BY <1>14, <1>17, <2>1, <2>6, <3>1
  <2>7. CASE /\ ~pdir.m.split /\ pass = 1 /\ found = {}
             /\ Start(pdir, c, FALSE, gstate, gd, op, deo)
    <3>1. Unled(PairsOf(n, P), C, P[i + 1]) /\ ~C[P[i]].split
      BY <2>2, <2>4, <2>7
    <3>2. c.ents = C[P[i]].ents /\ c.tail = C[P[i + 1]].tail /\ c.split = C[P[i + 1]].split
      BY <1>8, <2>2 DEF Contents
    <3>3. gd = Xor(NoG, C[P[i + 1]].g)
      BY <1>4, <2>2
    <3> HIDE DEF c, gd, dir, found, pair, p
    <3>4. P[i + 1] \in PairsOf(n, P) \ Fixed(n, P, C)
      <4>1. P[i + 1] \in PairsOf(n, P) /\ P[i + 1] # Root
        <5>1. 1 \in 1 .. n /\ i + 1 # 1
          BY <1>7, <2>1
        <5> QED
          BY <1>7, <1>12, <2>1, <5>1 DEF PairsOf
      <4>2. P[i + 1] \notin Hards(n, P, C)
        <5> SUFFICES ASSUME NEW j \in 1 .. n - 1, C[P[j]].split, P[j + 1] = P[i + 1] PROVE FALSE
          BY DEF Hards
        <5>1. j + 1 \in 1 .. n
          BY <1>7
        <5>2. j + 1 = i + 1
          BY <1>12, <2>1, <5>1
        <5> QED
          BY <1>7, <2>1, <3>1, <5>2
      <4> QED
        BY <4>1, <4>2 DEF Fixed
    <3>5. Blank(C[P[i + 1]])
      BY <1>5, <3>1, <3>4 DEF Plan, Fits, Orphans, Fixed, Led, Unled, Shown
    <3>6. Goes(Fetch(blk, P[i]), c, gstate, Xor(NoG, C[P[i + 1]].g), NoOp, deo)
      <4>1. ~Drops(pdir, c, FALSE)
        BY DEF Drops
      <4>2. Goes(pdir, c, gstate, gd, op, deo)
        BY <1>4, <2>7, <4>1, StartGoes
      <4> QED
        BY <1>4, <1>17, <3>3, <4>2
    <3>7. Cuttable(gstate, n, P, C, i, c, NoOp)
      <4>1. CutIs(n, P, C, gstate.moves, i)
        BY <1>4, <3>1, <3>5 DEF CutIs, Blank, Bare, Still
      <4>2. /\ \A k \in 1 .. n : Settled(blk, P[k])
            /\ \A k \in 1 .. n : Fetch(blk, P[k]).m = C[P[k]]
        BY <1>5 DEF Reads
      <4>3. \A k \in 1 .. n : P[k] \cap Free = {}
        BY <1>4, <1>5, <1>6, FreeAvoids
      <4>4. NoOp.hook.pair = {}
        BY DEF NoOp, NoHandle, NoPair
      <4> QED
        BY <1>4, <1>5, <2>1, <3>2, <4>1, <4>2, <4>3, <4>4 DEF Cuttable
    <3>8. WasCut(gstate, n, P, C, i, NoOp, deo)
      BY <1>4, <3>6, <3>7, GoesCut
    <3>9. Moved(gstate) /\ op' = NoOp /\ deo' = [deo EXCEPT !.pdir = Fetch(blk', P[i])]
      BY <1>1, <3>8 DEF WasCut
    <3>10. PICK n2, P2, C2 : /\ Plan(n2, P2, C2, {}, OnDisk(gstate)) /\ P[i] \in PairsOf(n2, P2)
                             /\ Lost(blk, blk', n, P, C, i, n2, P2, C2)
      BY <1>4, <3>8 DEF WasCut
    <3>11. deo' = Deo(pass, Fetch(blk', P[i]))
      BY <1>4, <3>9, DeoIs
    <3>12. \E k \in 1 .. n2 : Fetch(blk', P[i]) = Fetch(blk', P2[k])
      BY <3>10 DEF PairsOf
    <3>13. blk' \in Disks /\ Reads(blk', n2, P2, C2) /\ i \in 1 .. n2 /\ \A l \in 1 .. i : P2[l] = P[l]
      BY <3>10 DEF Lost
    <3> DEFINE K2 == K \ {P[i + 1]}
    <3>14. Ties(n2, P2, C2, {}, K2)
      <4>1. Follows(PairsOf(n, P), Hards(n, P, C), C, PairsOf(n2, P2), Hards(n2, P2, C2), C2,
                    PairsOf(n, P) \ {P[i + 1]}, {P[i + 1]})
        BY <3>10 DEF Lost
      <4>2. Sorted(PairsOf(n2, P2), C2)
        BY <1>13, <3>10 DEF Lost, Keeps, Lasts, Ties
      <4> QED
        BY <1>13, <4>1, <4>2 DEF Follows, Ties
    <3>15. Searched(blk', n2, P2, Fetch(blk', P[i]), K2)
      <4> SUFFICES ASSUME NEW k \in 1 .. n2, Fetch(blk', P[i]) = Fetch(blk', P2[k]), NEW l \in 1 .. k
                   PROVE  P2[l] \notin K2
        BY DEF Searched
      <4>1. P2[i] = P[i] /\ k = i
        <5>1. \A x, y \in 1 .. n2 : P2[x] = P2[y] => x = y
          BY <3>10, LineAlong DEF Plan
        <5>2. Settled(blk', P2[i]) /\ Settled(blk', P2[k])
          BY <3>13 DEF Reads
        <5>3. Fetch(blk', P2[i]).pair = P2[i] /\ Fetch(blk', P2[k]).pair = P2[k]
          BY <3>13, <5>2, FetchSettled
        <5>4. P2[i] = P[i]
          BY <3>13
        <5> QED
          BY <3>13, <5>1, <5>3, <5>4
      <4>2. P2[l] = P[l] /\ P[l] \notin K
        BY <1>13, <1>17, <2>7, <3>13, <4>1 DEF Searched
      <4> QED
        BY <4>2
    <3>16. K2 # {} => gstate.orphans > 0
      BY <1>13
    <3>17. tree' = tree
      <4>1. OnDisk(gdisk).moves = {} /\ OnDisk(gstate).moves = {}
        BY <1>4 DEF OnDisk
      <4>2. Mounted(blk) = Mounted(blk')
        BY <1>4, <1>5, <3>10, <3>13, <4>1, CutSame DEF Lost
      <4>3. tree = Mounted(blk) /\ tree' = Mounted(blk')
        BY <1>4, <3>9 DEF RamInv, Moved
      <4> QED
        BY <4>2, <4>3
    <3> HIDE DEF pass, K2
    <3> QED
      BY <1>4, <3>9, <3>10, <3>11, <3>12, <3>13, <3>14, <3>15, <3>16, <3>17, SearchesOn
  <2> QED
    BY <2>5, <2>6, <2>7
<1>18. CASE pdir # StartPdir /\ pdir.m.tail # NoPair
  <2>1. PICK i \in 1 .. n : pdir = Fetch(blk, P[i])
    BY <1>4, <1>18
  <2> QED
    BY <1>17, <1>18, <2>1
<1> QED
  BY <1>15, <1>16, <1>18

(* The call under way, of which only lfs_mkdir_ has commits before the one     *)
(* that shows.                                                                *)
Before == {"link", "unlink", "add"}
Owes ==
    /\ call = [n |-> call.n, does |-> call.does, path |-> call.path, to |-> call.to, due |-> call.due]
    /\ call.due \in BOOLEAN /\ (call.due <=> op.at \in Before) /\ (call.due => call.does = "mkdir")
    /\ "at" \in DOMAIN op

(* A commit leaves the call where its caller says.                            *)
Commences(o) == \E h, c, del, gs, gd, d : Start(h, c, del, gs, gd, o, d)
LEMMA StartAt ==
    ASSUME NEW o, Commences(o), "at" \in DOMAIN o PROVE op'.at = o.at /\ "at" \in DOMAIN op'
<1>1. PICK p, k : op' = Hooked(o, p, k)
  BY DEF Commences, Start
<1>2. [o EXCEPT !.hook = k].at = o.at /\ "at" \in DOMAIN [o EXCEPT !.hook = k]
  OBVIOUS
<1> QED
  BY <1>1, <1>2 DEF Hooked

(* A call that shows its effect by its first commit,                          *)
LEMMA AskedWhole ==
    ASSUME Owes, op.at = "idle", op'.at \notin Before, "at" \in DOMAIN op', NEW does, NEW p, NEW q, Asks(does, p, q),
           p \in Atomic!Paths \cup {<< >>}, q \in Atomic!Paths \cup {<< >>},
           \/ does = "nothing" /\ tree' = tree
           \/ tree' # tree /\ \/ does = "create" /\ Atomic!Make(p, Files)
                              \/ does = "remove" /\ Atomic!Delete(p)
                              \/ does = "rename" /\ Atomic!Rename(p, q)
    PROVE  Owes' /\ Atomic!Next
<1>1. ~call.due
  BY DEF Owes, Before
<1>2. call' = [n |-> call.n + 1, does |-> does, path |-> p, to |-> q, due |-> FALSE]
  BY DEF Asks
<1>3. /\ call'.does = does /\ call'.path = p /\ call'.to = q /\ call'.due = FALSE /\ call'.n = call.n + 1
      /\ call' \in Atomic!Calls(call.n + 1)
  BY <1>2 DEF Atomic!Calls
<1>4. Owes'
  BY <1>2, <1>3 DEF Owes
<1>5. Atomic!Effect(call')
  BY <1>3 DEF Atomic!Effect
<1>6. Atomic!Ask
  BY <1>1, <1>3, <1>5 DEF Atomic!Ask
<1> QED
  BY <1>4, <1>6 DEF Atomic!Next

(* ... and lfs_mkdir_, that does not.                                         *)
LEMMA AskedFirst ==
    ASSUME Owes, op.at = "idle", op'.at \in Before, "at" \in DOMAIN op', NEW p \in Atomic!Paths,
           Asks("mkdir", p, << >>), tree' = tree
    PROVE  Owes' /\ Atomic!Next
<1>1. ~call.due
  BY DEF Owes, Before
<1>2. call' = [n |-> call.n + 1, does |-> "mkdir", path |-> p, to |-> << >>, due |-> TRUE]
  BY DEF Asks
<1>3. /\ call'.does = "mkdir" /\ call'.path = p /\ call'.to = << >> /\ call'.due = TRUE
      /\ call'.n = call.n + 1 /\ call' \in Atomic!Calls(call.n + 1)
  BY <1>2 DEF Atomic!Calls
<1>4. Owes'
  BY <1>2, <1>3 DEF Owes
<1>5. Atomic!Ask
  BY <1>1, <1>3 DEF Atomic!Ask
<1> QED
  BY <1>4, <1>5 DEF Atomic!Next

(* A commit that shows nothing.                                               *)
LEMMA AwaitsMore ==
    ASSUME Owes, Awaits, tree' = tree, op.at \in Before <=> op'.at \in Before, "at" \in DOMAIN op'
    PROVE  Owes' /\ call' = call
<1>1. call.due \in BOOLEAN /\ call' = [call EXCEPT !.due = call.due /\ TRUE]
  BY DEF Owes, Awaits
<1>2. (call.due /\ TRUE) = call.due
  BY <1>1
<1>3. call' = [call EXCEPT !.due = call.due]
  BY <1>1, <1>2
<1>4. call' = call
  BY <1>3 DEF Owes
<1>5. Owes'
  BY <1>4 DEF Owes
<1> QED
  BY <1>4, <1>5

(* ... and the one of lfs_mkdir_ that does.                                   *)
LEMMA AwaitsNoMore ==
    ASSUME Owes, Awaits, op.at \in Before, op'.at \notin Before, "at" \in DOMAIN op', tree' # tree,
           Atomic!Make(call.path, {"dir"})
    PROVE  Owes' /\ Atomic!Next
<1>1. call.due /\ call.does = "mkdir" /\ call' = [call EXCEPT !.due = FALSE]
  BY DEF Owes, Awaits
<1>2. call' = [n |-> call.n, does |-> call.does, path |-> call.path, to |-> call.to, due |-> FALSE]
  BY <1>1 DEF Owes
<1>3. Owes'
  BY <1>2 DEF Owes
<1>4. Atomic!Effect(call)
  BY <1>1 DEF Atomic!Effect
<1>5. Atomic!Finish
  BY <1>1, <1>4 DEF Atomic!Finish, Atomic!Done
<1> QED
  BY <1>3, <1>5 DEF Atomic!Next

(* Power is lost, before the effect shows or after.                           *)
LEMMA CutOwes == ASSUME Owes, PowerCycle PROVE Owes' /\ (Atomic!Next \/ UNCHANGED <<tree, call>>)
<1>1. op'.at \notin Before /\ "at" \in DOMAIN op' /\ tree' = tree /\ call' = [call EXCEPT !.due = FALSE]
  BY DEF PowerCycle, CallLost, disk, NoOp, Before
<1>2. call' = [n |-> call.n, does |-> call.does, path |-> call.path, to |-> call.to, due |-> FALSE]
  BY <1>1 DEF Owes
<1>3. Owes'
  BY <1>1, <1>2 DEF Owes
<1>4. CASE call.due
  BY <1>1, <1>3, <1>4 DEF Atomic!Next, Atomic!GiveUp, Atomic!Done
<1>5. CASE ~call.due
  <2>1. call.due = FALSE
    BY <1>5 DEF Owes
  <2>2. call' = call
    BY <1>2, <2>1 DEF Owes
  <2> QED
    BY <1>1, <1>3, <2>2
<1> QED
  BY <1>4, <1>5

(* The rest of a call and of the repairs: what shows is the effect due.       *)
LEMMA ContinuesInv ==
    ASSUME Inv, Owes, com = NoCom, com' = NoCom, Continues, Awaits
    PROVE  Inv' /\ Owes' /\ (Atomic!Next \/ UNCHANGED <<tree, call>>)
<1>1. ~TellParent /\ ~TellPred
  BY DEF NoCom, TellParent, TellPred
<1>2. NoOp.at \notin Before /\ "at" \in DOMAIN NoOp /\ "at" \in DOMAIN op
  BY DEF NoOp, Before, Owes
<1>3. CASE MkdirAdd
  <2>1. Inv' /\ Atomic!Make(call.path, {"dir"}) /\ tree' # tree
    BY <1>3, MkdirAddInv
  <2>2. op.at \in Before /\ op'.at \notin Before /\ "at" \in DOMAIN op'
    <3>1. Commences(NoOp) \/ op' = [NoOp EXCEPT !.at = "assert"]
      BY <1>3 DEF MkdirAdd, Abort, Commences
    <3>2. (op'.at = NoOp.at \/ op'.at = "assert") /\ "at" \in DOMAIN op'
      BY <1>2, <3>1, StartAt
    <3> QED
      BY <1>2, <1>3, <3>2 DEF MkdirAdd, Running, Before
  <2> QED
    BY <2>1, <2>2, AwaitsNoMore
<1>4. ASSUME Inv', tree' = tree, op.at \in Before <=> op'.at \in Before, "at" \in DOMAIN op'
      PROVE  Inv' /\ Owes' /\ UNCHANGED <<tree, call>>
  BY <1>4, AwaitsMore
<1>5. CASE Demove
  <2>1. op.at = "idle" /\ op'.at = NoOp.at /\ "at" \in DOMAIN op'
    BY <1>2, <1>5, StartAt DEF Demove, Undoing, Running, Commences
  <2> QED
    BY <1>2, <1>4, <1>5, <2>1, DemoveInv DEF Before
<1>6. CASE ForceDeorphan
  BY <1>2, <1>4, <1>6, ForceDeorphanInv DEF ForceDeorphan, disk, ram
<1>7. CASE MkdirLink
  <2> DEFINE o == [op EXCEPT !.at = "unlink", !.h = NoHandle]
  <2>1. o.at = "unlink" /\ "at" \in DOMAIN o
    BY <1>2
  <2>2. op.at = "link" /\ Commences(o)
    BY <1>7 DEF MkdirLink, Running, Commences
  <2> HIDE DEF o
  <2>3. op'.at = o.at /\ "at" \in DOMAIN op'
    BY <2>1, <2>2, StartAt
  <2> QED
    BY <1>4, <1>7, <2>1, <2>2, <2>3, MkdirLinkInv DEF Before
<1>8. CASE RenameOld
  <2> DEFINE o == IF op.drops THEN [op EXCEPT !.at = "drop", !.h = NoHandle, !.name = 0] ELSE NoOp
  <2>1. o.at \notin Before /\ "at" \in DOMAIN o
    BY <1>2 DEF Before
  <2>2. op.at = "old" /\ (op' = o \/ Commences(o))
    BY <1>8 DEF RenameOld, Running, Commences
  <2> HIDE DEF o
  <2>3. op'.at = o.at /\ "at" \in DOMAIN op'
    BY <2>1, <2>2, StartAt
  <2> QED
    BY <1>4, <1>8, <2>1, <2>2, <2>3, RenameOldInv DEF Before
<1>9. CASE Drop
  <2>1. op.at = "drop" /\ (op'.at = NoOp.at \/ op'.at = "assert") /\ "at" \in DOMAIN op'
    <3>1. op.at = "drop" /\ (Commences(NoOp) \/ op' = NoOp \/ op' = [NoOp EXCEPT !.at = "assert"])
      BY <1>9 DEF Drop, Running, Abort, Commences
    <3> QED
      BY <1>2, <3>1, StartAt
  <2> QED
    BY <1>2, <1>4, <1>9, <2>1, DropInv DEF Before
<1>10. CASE Deorphan
  <2>1. op'.at = op.at /\ "at" \in DOMAIN op'
    <3>1. op' = op \/ Commences(op)
      BY <1>10 DEF Deorphan, Commences
    <3> QED
      BY <1>2, <3>1, StartAt
  <2> QED
    BY <1>4, <1>10, <2>1, DeorphanInv
<1> QED
  BY <1>1, <1>3, <1>5, <1>6, <1>7, <1>8, <1>9, <1>10 DEF Continues

(* A call begins.                                                             *)
LEMMA CallAsks ==
    ASSUME Inv, Owes, com' = NoCom, Call PROVE Inv' /\ Owes' /\ Atomic!Next
<1>1. /\ << >> \in Atomic!Paths \cup {<< >>} /\ NoOp.at = "idle" /\ "at" \in DOMAIN NoOp
      /\ "idle" \notin Before /\ "drop" \notin Before /\ "old" \notin Before
  BY DEF NoOp, Before
<1>2. CASE MkConsistent
  <2>1. op.at = "idle" /\ op'.at = "idle" /\ "at" \in DOMAIN op' /\ Asks("nothing", << >>, << >>)
    BY <1>1, <1>2, StartAt DEF MkConsistent, Ready, Running, Commences
  <2> QED
    BY <1>1, <1>2, <2>1, MkConsistentInv, AskedWhole
<1>3. ASSUME NEW d \in Dirs, NEW a \in Names, Create(d, a) PROVE Inv' /\ Owes' /\ Atomic!Next
  <2>1. Inv' /\ Atomic!Make(Append(d.path, a), Files) /\ tree' # tree
    BY <1>3, CreateInv
  <2>2. op.at = "idle" /\ op'.at = "idle" /\ "at" \in DOMAIN op' /\ Asks("create", Append(d.path, a), << >>)
    BY <1>1, <1>3, StartAt DEF Create, Ready, Running, Commences
  <2>3. Append(d.path, a) \in Atomic!Paths
    BY <2>1 DEF Atomic!Make
  <2> QED
    BY <1>1, <2>1, <2>2, <2>3, AskedWhole
<1>4. ASSUME NEW d \in Dirs, NEW a \in Names, lfs_mkdir_(d, a) PROVE Inv' /\ Owes' /\ Atomic!Next
  <2>1. Inv' /\ tree' = tree /\ Append(d.path, a) \in Atomic!Paths
    BY <1>4, MkdirInv
  <2>2. op.at = "idle" /\ op'.at \in Before /\ "at" \in DOMAIN op' /\ Asks("mkdir", Append(d.path, a), << >>)
    BY <1>4 DEF lfs_mkdir_, Ready, Running, NoOp, Before
  <2> QED
    BY <2>1, <2>2, AskedFirst
<1>5. ASSUME NEW d \in Dirs, NEW a \in Names, lfs_remove_(d, a) PROVE Inv' /\ Owes' /\ Atomic!Next
  <2>1. Inv' /\ Atomic!Delete(Append(d.path, a)) /\ tree' # tree
    BY <1>5, RemoveInv
  <2>2. op.at = "idle" /\ Asks("remove", Append(d.path, a), << >>)
    BY <1>5 DEF lfs_remove_, Ready, Running
  <2>3. op'.at \notin Before /\ "at" \in DOMAIN op'
    <3>1. PICK k, o : Commences(o) /\ (o = NoOp \/ o = [NoOp EXCEPT !.at = "drop", !.hook = k])
      BY <1>5 DEF lfs_remove_, Commences
    <3>2. o.at \in {"drop", "idle"} /\ "at" \in DOMAIN o
      <4>1. CASE o = NoOp
        BY <1>1, <4>1
      <4>2. CASE o = [NoOp EXCEPT !.at = "drop", !.hook = k]
        BY <1>1, <4>2
      <4> QED
        BY <3>1, <4>1, <4>2
    <3> QED
      BY <1>1, <3>1, <3>2, StartAt
  <2>4. Append(d.path, a) \in Atomic!Paths
    BY <2>1 DEF Atomic!Delete
  <2> QED
    BY <1>1, <2>1, <2>2, <2>3, <2>4, AskedWhole
<1>6. ASSUME NEW d \in Dirs, NEW a \in Names, NEW nd \in Dirs, NEW nn \in Names, lfs_rename_(d, a, nd, nn)
      PROVE  Inv' /\ Owes' /\ Atomic!Next
  <2>1. Inv' /\ Atomic!Rename(Append(d.path, a), Append(nd.path, nn)) /\ tree' # tree
    BY <1>6, RenameInv
  <2>2. op.at = "idle" /\ Asks("rename", Append(d.path, a), Append(nd.path, nn))
    BY <1>6 DEF lfs_rename_, Ready, Running
  <2>3. op'.at \notin Before /\ "at" \in DOMAIN op'
    <3>1. PICK t, k, m, l, b, o :
                    /\ Commences(o) /\ t \in {"idle", "drop", "old"}
                    /\ o = [NoOp EXCEPT !.at = t, !.h = k, !.name = m, !.hook = l, !.drops = b]
      BY <1>6 DEF lfs_rename_, Commences
    <3>2. o.at = t /\ "at" \in DOMAIN o
      BY <3>1 DEF NoOp
    <3>3. op'.at = o.at /\ "at" \in DOMAIN op'
      BY <3>1, <3>2, StartAt
    <3> QED
      BY <1>1, <3>1, <3>2, <3>3
  <2>4. Append(d.path, a) \in Atomic!Paths /\ Append(nd.path, nn) \in Atomic!Paths
    BY <2>1 DEF Atomic!Rename
  <2> QED
    BY <1>1, <2>1, <2>2, <2>3, <2>4, AskedWhole
<1> QED
  BY <1>2, <1>3, <1>4, <1>5, <1>6 DEF Call

(* A step without a relocation: a call's, by which the names change as a       *)
(* whole, once, and as was asked, or one that leaves them.                    *)
LEMMA NextInv ==
    ASSUME Inv, Owes, com = NoCom, com' = NoCom, [Next]_vars
    PROVE  Inv' /\ Owes' /\ (Atomic!Next \/ UNCHANGED <<tree, call>>)
<1>1. CASE Step
  BY <1>1, CallAsks, ContinuesInv DEF Step
<1>2. CASE PowerCycle
  BY <1>2, PowerCycleInv, CutOwes
<1>3. CASE UNCHANGED vars
  <2>1. UNCHANGED <<blk, tree, gstate, gdisk, gdelta, op, deo, taken, call>>
    BY <1>3 DEF vars, disk, ram
  <2>2. PICK n, P, C : /\ Whole(n, P, C) /\ OpInv(n, P, C) /\ (deo = NoDeo \/ Repairing(n, P))
                       /\ Knit(n, P, C)
    BY DEF Inv
  <2>3. Whole(n, P, C)' /\ RamInv'
    <3>1. Whole(n, P, C)'
      BY <2>1, <2>2 DEF Whole, Owed
    <3>2. RamInv'
      BY <2>1 DEF RamInv, Inv
    <3> QED
      BY <3>1, <3>2
  <2>4. OpInv(n, P, C)'
    BY <2>1, <2>2, Zenon DEF OpInv, Linking, Unlinking, Adding, Renaming, Dropping, Hook, New, Doomed, Asked
  <2>5. deo' = NoDeo \/ Repairing(n, P)'
    BY <2>1, <2>2 DEF Repairing
  <2>6. Knit(n, P, C)'
    BY <2>1, <2>2 DEF Knit, Loose
  <2>7. Owes'
    BY <2>1 DEF Owes
  <2> QED
    BY <2>1, <2>3, <2>4, <2>5, <2>6, <2>7 DEF Inv
<1>4. CASE Rest
  BY <1>3, <1>4 DEF Rest
<1> QED
  BY <1>1, <1>2, <1>3, <1>4 DEF Next

(* Only a call changes the tree, not a repair and not a mount.                *)
LEMMA NextSilent ==
    ASSUME Inv, com = NoCom, com' = NoCom, [Next]_vars
    PROVE  [deo.on \/ Undoing => tree' = tree]_vars
<1> SUFFICES ASSUME deo.on \/ Undoing, tree' # tree PROVE FALSE
  OBVIOUS
<1>1. ~Ready /\ (op.at = "idle" \/ deo.on)
  BY DEF Running, Undoing, Ready
<1>2. com.at = "none"
  BY DEF NoCom
<1>3. ~TellParent /\ ~TellPred
  BY <1>2 DEF TellParent, TellPred
<1>4. ~Deorphan /\ ~Demove
  BY DeorphanInv, DemoveInv
<1>5. ~ForceDeorphan /\ ~MkdirLink /\ ~MkdirAdd /\ ~RenameOld /\ ~Drop
  <2>1. ~ForceDeorphan
    BY DEF ForceDeorphan, disk
  <2> QED
    BY <1>1, <2>1 DEF MkdirLink, MkdirAdd, RenameOld, Drop, Running
<1>6. ~Call
  <2>1. ~MkConsistent /\ \A d, a : ~Create(d, a)
    BY <1>1, Zenon DEF MkConsistent, Create
  <2>2. \A d, a : ~lfs_mkdir_(d, a) /\ ~lfs_remove_(d, a)
    BY <1>1, Zenon DEF lfs_mkdir_, lfs_remove_
  <2>3. \A d, a, nd, nn : ~lfs_rename_(d, a, nd, nn)
    BY <1>1 DEF lfs_rename_
  <2> QED
    BY <2>1, <2>2, <2>3 DEF Call
<1>7. ~PowerCycle /\ ~UNCHANGED vars
  BY DEF PowerCycle, vars, disk
<1> QED
  BY <1>3, <1>4, <1>5, <1>6, <1>7 DEF Next, Step, Continues, Rest

(* The invariant holds as long as no commit relocates its pair.               *)
LEMMA SpecInv == Spec /\ [](com = NoCom) => [](Inv /\ Owes)
<1>1. Init => Inv /\ Owes
  <2>1. Init => Owes
    BY DEF Init, Owes, NoOp, Before
  <2> QED
    BY <2>1, InitInv
<1>2. Inv /\ Owes /\ com = NoCom /\ (com = NoCom)' /\ [Next]_vars => Inv' /\ Owes'
  BY NextInv
<1> QED
  BY <1>1, <1>2, PTL DEF Spec

(* A new file system has the root, and nothing else.                          *)
LEMMA InitTree == Init => Atomic!Init
<1> SUFFICES ASSUME Init PROVE tree = {[path |-> << >>, type |-> "dir"]}
  BY DEF Atomic!Init, Init
<1>1. Inv /\ Running("idle")
  BY InitInv DEF Init, Running, NoOp, NoDeo
<1>2. RamInv /\ blk \in Disks /\ tree = Mounted(blk) /\ gdisk.moves = {} /\ gstate.orphans = 0
  BY <1>1 DEF Init, Inv, RamInv
<1>3. PICK n, P, C : /\ Plan(n, P, C, {}, OnDisk(gdisk)) /\ Reads(blk, n, P, C)
                     /\ Knots(n, P, C, {}, gstate)
  BY <1>1, <1>2, IdleIs
<1>4. \A c \in Blocks : \A a \in Names : blk[c].ents[a] = NoEnt
  <2>1. blk = [[b \in Blocks |-> Empty] EXCEPT ![0].rev = 1]
    BY DEF Init
  <2>2. \A c \in Blocks : blk[c] = Empty \/ blk[c] = [Empty EXCEPT !.rev = 1]
    BY <2>1
  <2>3. [Empty EXCEPT !.rev = 1].ents = Empty.ents /\ \A a \in Names : Empty.ents[a] = NoEnt
    BY DEF Empty
  <2> QED
    BY <2>2, <2>3
<1> DEFINE S == PairsOf(n, P)
           N == Nodes(blk, {})
<1>5. \A q \in S : \A a \in Names : C[q].ents[a] = NoEnt
  <2> SUFFICES ASSUME NEW k \in 1 .. n PROVE \A a \in Names : C[P[k]].ents[a] = NoEnt
    BY DEF PairsOf
  <2>1. Settled(blk, P[k]) /\ Fetch(blk, P[k]).m = C[P[k]]
    BY <1>3 DEF Reads
  <2>2. Fetch(blk, P[k]).m = blk[Fetch(blk, P[k]).cur] /\ Fetch(blk, P[k]).cur \in Blocks
    BY <1>2, <2>1, FetchSettled
  <2> QED
    BY <1>4, <2>1, <2>2
<1>6. Sorted(S, C) /\ OnDisk(gdisk).moves = {}
  BY <1>2, <1>3 DEF Knots, Ties, OnDisk
<1>7. tree = Shades(N) /\ Stands(blk, n, P, C) /\ Moving(n, P, {})
  BY <1>2, <1>3, <1>6, MountedIs
<1>8. Grown(N, Firsts(n, P, C), S, C, {})
  <2>1. Listing(Firsts(n, P, C), S, C, {}) /\ Firsts(n, P, C) \subseteq S
    BY <1>3, <1>6, PlanListing DEF Plan, Firsts
  <2> QED
    BY <1>7, <2>1, NodesGrown
<1> HIDE DEF N
<1>9. N = {RootNode}
  <2>1. \A y, x : ~Onward(S, C, {}, y, x)
    BY <1>5 DEF Onward, Lists, Entry
  <2> HIDE DEF S
  <2> QED
    BY <1>8, <2>1 DEF Grown, Least
<1>10. Shades({RootNode}) = {Shade(RootNode)} /\ Shade(RootNode) = [path |-> << >>, type |-> "dir"]
  BY DEF Shades, Shade, RootNode, Dir
<1> QED
  BY <1>7, <1>9, <1>10

-----------------------------------------------------------------------------
(* What follows of it.                                                        *)
LEMMA InvTyped == Inv => TypeOK
<1> SUFFICES ASSUME Inv PROVE TypeOK
  OBVIOUS
<1>1. PICK n, P, C : Whole(n, P, C)
  BY DEF Inv
<1>2. /\ blk \in Disks /\ gstate \in Rams /\ gdisk \in Rams /\ gstate.moves = gdisk.moves
      /\ \A v, w \in gstate.moves : v = w
  BY DEF Inv, RamInv
<1>3. \A b \in Blocks : blk[b].tail \subseteq Blocks /\ \A a \in Names : blk[b].ents[a].pair \subseteq Blocks
  BY <1>2 DEF Disks, Contents, Ents
<1>4. ASSUME NEW h \in Range(Thread(blk)) PROVE Cardinality({blk[b].rev : b \in h.pair}) = 2
  <2>1. Threaded(blk, n, P)
    BY <1>1, ReadsThread DEF Whole, Plan
  <2>2. n \in Nat \ {0} /\ Thread(blk) = [i \in 1 .. n |-> Fetch(blk, P[i])]
    <3>1. n \in Nat \ {0}
      BY <2>1 DEF Threaded, Line
    <3> QED
      BY <1>2, <2>1, <3>1, ThreadIs
  <2>3. PICK i \in 1 .. n : h = Fetch(blk, P[i])
    BY <2>2 DEF Range
  <2>4. h.pair = P[i] /\ P[i] \in Pairs /\ \E c \in P[i] : InForce(blk, P[i], c)
    BY <1>2, <2>1, <2>3, FetchSettled DEF Threaded, Settled
  <2>5. PICK a, b : a # b /\ P[i] = {a, b} /\ P[i] \subseteq Blocks
    BY <2>4 DEF Pairs
  <2>6. blk[a].rev \in Nat /\ blk[b].rev \in Nat /\ blk[a].rev # blk[b].rev
    <3>1. blk[a].rev \in Nat /\ blk[b].rev \in Nat
      BY <1>2, <2>5 DEF Disks, Contents
    <3> QED
      BY <2>4, <2>5, <3>1 DEF InForce
  <2>7. {blk[x].rev : x \in h.pair} = {blk[a].rev, blk[b].rev}
    BY <2>4, <2>5
  <2> QED
    <3> DEFINE r == blk[a].rev
               s == blk[b].rev
               R == {r}
    <3>1. r # s /\ {blk[x].rev : x \in h.pair} = R \cup {s} /\ s \notin R
      BY <2>6, <2>7
    <3>2. IsFiniteSet(R) /\ Cardinality(R) = 1
      BY FS_Singleton
    <3> HIDE DEF r, s, R
    <3>3. Cardinality(R \cup {s}) = Cardinality(R) + 1
      BY <3>1, <3>2, FS_AddElement
    <3> QED
      BY <3>1, <3>2, <3>3
<1>5. Cardinality(gstate.moves) <= 1
  <2>1. CASE gstate.moves = {}
    BY <2>1, FS_EmptySet
  <2>2. CASE gstate.moves # {}
    <3>1. PICK v : gstate.moves = {v}
      BY <1>2, <2>2
    <3> QED
      BY <3>1, FS_Singleton
  <2> QED
    BY <2>1, <2>2
<1> QED
  BY <1>2, <1>3, <1>4, <1>5, RamsIs DEF TypeOK

(* lfs_fs_preporphans' assertion.                                             *)
LEMMA InvAsserts == Inv => op.at # "assert"
<1> SUFFICES ASSUME Inv PROVE op.at # "assert"
  OBVIOUS
<1>1. PICK n, P, C : OpInv(n, P, C)
  BY DEF Inv
<1>2. NoOp.at = "idle"
  BY DEF NoOp
<1> QED
  BY <1>1, <1>2 DEF OpInv, Linking, Unlinking, Adding, Renaming, Dropping

(* The sum of the deltas, before a call.                                      *)
LEMMA InvGState == Inv => GStateRead
<1> SUFFICES ASSUME Inv, Ready PROVE GState(blk) = OnDisk(gdisk)
  BY DEF GStateRead
<1>1. PICK n, P, C : Plan(n, P, C, gdisk.moves, OnDisk(gdisk)) /\ Reads(blk, n, P, C) /\ blk \in Disks
  BY IdleIs DEF Ready, RamInv
<1>2. Threaded(blk, n, P) /\ Ms(blk, n, P) = Along(n, P, C)
  BY <1>1, ReadsThread DEF Plan
<1> QED
  BY <1>1, <1>2, GStateIs DEF Plan

(* The handles of the call that goes on.                                      *)
LEMMA InvFresh == Inv => HandlesFresh
<1> SUFFICES ASSUME Inv PROVE HandlesFresh
  OBVIOUS
<1>1. PICK n, P, C : OpInv(n, P, C)
  BY DEF Inv
<1>2. \A p : Fresh(Fetch(blk, p))
  BY DEF Fresh, Fetch
<1>3. NoOp.at = "idle"
  BY DEF NoOp
<1> QED
  BY <1>1, <1>2, <1>3 DEF HandlesFresh, Running, OpInv, Linking, Unlinking, Adding, Renaming, Dropping, Hook

(* Every directory a path leads to is on the thread.                          *)
LEMMA InvInUse == Inv => TreeInUse
<1> SUFFICES ASSUME Inv, NEW h \in Linked(blk) PROVE h.pair \subseteq InUse(blk, gdisk.moves)
  BY DEF TreeInUse
<1>1. PICK n, P, C : Whole(n, P, C)
  BY DEF Inv
<1>2. blk \in Disks
  BY DEF Inv, RamInv
<1>3. Hard(blk, n, P) /\ P[1] = Root /\ n \in Nat \ {0} /\ Threaded(blk, n, P)
  BY <1>1, PlanHard, ReadsThread DEF Whole, Plan
<1>4. DirsOnLine(blk, n, P)
  BY <1>1 DEF DirsOnLine, Whole, Plan, Fits, Aims, PairsOf, Reads
<1>5. PICK x \in Nodes(blk, {}) : x.ent.type = "dir" /\ h \in Range(Chain(blk, x.ent.pair))
  BY DEF Linked
<1>6. OnPath(blk, n, P, {}, x.ent.pair)
  BY <1>3, <1>4, <1>5, NodesFound
<1>7. PICK i \in 1 .. n : P[i] = x.ent.pair
  BY <1>3, <1>4, <1>6 DEF OnPath, DirsOnLine, DirsOf, Has
<1>8. PICK j \in i .. n : h = Fetch(blk, P[j])
  <2>1. Hard(blk, n, P)
    BY <1>3
  <2>2. \A k \in Range(Chain(blk, P[i])) : \E j \in i .. n : k = Fetch(blk, P[j])
    BY <2>1, ChainFound
  <2>3. h \in Range(Chain(blk, P[i]))
    BY <1>5, <1>7
  <2> QED
    BY <2>2, <2>3
<1>9. n \in Nat
  BY <1>3
<1>10. j \in 1 .. n
  BY <1>9
<1>11. h.pair = P[j]
  BY <1>2, <1>3, <1>8, <1>10, FetchSettled DEF Threaded
<1> QED
  BY <1>2, <1>3, <1>10, <1>11, ThreadInUse

(* A thread in order with every pair on a path.                               *)
LEMMA HeadsAgree ==
    ASSUME blk \in Disks, gdisk.moves = {}, NEW n, NEW P, NEW C, NEW g, Plan(n, P, C, {}, g), Reads(blk, n, P, C),
           Ties(n, P, C, {}, {})
    PROVE  Heads = Reached
<1>1. InOrder(blk, n, P, C)
  BY DEF InOrder, Plan
<1>2. /\ \A x \in DirPairs(Nodes(blk, {})) : \E i : Starts(n, P, C, i) /\ x = P[i]
      /\ \A i : Starts(n, P, C, i) => P[i] \in DirPairs(Nodes(blk, {}))
  BY <1>1, HeadsReached DEF Ties
<1>3. Reached = DirPairs(Nodes(blk, {}))
  BY DEF Reached, Dirs, DirPairs
<1>4. n \in Nat \ {0} /\ \A k \in 1 .. n : Fetch(blk, P[k]).m = C[P[k]] /\ Fetch(blk, P[k]).pair = P[k]
  BY <1>1, InOrderIs
<1>5. Thread(blk) = [i \in 1 .. n |-> Fetch(blk, P[i])]
  <2>1. Threaded(blk, n, P)
    BY ReadsThread DEF Plan
  <2> QED
    BY <2>1, ThreadIs
<1> DEFINE t == Thread(blk)
<1> HIDE DEF t
<1>6. DOMAIN t = 1 .. n /\ \A k \in 1 .. n : t[k].pair = P[k] /\ t[k].m.split = C[P[k]].split
  BY <1>4, <1>5 DEF t
<1>7. \A j \in 1 .. n : (j = 1 \/ ~t[j - 1].m.split) <=> Starts(n, P, C, j)
  <2> SUFFICES ASSUME NEW j \in 1 .. n, j # 1 PROVE t[j - 1].m.split = C[P[j - 1]].split
    BY DEF Starts
  <2>1. j - 1 \in 1 .. n
    BY <1>4
  <2> QED
    BY <1>6, <2>1
<1>8. Heads = {t[i].pair : i \in {j \in DOMAIN t : j = 1 \/ ~t[j - 1].m.split}}
  BY DEF Heads, t
<1>9. \A x \in Heads : x \in Reached
  BY <1>2, <1>3, <1>6, <1>7, <1>8
<1>10. ASSUME NEW x \in Reached PROVE x \in Heads
  <2>1. PICK i : Starts(n, P, C, i) /\ x = P[i]
    BY <1>2, <1>3
  <2>2. i \in 1 .. n
    BY <2>1 DEF Starts
  <2>3. i \in {j \in DOMAIN t : j = 1 \/ ~t[j - 1].m.split} /\ t[i].pair = x
    BY <1>6, <1>7, <2>1, <2>2
  <2> QED
    BY <1>8, <2>3
<1> QED
  BY <1>9, <1>10

(* The thread and the tree, before a call.                                    *)
LEMMA InvConsistent == Inv => Consistent
<1> SUFFICES ASSUME Inv, Ready PROVE Heads = Reached
  BY DEF Consistent
<1>1. PICK n, P, C : /\ Plan(n, P, C, gdisk.moves, OnDisk(gdisk)) /\ Reads(blk, n, P, C)
                     /\ Knots(n, P, C, gdisk.moves, gstate)
  BY IdleIs DEF Ready
<1>2. gdisk.moves = {} /\ gstate.orphans = 0 /\ blk \in Disks
  BY DEF Ready, Inv, RamInv
<1>3. Ties(n, P, C, {}, {})
  BY <1>1, <1>2, AllTied DEF Ties
<1> QED
  BY <1>1, <1>2, <1>3, HeadsAgree

(* ... and at any point of any call.                                          *)
LEMMA InvTold == Inv => Told
<1> SUFFICES ASSUME Inv, ~GState(blk).orphan, GState(blk).moves = {} PROVE Heads = Reached
  BY DEF Told
<1>1. RamInv /\ OnDisk(gdisk) \in Gs /\ blk \in Disks
  BY OnDiskTyped DEF Inv, RamInv
<1>2. PICK n, P, C : Whole(n, P, C) /\ OpInv(n, P, C) /\ Knit(n, P, C)
  BY DEF Inv
<1>3. GState(blk) = Xor(OnDisk(gdisk), Owed) /\ gdisk.moves = {}
  BY <1>1, <1>2, SumRead
<1>4. PICK K : Ties(n, P, C, {}, K) /\ Loose(n, P, K)
  BY <1>2, <1>3 DEF Knit
<1>5. K = {}
  <2> SUFFICES ASSUME K # {} PROVE FALSE
    OBVIOUS
  <2>1. gdisk.orphans > 0 /\ op.at \notin {"link", "add"}
    BY <1>1, <1>4 DEF Loose, RamInv
  <2>2. Owed = NoG
    BY <2>1 DEF Owed
  <2>3. GState(blk) = OnDisk(gdisk)
    BY <1>1, <1>3, <2>2, XorWith
  <2>4. OnDisk(gdisk).orphan = TRUE
    BY <2>1 DEF OnDisk
  <2> QED
    BY <2>3, <2>4, Zenon
<1>6. Plan(n, P, C, {}, Xor(OnDisk(gdisk), Owed)) /\ Reads(blk, n, P, C)
  BY <1>2, <1>3 DEF Whole
<1> QED
  BY <1>1, <1>3, <1>4, <1>5, <1>6, HeadsAgree

(* The counts and sets stay what they can be: of the two halves of every      *)
(* pair on the thread one is the newer (1107-1129), at most one move is under  *)
(* way, and no orphan is taken back that was not announced (4816-4824).       *)
THEOREM Typed == Spec /\ [](com = NoCom) => []TypeOK
  BY SpecInv, InvTyped, PTL

(* The assertion that the count of orphans is not negative (4817) never       *)
(* fails: each -1 of lfs_mkdir_, lfs_remove_ and lfs_rename_ (2662, 3892,      *)
(* 4030) comes after their +1, whatever was repaired and read in between.     *)
THEOREM AssertHolds == Spec /\ [](com = NoCom) => [](op.at # "assert")
  BY SpecInv, InvAsserts, PTL

(* What the driver takes the global state on the disk to be is the sum a      *)
(* mount would find, over any mix of appends, compactions, splits, new pairs   *)
(* and dropped ones (1379-1395, 2017-2027, 2268-2277, 5007), before a call.    *)
THEOREM GStateAddsUp == Spec /\ [](com = NoCom) => []GStateRead
  BY SpecInv, InvGState, PTL

(* A handle kept over a commit to another pair is up to date when the next     *)
(* commit goes through it (2635-2672, 3885-3905, 3999-4040).                  *)
THEOREM HandlesStayFresh == Spec /\ [](com = NoCom) => []HandlesFresh
  BY SpecInv, InvFresh, PTL

(* The allocator avoids the pairs of every directory that a path leads to,    *)
(* by what it reads of the thread (4600-4674), at any point of any call.      *)
THEOREM TreeIsInUse == Spec /\ [](com = NoCom) => []TreeInUse
  BY SpecInv, InvInUse, PTL

(* Before a call every directory on the thread is in the tree and every       *)
(* directory of the tree is on the thread: the calls and the repairs          *)
(* (4913-5038) leave none that is only on one of them.                        *)
THEOREM Agree == Spec /\ [](com = NoCom) => []Consistent
  BY SpecInv, InvConsistent, PTL

(* Wherever power is lost, what a mount reads of the global state tells it to *)
(* repair whenever the thread and the tree differ (2617-2683, 3873-3905,      *)
(* 3980-4043, 4816-4840): no step is left half done without a note of it.     *)
THEOREM ToldOfOrphans == Spec /\ [](com = NoCom) => []Told
  BY SpecInv, InvTold, PTL

(* A call happens as a whole or not at all: what a mount finds changes once    *)
(* for a call, by what that call asks for, a name made, taken away or given to *)
(* another place, or not at all if power is lost, whichever of the commits of  *)
(* a call (2589-4050), of the repairs (4877-5038) and of a file system made    *)
(* consistent it is lost between. A rename shows neither both names nor none,  *)
(* a repair or a mount nothing. The thread of pairs with its splits, moves and *)
(* orphans implements the tree of names.                                       *)
THEOREM CallsHappenWhole == Spec /\ [](com = NoCom) => CallsAtomic
<1>1. Init => Atomic!Init
  BY InitTree
<1>2. Inv /\ Owes /\ com = NoCom /\ (com = NoCom)' /\ [Next]_vars => [Atomic!Next]_<<tree, call>>
  BY NextInv
<1> QED
  BY SpecInv, <1>1, <1>2, PTL DEF Spec, CallsAtomic, Atomic!Spec

(* A repair shows nothing: neither the name that lfs_fs_demove (4877-4910)     *)
(* takes out nor what lfs_fs_deorphan takes off the thread is on a path, and   *)
(* whatever of it is done again after power was lost; the tree that a mount    *)
(* finds is the same over every step of them.                                 *)
THEOREM SilentRepairs == Spec /\ [](com = NoCom) => RepairsSilent
<1>1. Inv /\ com = NoCom /\ (com = NoCom)' /\ [Next]_vars => [deo.on \/ Undoing => tree' = tree]_vars
  BY NextSilent
<1> QED
  BY SpecInv, <1>1, PTL DEF Spec, RepairsSilent
=============================================================================
