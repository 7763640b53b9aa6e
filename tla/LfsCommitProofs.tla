--------------------------- MODULE LfsCommitProofs --------------------------
(***************************************************************************)
(* Proofs about the commits to the tree of directories: the invariant of     *)
(* the disk and of where in a call the driver is, and what a commit of each   *)
(* kind does to them, wherever in a call it comes.                           *)
(*                                                                         *)
(* The invariant, Inv, says of the disk that its pairs are a thread P[1] ..   *)
(* P[n] on which they hold what C says, that C is in order (Plan of           *)
(* LfsThreadProofs), and where in a call the driver is.  A commit is followed *)
(* from what it is planned to leave (a new C, shown to be in order by a Fits  *)
(* lemma) over the block it writes (Committed) and what is then forgotten     *)
(* (Tidied), to the thread a mount would read: appended, compacted or split.  *)
(*                                                                         *)
(* The nodes a mount finds are the least set grown from what the directories  *)
(* list (Grown of LfsThreadProofs), so a commit that changes one list adds,   *)
(* removes or carries the nodes under one path (AddsNode, RemovesNode,        *)
(* MovesNode), and one that leaves every list as it was leaves the tree.      *)
(***************************************************************************)
EXTENDS LfsTree, LfsThreadProofs

(* lfs->gstate and lfs->gdisk.                                               *)
Rams == [orphans : Nat, moves : SUBSET Moves]

(* What of the global state in RAM goes to the disk.                          *)
LEMMA OnDiskTyped == ASSUME NEW gs \in Rams PROVE OnDisk(gs) \in Gs
  BY DEF OnDisk, Rams, Gs

(* Two of the free blocks. *)
LEMMA LowestTwo ==
    ASSUME NEW S, S \subseteq Blocks, Cardinality(S) > 1
    PROVE  Lowest(S, 2) \in Pairs /\ Lowest(S, 2) \subseteq S
<1>1. S \subseteq Nat /\ IsFiniteSet(S)
  BY ThreadAssumption, FS_Subset
<1>2. S # {}
  BY FS_EmptySet
<1>3. PICK x \in S : \A y \in S : ~(y < x)
  BY <1>1, <1>2, LeastOne
<1>4. S \ {x} # {}
  <2>1. S = {x} => Cardinality(S) = 1
    BY FS_Singleton
  <2> QED
    BY <1>3, <2>1
<1>5. PICK z \in S \ {x} : \A y \in S \ {x} : ~(y < z)
  BY <1>1, <1>4, LeastOne
<1>6. x < z
  BY <1>1, <1>3, <1>5
<1>7. {y \in S : y < x} = {} /\ {y \in S : y < z} = {x}
  BY <1>1, <1>3, <1>5, <1>6
<1>8. Cardinality({y \in S : y < x}) = 0 /\ Cardinality({y \in S : y < z}) = 1
  BY <1>7, FS_EmptySet, FS_Singleton
<1>9. ASSUME NEW w \in S, w # x, w # z PROVE ~(Cardinality({y \in S : y < w}) < 2)
  <2>1. x < w /\ z < w
    BY <1>1, <1>3, <1>5, <1>9
  <2>2. {x, z} \subseteq {y \in S : y < w} /\ IsFiniteSet({y \in S : y < w})
    BY <1>1, <2>1, FS_Subset
  <2>3. Cardinality({x, z}) <= Cardinality({y \in S : y < w})
    BY <2>2, FS_Subset
  <2>4. Cardinality({x, z}) = 2
    <3>1. IsFiniteSet({x}) /\ Cardinality({x}) = 1 /\ z \notin {x}
      BY <1>5, FS_Singleton
    <3>2. Cardinality({x} \cup {z}) = Cardinality({x}) + 1
      BY <3>1, FS_AddElement
    <3>3. {x} \cup {z} = {x, z}
      OBVIOUS
    <3> QED
      BY <3>1, <3>2, <3>3
  <2>5. Cardinality({y \in S : y < w}) \in Nat
    BY <2>2, FS_CardinalityType
  <2> QED
    BY <2>3, <2>4, <2>5
<1>10. Lowest(S, 2) = {x, z}
  BY <1>8, <1>9 DEF Lowest
<1> QED
  BY <1>5, <1>10 DEF Pairs

(* Off the commit all pairs are on the disk as they are planned. *)
Elsewhere(b, n, P, C, i) ==
    \A k \in 1 .. n : k # i => Settled(b, P[k]) /\ Fetch(b, P[k]).m = C[P[k]]

(* What a commit leaves of a plan, on disk b1 that was b. *)
After(b, b1, h, n, P, C, i, n2, P2, C2) ==
    /\ b1 \in Disks /\ Reads(b1, n2, P2, C2)
    /\ PairsOf(n, P) \subseteq PairsOf(n2, P2)
    /\ \A x \in PairsOf(n, P) : x \in Hards(n2, P2, C2) <=> x \in Hards(n, P, C)
    /\ \A k \in 1 .. n : k # i => Fetch(b1, P[k]) = Fetch(b, P[k])
    /\ \A y : Unled(PairsOf(n, P), C, y) => Unled(PairsOf(n2, P2), C2, y)
    /\ Follows(PairsOf(n, P), Hards(n, P, C), C, PairsOf(n2, P2), Hards(n2, P2, C2), C2, PairsOf(n, P), {})
    /\ Keeps(PairsOf(n, P), C, PairsOf(n2, P2), C2, PairsOf(n, P) \ {P[i]})
    /\ \A q \in PairsOf(n2, P2) : q \in PairsOf(n, P) \/ q \subseteq Free
    /\ i \in 1 .. n2 /\ \A l \in 1 .. i : P2[l] = P[l]
    /\ h = Fetch(b1, P[i])

Fills(m, c, g) == m.ents = c.ents /\ m.tail = c.tail /\ m.split = c.split /\ m.g = g

(* One block of the pair is written. *)
LEMMA CommittedHalf ==
    ASSUME NEW n, NEW P, NEW C, NEW mv, NEW g, Plan(n, P, C, mv, g), NEW i \in 1 .. n,
           NEW b \in Disks, Settled(b, P[i]), Elsewhere(b, n, P, C, i),
           NEW c \in P[i], NEW m \in Contents, Fills(m, C[P[i]], C[P[i]].g),
           \/ c = Fetch(b, P[i]).cur /\ m.rev = b[c].rev
           \/ c # Fetch(b, P[i]).cur /\ m.rev = b[Fetch(b, P[i]).cur].rev + 1
    PROVE  \E C2 : /\ Plan(n, P, C2, mv, g)
                   /\ After(b, [b EXCEPT ![c] = m], [pair |-> P[i], cur |-> c, m |-> m],
                            n, P, C, i, n, P, C2)
<1> DEFINE b1 == [b EXCEPT ![c] = m]
           C2 == [p \in Pairs |-> IF p = P[i] THEN m ELSE C[p]]
<1>1. /\ P \in [1 .. n -> Pairs] /\ n \in Nat \ {0}
      /\ \A j, k \in 1 .. n : j # k => P[j] \cap P[k] = {}
      /\ \A j, k \in 1 .. n : P[j] = P[k] => j = k
      /\ C[P[i]] \in Contents
  BY LineAlong DEF Plan
<1>2. c \in Blocks
  BY <1>1 DEF Pairs
<1>3. b1 \in Disks /\ b1[c] = m /\ \A d \in Blocks : d # c => b1[d] = b[d]
  BY <1>2 DEF Disks
<1>4. C2[P[i]] = m /\ \A k \in 1 .. n : k # i => C2[P[k]] = C[P[k]]
  BY <1>1
<1> HIDE DEF b1, C2
<1>5. Settled(b1, P[i]) /\ Fetch(b1, P[i]) = [pair |-> P[i], cur |-> c, m |-> m]
  <2>1. \A d \in P[i] : d # c => b1[d] = b[d]
    BY <1>1, <1>3 DEF Pairs
  <2> QED
    BY <1>3, <2>1, WriteHalf
<1>6. ASSUME NEW k \in 1 .. n, k # i PROVE Settled(b1, P[k]) /\ Fetch(b1, P[k]) = Fetch(b, P[k])
  <2>1. \A d \in P[k] : b1[d] = b[d]
    BY <1>1, <1>3, <1>6 DEF Pairs
  <2>2. Settled(b, P[k])
    BY <1>6 DEF Elsewhere
  <2> QED
    BY <1>3, <2>1, <2>2, FetchAgrees
<1>7. Reads(b1, n, P, C2)
  <2> SUFFICES ASSUME NEW k \in 1 .. n PROVE Settled(b1, P[k]) /\ Fetch(b1, P[k]).m = C2[P[k]]
    BY DEF Reads
  <2>1. CASE k = i
    BY <1>4, <1>5, <2>1
  <2>2. CASE k # i
    BY <1>4, <1>6, <2>2 DEF Elsewhere
  <2> QED
    BY <2>1, <2>2
<1>8. \A q \in PairsOf(n, P) : C2[q].ents = C[q].ents /\ C2[q].split = C[q].split
  BY <1>4 DEF PairsOf, Fills
<1>9. /\ \A v : Fits(PairsOf(n, P), Hards(n, P, C), C, v) => Fits(PairsOf(n, P), Hards(n, P, C), C2, v)
      /\ \A y : Unled(PairsOf(n, P), C, y) => Unled(PairsOf(n, P), C2, y)
  BY <1>8, FitsSame
<1>10. Fits(PairsOf(n, P), Hards(n, P, C), C2, mv)
  BY <1>9 DEF Plan
<1>11. C2[P[i]].g = Xor(C[P[i]].g, NoG) /\ NoG \in Gs /\ Xor(g, NoG) = g
  <2>1. C[P[i]].g \in Gs /\ g \in Gs
    BY <1>1 DEF Contents, Plan
  <2> QED
    BY <1>4, <2>1, XorWith DEF Fills
<1>12. Plan(n, P, C2, mv, Xor(g, NoG)) /\ Hards(n, P, C2) = Hards(n, P, C)
  BY <1>4, <1>10, <1>11, PlanKeep DEF Fills
<1>13. Follows(PairsOf(n, P), Hards(n, P, C), C, PairsOf(n, P), Hards(n, P, C2), C2, PairsOf(n, P), {})
  <2>1. \A q \in PairsOf(n, P) : C2[q].tail = C[q].tail
    BY <1>4 DEF PairsOf, Fills
  <2>2. ASSUME NEW v, NEW K, Tied(PairsOf(n, P), Hards(n, P, C), C, v, K)
        PROVE  Tied(PairsOf(n, P), Hards(n, P, C), C2, v, K \ {})
    <3>1. Tied(PairsOf(n, P), Hards(n, P, C), C2, v, K)
      BY <1>8, <2>1, <2>2, TiedSame
    <3>2. K \ {} = K
      OBVIOUS
    <3> QED
      BY <3>1, <3>2
  <2> QED
    BY <1>12, <2>2 DEF Follows
<1>14. Keeps(PairsOf(n, P), C, PairsOf(n, P), C2, PairsOf(n, P) \ {P[i]})
  <2>1. \A q \in PairsOf(n, P) : C[q].split => C2[q].tail = C[q].tail
    BY <1>4 DEF PairsOf, Fills
  <2> QED
    BY <1>8, <2>1, KeepsSame
<1>15. After(b, b1, [pair |-> P[i], cur |-> c, m |-> m], n, P, C, i, n, P, C2)
  BY <1>3, <1>5, <1>6, <1>7, <1>9, <1>12, <1>13, <1>14 DEF After
<1> QED
  BY <1>11, <1>12, <1>15 DEF b1

(* The pair is split: a new pair t is written, then the other half of P[i]. *)
Splits(b, b1, n, P, C, mv, i, c, m, t, x, high, d) ==
    /\ b \in Disks /\ Settled(b, P[i]) /\ Elsewhere(b, n, P, C, i)
    /\ c \in P[i] /\ m \in Contents /\ c # Fetch(b, P[i]).cur
    /\ m.rev = b[Fetch(b, P[i]).cur].rev + 1
    /\ t \in Pairs /\ t \subseteq Free /\ \A k \in 1 .. n : P[k] \cap t = {}
    /\ x \in t /\ high \in Contents /\ high.rev = 1
    /\ d \in Gs /\ m.tail = t /\ m.split
    /\ high.tail = C[P[i]].tail /\ high.split = C[P[i]].split
    /\ m.g = Xor(C[P[i]].g, d) /\ high.g = d /\ Shares(C[P[i]], m, high) /\ Below(m, high)
    /\ Still(mv, P[i]) /\ ~Blank(C[P[i]])
    /\ b1 \in Disks /\ b1[c] = m /\ b1[x] = high /\ \A e \in t : e # x => b1[e] = Empty
    /\ \A e \in Blocks : e # c /\ e \notin t => b1[e] = b[e]

(* A commit that splits its pair.                                             *)
LEMMA CommittedSplit ==
    ASSUME NEW n, NEW P, NEW C, NEW mv, NEW g, Plan(n, P, C, mv, g), NEW i \in 1 .. n,
           NEW b, NEW b1, NEW c, NEW m, NEW t, NEW x, NEW high, NEW d,
           Splits(b, b1, n, P, C, mv, i, c, m, t, x, high, d)
    PROVE  \E C2 : /\ Plan(n + 1, Ins(n, P, i, t), C2, mv, g)
                   /\ After(b, b1, [pair |-> P[i], cur |-> c, m |-> m],
                            n, P, C, i, n + 1, Ins(n, P, i, t), C2)
<1> USE DEF Splits
<1> DEFINE C2 == [p \in Pairs |-> IF p = P[i] THEN m ELSE IF p = t THEN high ELSE C[p]]
<1>1. /\ P \in [1 .. n -> Pairs] /\ n \in Nat \ {0}
      /\ \A j, k \in 1 .. n : j # k => P[j] \cap P[k] = {}
      /\ \A j, k \in 1 .. n : P[j] = P[k] => j = k
      /\ C[P[i]] \in Contents
  BY LineAlong DEF Plan
<1>2. \A k \in 1 .. n : P[k] # t /\ P[k] \subseteq Blocks /\ P[k] # {}
  BY <1>1 DEF Pairs
<1>3. /\ C2[P[i]] = m /\ C2[t] = high /\ \A k \in 1 .. n : k # i => C2[P[k]] = C[P[k]]
  BY <1>1, <1>2
<1> HIDE DEF C2
<1>4. Settled(b1, P[i]) /\ Fetch(b1, P[i]) = [pair |-> P[i], cur |-> c, m |-> m]
  <2>1. \A e \in P[i] : e # c => b1[e] = b[e]
    BY <1>2
  <2> QED
    BY <2>1, WriteHalf
<1>5. ASSUME NEW k \in 1 .. n, k # i PROVE Settled(b1, P[k]) /\ Fetch(b1, P[k]) = Fetch(b, P[k])
  <2>1. \A e \in P[k] : b1[e] = b[e]
    BY <1>1, <1>2, <1>5
  <2>2. Settled(b, P[k])
    BY <1>5 DEF Elsewhere
  <2> QED
    BY <2>1, <2>2, FetchAgrees
<1>6. Settled(b1, t) /\ Fetch(b1, t).m = high
  <2>1. \A e \in t : e # x => b1[e].rev = 0
    BY DEF Empty
  <2> QED
    BY <2>1, WritePair
<1>7. /\ Plan(n + 1, Ins(n, P, i, t), C2, mv, g)
      /\ PairsOf(n + 1, Ins(n, P, i, t)) = PairsOf(n, P) \cup {t}
      /\ Hards(n + 1, Ins(n, P, i, t), C2) = Hards(n, P, C) \cup {t}
      /\ \A y : Unled(PairsOf(n, P), C, y) => Unled(PairsOf(n + 1, Ins(n, P, i, t)), C2, y)
  <2>1. /\ C2[P[i]] \in Contents /\ C2[t] \in Contents /\ C2[P[i]].tail = t /\ C2[P[i]].split
        /\ C2[t].tail = C[P[i]].tail /\ C2[t].split = C[P[i]].split
        /\ C2[P[i]].g = Xor(C[P[i]].g, d) /\ C2[t].g = d
        /\ Shares(C[P[i]], C2[P[i]], C2[t])
    BY <1>3
  <2> QED
    BY <1>3, <2>1, PlanSplit
<1>8. \A k \in 1 .. n : Settled(b1, P[k]) /\ Fetch(b1, P[k]).m = C2[P[k]]
  BY <1>3, <1>4, <1>5 DEF Elsewhere
<1>9. Reads(b1, n + 1, Ins(n, P, i, t), C2)
  <2> SUFFICES ASSUME NEW k \in 1 .. n + 1
               PROVE  /\ Settled(b1, Ins(n, P, i, t)[k])
                      /\ Fetch(b1, Ins(n, P, i, t)[k]).m = C2[Ins(n, P, i, t)[k]]
    BY DEF Reads
  <2>1. Ins(n, P, i, t)[k] = IF k <= i THEN P[k] ELSE IF k = i + 1 THEN t ELSE P[k - 1]
    BY DEF Ins
  <2>2. CASE k <= i
    BY <1>1, <1>8, <2>1, <2>2
  <2>3. CASE k = i + 1
    BY <1>1, <1>3, <1>6, <2>1, <2>3
  <2>4. CASE ~(k <= i) /\ k # i + 1
    <3>1. k - 1 \in 1 .. n /\ Ins(n, P, i, t)[k] = P[k - 1]
      BY <1>1, <2>1, <2>4
    <3> QED
      BY <1>8, <3>1
  <2> QED
    BY <2>2, <2>3, <2>4
<1>10. t \notin PairsOf(n, P)
  BY <1>2 DEF PairsOf
<1>11. Follows(PairsOf(n, P), Hards(n, P, C), C, PairsOf(n + 1, Ins(n, P, i, t)),
               Hards(n + 1, Ins(n, P, i, t), C2), C2, PairsOf(n, P), {})
  <2> DEFINE S == PairsOf(n, P)
             Z == Hards(n, P, C)
  <2>1. P[i] \in S /\ t \notin S /\ AllBut(S, P[i], C, C2)
    BY <1>3, <1>10 DEF PairsOf, AllBut
  <2>2. /\ Shares(C[P[i]], C2[P[i]], C2[t]) /\ ~Blank(C[P[i]]) /\ C2[P[i]].split /\ C2[P[i]].tail = t
        /\ C2[t].split = C[P[i]].split /\ C2[t].tail = C[P[i]].tail
    BY <1>3
  <2> HIDE DEF S, Z
  <2>3. ASSUME NEW v, NEW K, \A w \in v : w.pair \in S, Tied(S, Z, C, v, K)
        PROVE  Tied(S \cup {t}, Z \cup {t}, C2, v, K \ {})
    <3>1. Tied(S \cup {t}, Z \cup {t}, C2, v, K)
      BY <2>1, <2>2, <2>3, TiedSplit
    <3>2. K \ {} = K
      OBVIOUS
    <3> QED
      BY <3>1, <3>2
  <2>4. Follows(S, Z, C, S \cup {t}, Z \cup {t}, C2, S, {})
    BY <2>3 DEF Follows
  <2> QED
    BY <1>7, <2>4 DEF S, Z
<1>12. i \in 1 .. n + 1 /\ \A l \in 1 .. i : Ins(n, P, i, t)[l] = P[l]
  BY <1>1 DEF Ins
<1>13. /\ PairsOf(n, P) \subseteq PairsOf(n + 1, Ins(n, P, i, t))
       /\ \A p \in PairsOf(n, P) : p \in Hards(n + 1, Ins(n, P, i, t), C2) <=> p \in Hards(n, P, C)
  BY <1>7, <1>10
<1>14. Keeps(PairsOf(n, P), C, PairsOf(n + 1, Ins(n, P, i, t)), C2, PairsOf(n, P) \ {P[i]})
  <2> DEFINE S == PairsOf(n, P)
  <2>1. P[i] \in S /\ t \notin S /\ AllBut(S, P[i], C, C2)
    BY <1>3, <1>10 DEF PairsOf, AllBut
  <2>2. /\ Shares(C[P[i]], C2[P[i]], C2[t]) /\ C2[P[i]].split /\ C2[P[i]].tail = t /\ Below(C2[P[i]], C2[t])
        /\ C2[t].split = C[P[i]].split /\ C2[t].tail = C[P[i]].tail
    BY <1>3
  <2>3. Tails(S, C)
    BY TailsIs DEF Plan
  <2> HIDE DEF S
  <2>4. Keeps(S, C, S \cup {t}, C2, S \ {P[i]})
    BY <2>1, <2>2, <2>3, KeepsSplit
  <2> QED
    BY <1>7, <2>4 DEF S
<1>15. \A q \in PairsOf(n + 1, Ins(n, P, i, t)) : q \in PairsOf(n, P) \/ q \subseteq Free
  BY <1>7
<1>16. After(b, b1, [pair |-> P[i], cur |-> c, m |-> m], n, P, C, i, n + 1, Ins(n, P, i, t), C2)
  BY <1>4, <1>5, <1>7, <1>9, <1>11, <1>12, <1>13, <1>14, <1>15 DEF After
<1> QED
  BY <1>7, <1>16

(* What lfs_dir_relocatingcommit leaves when it does not relocate. *)
LEMMA Committed ==
    ASSUME NEW n, NEW P, NEW C, NEW mv, NEW g, Plan(n, P, C, mv, g), NEW i \in 1 .. n,
           blk \in Disks, Settled(blk, P[i]), Elsewhere(blk, n, P, C, i),
           NEW gs, NEW gd, Delta(gs, gd) \in Gs, NEW c,
           Fills(C[P[i]], c, Xor(Fetch(blk, P[i]).m.g, Delta(gs, gd))),
           \A k \in 1 .. n : P[k] \cap Free = {}, Still(mv, P[i]),
           NEW w, NEW r \in Commits(Fetch(blk, P[i]), c, gs, gd, w), ~r.moved
    PROVE  /\ r.gdisk = gs
           /\ \E n2, P2, C2 : /\ Plan(n2, P2, C2, mv, g)
                              /\ After(blk, r.blk, r.h, n, P, C, i, n2, P2, C2)
<1> DEFINE h == Fetch(blk, P[i])
           d == Delta(gs, gd)
<1>1. C[P[i]] \in Contents /\ n \in Nat \ {0} /\ P[i] \in Pairs
  <2>1. \A k \in 1 .. n : C[P[k]] \in Contents
    BY LineAlong DEF Plan
  <2>2. n \in Nat \ {0} /\ P \in [1 .. n -> Pairs]
    BY LineAlong DEF Plan
  <2> QED
    BY <2>1, <2>2
<1>2. /\ h.pair = P[i] /\ h.cur \in P[i] /\ h.cur \in Blocks /\ h.m = blk[h.cur]
      /\ h.m \in Contents /\ h = [pair |-> P[i], cur |-> h.cur, m |-> blk[h.cur]]
  BY FetchSettled
<1>3. /\ c.ents \in [Names -> Ents] /\ c.tail \in SUBSET Blocks /\ c.split \in BOOLEAN
      /\ C[P[i]].ents = c.ents /\ C[P[i]].tail = c.tail /\ C[P[i]].split = c.split
      /\ C[P[i]].g = Xor(h.m.g, d) /\ h.m.rev \in Nat /\ h.m.g \in Gs
  BY <1>1, <1>2 DEF Contents, Fills
<1>4. Xor(h.m.g, d) \in Gs
  BY <1>3, XorTyped
<1>5. /\ Other(h) \in P[i] /\ Other(h) # h.cur
  <2>1. \E e \in P[i] : e # h.cur
    BY <1>1 DEF Pairs
  <2> QED
    BY <1>2, <2>1 DEF Other
<1> HIDE DEF h, d
<1>6. CASE r = Appended(h, c, gs, gd)
  <2> DEFINE m == With(h, c, d)
  <2>1. /\ r.blk = [blk EXCEPT ![h.cur] = m] /\ r.h = [h EXCEPT !.m = m] /\ r.gdisk = gs
    BY <1>6 DEF Appended, d
  <2>2. /\ m \in Contents /\ Fills(m, C[P[i]], C[P[i]].g) /\ m.rev = blk[h.cur].rev
    BY <1>2, <1>3, <1>4 DEF With, Contents, Fills
  <2>3. r.h = [pair |-> P[i], cur |-> h.cur, m |-> m]
    BY <1>2, <2>1
  <2> HIDE DEF m
  <2>4. \E C2 : /\ Plan(n, P, C2, mv, g)
                /\ After(blk, [blk EXCEPT ![h.cur] = m], [pair |-> P[i], cur |-> h.cur, m |-> m],
                         n, P, C, i, n, P, C2)
    BY <1>2, <2>2, CommittedHalf DEF h
  <2> QED
    BY <2>1, <2>3, <2>4
<1>7. CASE r = Compacted(h, c, gs, gd)
  <2> DEFINE m == Newer(With(h, c, d))
             o == Other(h)
  <2>1. /\ r.blk = [blk EXCEPT ![o] = m] /\ r.h = [h EXCEPT !.cur = o, !.m = m] /\ r.gdisk = gs
    BY <1>7 DEF Compacted, d
  <2>2. /\ m \in Contents /\ Fills(m, C[P[i]], C[P[i]].g) /\ m.rev = blk[h.cur].rev + 1
    BY <1>2, <1>3, <1>4 DEF With, Newer, Contents, Fills
  <2>3. r.h = [pair |-> P[i], cur |-> o, m |-> m]
    BY <1>2, <2>1
  <2> HIDE DEF m, o
  <2>4. o \in P[i] /\ o # Fetch(blk, P[i]).cur
    BY <1>5 DEF h, o
  <2>5. \E C2 : /\ Plan(n, P, C2, mv, g)
                /\ After(blk, [blk EXCEPT ![o] = m], [pair |-> P[i], cur |-> o, m |-> m],
                         n, P, C, i, n, P, C2)
    BY <1>2, <2>2, <2>4, CommittedHalf DEF h
  <2> QED
    BY <2>1, <2>3, <2>5
<1>8. ASSUME NEW cut \in Cuts(c.ents), Cardinality(Free) > 1,
             r = SplitOff(h, c, gs, gd, cut, Lowest(Free, 2))
      PROVE  /\ r.gdisk = gs
             /\ \E n2, P2, C2 : /\ Plan(n2, P2, C2, mv, g)
                                /\ After(blk, r.blk, r.h, n, P, C, i, n2, P2, C2)
  <2> DEFINE t    == Lowest(Free, 2)
             low  == {a \in Names : a < cut}
             high == [rev |-> 1, ents |-> Few(c.ents, Names \ low), tail |-> c.tail,
                      split |-> c.split, g |-> d]
             x    == CHOOSE e \in t : TRUE
             y    == CHOOSE e \in t : e # x
             m    == Newer(With(h, [ents |-> Few(c.ents, low), tail |-> t, split |-> TRUE], NoG))
             o    == Other(h)
             b1   == [[[blk EXCEPT ![x] = high] EXCEPT ![y] = Empty] EXCEPT ![o] = m]
  <2>1. r.blk = b1 /\ r.h = [h EXCEPT !.cur = o, !.m = m] /\ r.gdisk = gs
    BY <1>8 DEF SplitOff, d
  <2>2. t \in Pairs /\ t \subseteq Free
    BY <1>8, LowestTwo DEF Free
  <2> HIDE DEF t
  <2>3. x \in t /\ y \in t /\ x # y /\ t = {x, y} /\ t \subseteq Blocks
    BY <2>2 DEF Pairs
  <2>4. \A k \in 1 .. n : P[k] \cap t = {}
    BY <2>2
  <2>5. NoEnt \in Ents /\ NoG \in Gs /\ Xor(h.m.g, NoG) = h.m.g
    <3>1. NoEnt \in Ents
      BY DEF NoEnt, Ents, Kinds, NoPair
    <3> QED
      BY <1>3, <3>1, XorWith
  <2>6. m \in Contents /\ m.rev = blk[h.cur].rev + 1 /\ m.tail = t /\ m.split /\ m.g = h.m.g
    BY <1>2, <1>3, <2>3, <2>5 DEF With, Newer, Few, Contents
  <2>7. high \in Contents /\ high.rev = 1 /\ high.tail = c.tail /\ high.split = c.split /\ high.g = d
    BY <1>3, <2>5 DEF Few, Contents, d
  <2>8. Shares(C[P[i]], m, high) /\ Below(m, high)
    <3>1. Shares(C[P[i]], m, high)
      BY <1>3 DEF Shares, With, Newer, Few
    <3>2. \A a \in Names : m.ents[a] # NoEnt => a < cut
      BY DEF With, Newer, Few
    <3>3. \A a \in Names : high.ents[a] # NoEnt => ~(a < cut)
      BY DEF Few
    <3>4. Names \subseteq Nat /\ cut \in Nat
      BY <1>8, ThreadAssumption DEF Cuts
    <3> HIDE DEF m, high
    <3> QED
      BY <3>1, <3>2, <3>3, <3>4 DEF Below
  <2>9. ~Blank(C[P[i]])
    BY <1>3, <1>8 DEF Cuts, Blank
  <2>10. m.g = Xor(C[P[i]].g, d)
    <3>1. d \in Gs
      BY DEF d
    <3> QED
      BY <1>3, <2>6, <3>1, XorMoves
  <2>11. r.h = [pair |-> P[i], cur |-> o, m |-> m]
    BY <1>2, <2>1
  <2>12. Empty \in Contents
    BY <2>5 DEF Empty, Contents, NoPair
  <2>13. o \in P[i] /\ o \in Blocks /\ o \notin t /\ o # Fetch(blk, P[i]).cur
    BY <1>1, <1>5, <2>4 DEF Pairs, h
  <2> HIDE DEF x, y, m, o, high, low
  <2>14. /\ b1 \in Disks /\ b1[o] = m /\ b1[x] = high /\ \A e \in t : e # x => b1[e] = Empty
         /\ \A e \in Blocks : e # o /\ e \notin t => b1[e] = blk[e]
    BY <2>3, <2>6, <2>7, <2>12, <2>13 DEF Disks
  <2> HIDE DEF b1
  <2>15. \E C2 : /\ Plan(n + 1, Ins(n, P, i, t), C2, mv, g)
                 /\ After(blk, b1, [pair |-> P[i], cur |-> o, m |-> m],
                          n, P, C, i, n + 1, Ins(n, P, i, t), C2)
    <3>1. high.tail = C[P[i]].tail /\ high.split = C[P[i]].split /\ d \in Gs
      BY <1>3, <2>7 DEF d
    <3>2. m.rev = blk[Fetch(blk, P[i]).cur].rev + 1
      BY <2>6 DEF h
    <3>3. Splits(blk, b1, n, P, C, mv, i, o, m, t, x, high, d)
      BY <2>2, <2>3, <2>4, <2>6, <2>7, <2>8, <2>9, <2>10, <2>13, <2>14, <3>1, <3>2, Zenon DEF Splits
    <3> QED
      BY <3>3, CommittedSplit, Zenon
  <2> QED
    BY <2>1, <2>11, <2>15
<1>9. \/ r = Appended(h, c, gs, gd)
      \/ r = Compacted(h, c, gs, gd)
      \/ \E cut \in Cuts(c.ents) :
            Cardinality(Free) > 1 /\ r = SplitOff(h, c, gs, gd, cut, Lowest(Free, 2))
  <2>1. \A e : Relocated(h, c, gd, e, w).moved
    BY DEF Relocated
  <2> QED
    BY <2>1 DEF Commits, h
<1> QED
  BY <1>6, <1>7, <1>8, <1>9

(* To forget what no pair leads to changes no pair of the thread. *)
LEMMA Tidied ==
    ASSUME NEW b \in Disks, NEW n, NEW P, NEW C, Reads(b, n, P, C), Line(n, P, Along(n, P, C)), NEW x
    PROVE  /\ Tidy(b, x) \in Disks /\ Reads(Tidy(b, x), n, P, C)
           /\ \A k \in 1 .. n : Fetch(Tidy(b, x), P[k]) = Fetch(b, P[k])
<1>1. Threaded(b, n, P) /\ \A k \in 1 .. n : P[k] \in Pairs
  <2>1. n \in Nat \ {0} /\ P \in [1 .. n -> Pairs]
    BY LineAlong
  <2> QED
    BY <2>1, ReadsThread
<1>2. Tidy(b, x) \in Disks
  <2>1. Empty \in Contents
    BY XorWith DEF Empty, Contents, NoEnt, NoPair, Ents, Kinds, NoG, Gs
  <2> QED
    BY <2>1 DEF Tidy, Disks
<1>3. ASSUME NEW k \in 1 .. n
      PROVE  Settled(Tidy(b, x), P[k]) /\ Fetch(Tidy(b, x), P[k]) = Fetch(b, P[k])
  <2>1. P[k] \subseteq InUse(b, {})
    BY <1>1, ThreadInUse
  <2>2. \A e \in P[k] : Tidy(b, x)[e] = b[e]
    BY <1>1, <2>1 DEF Tidy, LedTo, Pairs
  <2>3. Settled(b, P[k])
    BY DEF Reads
  <2> QED
    BY <1>2, <2>2, <2>3, FetchAgrees
<1> QED
  BY <1>2, <1>3 DEF Reads

(* Forgetting what nothing leads to leaves the pairs of the thread as they    *)
(* are.                                                                       *)
LEMMA AfterTidy ==
    ASSUME NEW b, NEW b1, NEW h, NEW n, NEW P, NEW C, NEW i \in 1 .. n, NEW n2, NEW P2, NEW C2,
           NEW mv, NEW g, Plan(n2, P2, C2, mv, g), After(b, b1, h, n, P, C, i, n2, P2, C2), NEW x
    PROVE  After(b, Tidy(b1, x), h, n, P, C, i, n2, P2, C2)
<1>1. /\ Tidy(b1, x) \in Disks /\ Reads(Tidy(b1, x), n2, P2, C2)
      /\ \A k \in 1 .. n2 : Fetch(Tidy(b1, x), P2[k]) = Fetch(b1, P2[k])
  BY Tidied DEF After, Plan
<1>2. \A k \in 1 .. n : \E l \in 1 .. n2 : P[k] = P2[l]
  BY DEF After, PairsOf
<1>3. \A k \in 1 .. n : Fetch(Tidy(b1, x), P[k]) = Fetch(b1, P[k])
  BY <1>1, <1>2
<1> QED
  BY <1>1, <1>3 DEF After

(* A commit through handle to that does not relocate, and the call goes on. *)
Goes(to, c, gs, gd, o, d) ==
    \E r \in Commits(to, c, gs, gd, "call") :
        /\ ~r.moved /\ Put(r, gs) /\ op' = Hooked(o, to.pair, r.h)
        /\ deo' = IF d.on THEN [d EXCEPT !.pdir = r.h] ELSE NoDeo

Deo(pass, pdir) == [on |-> TRUE, pass |-> pass, pdir |-> pdir, more |-> FALSE, powerloss |-> TRUE]

(* Fields of lfs_fs_deorphan's state.                                         *)
LEMMA DeoIs ==
    ASSUME NEW pass, NEW p, NEW q
    PROVE  /\ [Deo(pass, p) EXCEPT !.pdir = q] = Deo(pass, q)
           /\ [Deo(pass, p) EXCEPT !.more = FALSE] = Deo(pass, p)
<1>1. \A a, b : [[on |-> a, pass |-> pass, pdir |-> p, more |-> b, powerloss |-> a] EXCEPT !.pdir = q]
                  = [on |-> a, pass |-> pass, pdir |-> q, more |-> b, powerloss |-> a]
  OBVIOUS
<1>2. \A a, b : [[on |-> a, pass |-> pass, pdir |-> p, more |-> b, powerloss |-> a] EXCEPT !.more = b]
                  = [on |-> a, pass |-> pass, pdir |-> p, more |-> b, powerloss |-> a]
  OBVIOUS
<1> QED
  BY <1>1, <1>2, Zenon DEF Deo

(* A commit that does not relocate writes the pair of its handle, or that of  *)
(* the predecessor when the pair is dropped.                                  *)
LEMMA StartGoes ==
    ASSUME NEW h, NEW c, NEW deletes, NEW gs, NEW gd, NEW o, NEW d,
           d = NoDeo \/ \E pass, pdir : d = Deo(pass, pdir),
           Start(h, c, deletes, gs, gd, o, d), com' = NoCom
    PROVE  /\ ~Drops(h, c, deletes) => Goes(h, c, gs, gd, o, d)
           /\ Drops(h, c, deletes) =>
                Goes(The(Preds(blk, h.pair)),
                     [ents |-> The(Preds(blk, h.pair)).m.ents, tail |-> c.tail, split |-> c.split],
                     gs, Xor(gd, blk[h.cur].g), o, d)
<1> DEFINE drops == Drops(h, c, deletes)
           to    == IF drops THEN The(Preds(blk, h.pair)) ELSE h
           cc    == IF drops THEN [ents |-> to.m.ents, tail |-> c.tail, split |-> c.split]
                    ELSE c
           gdd   == IF drops THEN Xor(gd, blk[h.cur].g) ELSE gd
           dd(r) == IF d.on THEN [d EXCEPT !.pdir = r.h] ELSE d
<1>1. PICK r \in Commits(to, cc, gs, gdd, "call") :
         /\ Put(r, gs)
         /\ op' = Hooked(o, to.pair, r.h)
         /\ IF r.moved
            THEN /\ com' = [at |-> "parent", lpair |-> to.pair, ldir |-> r.h,
                            orphans |-> FALSE]
                 /\ deo' = dd(r)
            ELSE Return(FALSE, gs, dd(r))
  BY DEF Start
<1>2. ~r.moved
  <2>1. [at |-> "parent", lpair |-> to.pair, ldir |-> r.h, orphans |-> FALSE].at = "parent"
    OBVIOUS
  <2>2. NoCom.at = "none"
    BY DEF NoCom
  <2> HIDE DEF to
  <2> QED
    BY <1>1, <2>1, <2>2
<1>3. Return(FALSE, gs, dd(r))
  BY <1>1, <1>2
<1>4. deo' = IF d.on THEN [d EXCEPT !.pdir = r.h] ELSE NoDeo
  <2>1. deo' = IF dd(r).on THEN [dd(r) EXCEPT !.more = @ \/ FALSE] ELSE NoDeo
    BY <1>3 DEF Return
  <2>2. CASE d = NoDeo
    BY <2>1, <2>2 DEF NoDeo
  <2>3. ASSUME NEW pass, NEW pdir, d = Deo(pass, pdir)
        PROVE  deo' = IF d.on THEN [d EXCEPT !.pdir = r.h] ELSE NoDeo
    <3>1. d.on
      BY <2>3 DEF Deo
    <3>2. [d EXCEPT !.pdir = r.h] = Deo(pass, r.h)
      BY <2>3, DeoIs
    <3>3. dd(r) = Deo(pass, r.h)
      BY <3>1, <3>2
    <3>4. Deo(pass, r.h).on = TRUE /\ Deo(pass, r.h).more = FALSE
      BY DEF Deo
    <3>5. (FALSE \/ FALSE) = FALSE
      OBVIOUS
    <3>6. deo' = [Deo(pass, r.h) EXCEPT !.more = FALSE]
      <4> HIDE DEF dd
      <4> QED
        BY <2>1, <3>3, <3>4, <3>5
    <3>7. [Deo(pass, r.h) EXCEPT !.more = FALSE] = Deo(pass, r.h)
      BY DeoIs
    <3> QED
      BY <3>1, <3>2, <3>6, <3>7
  <2> QED
    BY <2>2, <2>3
<1>5. Goes(to, cc, gs, gdd, o, d)
  BY <1>1, <1>2, <1>4 DEF Goes
<1> QED
  BY <1>5

(* Two disks that hold the same of a thread look the same to a mount.          *)
LEMMA MountedSame ==
    ASSUME NEW b \in Disks, NEW b1 \in Disks, NEW n, NEW P, NEW C, NEW mv \in SUBSET Moves, NEW g,
           Plan(n, P, C, mv, g), g.moves = mv, Reads(b, n, P, C), Reads(b1, n, P, C)
    PROVE  Mounted(b) = Mounted(b1) /\ Nodes(b, mv) = Nodes(b1, mv)
<1>1. Stands(b, n, P, C) /\ Stands(b1, n, P, C) /\ Moving(n, P, mv)
  BY DEF Stands, Plan, Fits, Moving
<1>2. SameLists(PairsOf(n, P), C, mv, PairsOf(n, P), C, mv)
  BY DEF SameLists
<1>3. Nodes(b, mv) = Nodes(b1, mv)
  BY <1>1, <1>2, NodesAgree
<1>4. Threaded(b, n, P) /\ Ms(b, n, P) = Along(n, P, C) /\ Threaded(b1, n, P) /\ Ms(b1, n, P) = Along(n, P, C)
  BY ReadsThread DEF Plan
<1>5. GState(b) = g /\ GState(b1) = g
  BY <1>4, GStateIs DEF Plan
<1> QED
  BY <1>3, <1>5 DEF Mounted, Tree

(* The global state is written, the tree that a mount finds is noted.         *)
Moved(gs) == gstate' = gs /\ gdisk' = gs /\ gdelta' = NoG /\ tree' = Mounted(blk')

(* A commit of what is planned for a pair: the plan is what is on the disk    *)
(* then.                                                                      *)
LEMMA GoesOn ==
    ASSUME NEW gs \in Rams, NEW gd, Delta(gs, gd) \in Gs,
           NEW n, NEW P, NEW C, Plan(n, P, C, gs.moves, OnDisk(gs)), NEW i \in 1 .. n,
           blk \in Disks, Settled(blk, P[i]), Elsewhere(blk, n, P, C, i), NEW c,
           Fills(C[P[i]], c, Xor(Fetch(blk, P[i]).m.g, Delta(gs, gd))),
           \A k \in 1 .. n : P[k] \cap Free = {}, Still(gs.moves, P[i]),
           NEW o, o.hook.pair \cap P[i] = {}, NEW d, Goes(Fetch(blk, P[i]), c, gs, gd, o, d)
    PROVE  /\ Moved(gs) /\ op' = o
           /\ deo' = IF d.on THEN [d EXCEPT !.pdir = Fetch(blk', P[i])] ELSE NoDeo
           /\ \E n2, P2, C2 : /\ Plan(n2, P2, C2, gs.moves, OnDisk(gs))
                              /\ After(blk, blk', Fetch(blk', P[i]), n, P, C, i, n2, P2, C2)
<1> DEFINE h == Fetch(blk, P[i])
<1>1. PICK r \in Commits(h, c, gs, gd, "call") :
        /\ ~r.moved /\ Put(r, gs) /\ op' = Hooked(o, h.pair, r.h)
        /\ deo' = IF d.on THEN [d EXCEPT !.pdir = r.h] ELSE NoDeo
  BY DEF Goes
<1>2. /\ r.gdisk = gs
      /\ \E n2, P2, C2 : /\ Plan(n2, P2, C2, gs.moves, OnDisk(gs))
                         /\ After(blk, r.blk, r.h, n, P, C, i, n2, P2, C2)
  BY <1>1, Committed
<1>3. PICK n2, P2, C2 : /\ Plan(n2, P2, C2, gs.moves, OnDisk(gs))
                        /\ After(blk, r.blk, r.h, n, P, C, i, n2, P2, C2)
  BY <1>2
<1>4. /\ blk' = Tidy(r.blk, r.taken) /\ tree' = Mounted(r.blk)
      /\ gstate' = gs /\ gdisk' = gs /\ gdelta' = NoG
  BY <1>1, <1>2 DEF Put
<1>5. After(blk, blk', r.h, n, P, C, i, n2, P2, C2)
  BY <1>3, <1>4, AfterTidy
<1>6. r.h = Fetch(blk', P[i])
  BY <1>5 DEF After
<1>7. op' = o
  <2>1. h.pair = P[i]
    BY FetchSettled
  <2> QED
    BY <1>1, <2>1 DEF Hooked, Overlap
<1>8. Mounted(r.blk) = Mounted(blk')
  <2>1. OnDisk(gs).moves = gs.moves /\ gs.moves \in SUBSET Moves
    BY DEF OnDisk, Rams
  <2>2. r.blk \in Disks /\ blk' \in Disks /\ Reads(r.blk, n2, P2, C2) /\ Reads(blk', n2, P2, C2)
    BY <1>3, <1>5 DEF After
  <2> QED
    BY <1>3, <2>1, <2>2, MountedSame
<1>9. Moved(gs)
  BY <1>4, <1>8 DEF Moved
<1> QED
  BY <1>1, <1>3, <1>5, <1>6, <1>7, <1>9

(* The allocator does not hand out a block of the thread.                     *)
LEMMA FreeAvoids ==
    ASSUME blk \in Disks, NEW n, NEW P, NEW C, Reads(blk, n, P, C), Line(n, P, Along(n, P, C))
    PROVE  \A k \in 1 .. n : P[k] \cap Free = {}
<1> SUFFICES ASSUME NEW k \in 1 .. n PROVE P[k] \cap Free = {}
  OBVIOUS
<1>1. Threaded(blk, n, P)
  BY ReadsThread
<1>2. P[k] \subseteq InUse(blk, gdisk.moves)
  BY <1>1, ThreadInUse
<1> QED
  BY <1>2 DEF Free

(* The delta to the global state on the disk is what the state on the disk    *)
(* differs by from the one the driver has.                                    *)
LEMMA DeltaIs ==
    ASSUME NEW gs \in Rams, gdisk \in Rams, NEW gd \in Gs
    PROVE  /\ Delta(gs, gd) \in Gs /\ Delta(gs, NoG) \in Gs
           /\ Xor(OnDisk(gdisk), Delta(gs, NoG)) = OnDisk(gs)
           /\ Delta(gs, gd) = Xor(Delta(gs, NoG), gd)
<1> DEFINE x == OnDisk(gs)
           y == OnDisk(gdisk)
<1>1. x \in Gs /\ y \in Gs
  BY OnDiskTyped
<1>2. Delta(gs, gd) = Xor(Xor(x, y), gd) /\ Delta(gs, NoG) = Xor(Xor(x, y), NoG)
  BY DEF Delta
<1> HIDE DEF x, y
<1>3. Xor(x, y) \in Gs /\ Xor(x, y) = Xor(y, x)
  BY <1>1, XorTyped, XorSwaps
<1>4. Delta(gs, NoG) = Xor(x, y)
  BY <1>2, <1>3, XorWith
<1>5. Xor(y, Xor(y, x)) = x
  BY <1>1, XorMoves
<1>6. Xor(Xor(x, y), gd) \in Gs
  BY <1>3, XorTyped
<1> QED
  BY <1>2, <1>3, <1>4, <1>5, <1>6 DEF x, y

(* The pairs that a commit to P[i] does not touch, even when it empties it. *)
Untouched(n, P, C1, i) == {q \in PairsOf(n, P) : q # P[i] /\ ~Bare(C1[P[i]])}

(* What a commit to P[i] that is planned as C1 keeps of the other pairs: not   *)
(* of the one before it when it is dropped.                                   *)
Kept(b, b1, n, P, C, C1, i, n2, P2, C2) ==
    /\ b1 \in Disks /\ Reads(b1, n2, P2, C2)
    /\ \A k \in 1 .. n : k # i =>
          P[k] \in PairsOf(n2, P2) /\ (P[k] \in Hards(n2, P2, C2) <=> P[k] \in Hards(n, P, C))
    /\ PairsOf(n, P) \ Hards(n, P, C) \subseteq PairsOf(n2, P2)
    /\ \A k \in 1 .. n : k # i /\ (~C[P[k]].split \/ ~Bare(C1[P[i]])) => Fetch(b1, P[k]) = Fetch(b, P[k])
    /\ \A y : Unled(PairsOf(n, P), C1, y) => Unled(PairsOf(n2, P2), C2, y)
    /\ Follows(PairsOf(n, P), Hards(n, P, C), C1, PairsOf(n2, P2), Hards(n2, P2, C2), C2,
               PairsOf(n, P) \ {P[i]}, {})
    /\ Keeps(PairsOf(n, P), C1, PairsOf(n2, P2), C2, Untouched(n, P, C1, i))

(* The call's handle that is to be used after the commit.                     *)
Aside(o, n, P, C, i) ==
    o.hook.pair = {} \/ \E k \in 1 .. n : k # i /\ ~C[P[k]].split /\ o.hook.pair = P[k]

(* A commit that changes entries of P[i], and leaves it on the thread.         *)
LEMMA StartStays ==
    ASSUME NEW gs \in Rams, gdisk \in Rams, blk \in Disks, NEW mv,
           NEW n, NEW P, NEW C, Plan(n, P, C, mv, OnDisk(gdisk)), Reads(blk, n, P, C),
           NEW i \in 1 .. n, NEW C1, \A k \in 1 .. n : k # i => C1[P[k]] = C[P[k]],
           C1[P[i]] \in Contents, NEW c, Fills(C1[P[i]], c, C[P[i]].g),
           c.tail = C[P[i]].tail, c.split = C[P[i]].split,
           Fits(PairsOf(n, P), Hards(n, P, C), C1, gs.moves), Still(gs.moves, P[i]),
           NEW o, Aside(o, n, P, C, i), Goes(Fetch(blk, P[i]), c, gs, NoG, o, NoDeo)
    PROVE  /\ Moved(gs) /\ op' = o /\ deo' = NoDeo
           /\ \E n2, P2, C2 : /\ Plan(n2, P2, C2, gs.moves, OnDisk(gs))
                              /\ Kept(blk, blk', n, P, C, C1, i, n2, P2, C2)
<1> DEFINE d  == Delta(gs, NoG)
           C3 == [p \in Pairs |-> IF p = P[i] THEN [C1[p] EXCEPT !.g = Xor(C[p].g, d)] ELSE C1[p]]
<1>1. /\ P \in [1 .. n -> Pairs] /\ n \in Nat \ {0}
      /\ \A j, k \in 1 .. n : j # k => P[j] \cap P[k] = {}
      /\ \A j, k \in 1 .. n : P[j] = P[k] => j = k
      /\ C[P[i]] \in Contents
  BY LineAlong DEF Plan
<1>2. d \in Gs /\ Xor(OnDisk(gdisk), d) = OnDisk(gs)
  BY DeltaIs, XorWith DEF Plan
<1>3. C[P[i]].g \in Gs /\ Xor(C[P[i]].g, d) \in Gs
  <2>1. C[P[i]].g \in Gs
    BY <1>1 DEF Contents
  <2> QED
    BY <1>2, <2>1, XorTyped
<1> HIDE DEF d
<1>4. /\ C3[P[i]] \in Contents /\ Fills(C3[P[i]], c, Xor(C[P[i]].g, d))
      /\ \A k \in 1 .. n : k # i => C3[P[k]] = C[P[k]]
      /\ \A q \in PairsOf(n, P) : C3[q].ents = C1[q].ents /\ C3[q].split = C1[q].split
      /\ \A q \in PairsOf(n, P) : C3[q].tail = C1[q].tail
  <2>1. C3[P[i]] = [C1[P[i]] EXCEPT !.g = Xor(C[P[i]].g, d)]
    BY <1>1
  <2>2. \A k \in 1 .. n : k # i => C3[P[k]] = C1[P[k]]
    BY <1>1
  <2> HIDE DEF C3
  <2>3. C3[P[i]] \in Contents /\ Fills(C3[P[i]], c, Xor(C[P[i]].g, d))
    BY <1>3, <2>1 DEF Contents, Fills
  <2>4. /\ C3[P[i]].ents = C1[P[i]].ents /\ C3[P[i]].split = C1[P[i]].split
        /\ C3[P[i]].tail = C1[P[i]].tail
    BY <2>1 DEF Contents
  <2> QED
    BY <2>2, <2>3, <2>4 DEF PairsOf
<1> HIDE DEF C3
<1>5. /\ \A v : Fits(PairsOf(n, P), Hards(n, P, C), C1, v) => Fits(PairsOf(n, P), Hards(n, P, C), C3, v)
      /\ \A y : Unled(PairsOf(n, P), C1, y) => Unled(PairsOf(n, P), C3, y)
  BY <1>4, FitsSame
<1>6. Plan(n, P, C3, gs.moves, OnDisk(gs)) /\ Hards(n, P, C3) = Hards(n, P, C)
  <2>1. Fits(PairsOf(n, P), Hards(n, P, C), C3, gs.moves)
    BY <1>5
  <2>2. Plan(n, P, C3, gs.moves, Xor(OnDisk(gdisk), d)) /\ Hards(n, P, C3) = Hards(n, P, C)
    BY <1>2, <1>4, <2>1, PlanKeep DEF Fills
  <2> QED
    BY <1>2, <2>2
<1>7. /\ Settled(blk, P[i]) /\ Fetch(blk, P[i]).m = C[P[i]] /\ Elsewhere(blk, n, P, C3, i)
      /\ \A k \in 1 .. n : P[k] \cap Free = {}
  BY <1>4, FreeAvoids DEF Reads, Elsewhere, Plan
<1>8. o.hook.pair \cap P[i] = {}
  BY <1>1 DEF Aside
<1>9. Fills(C3[P[i]], c, Xor(Fetch(blk, P[i]).m.g, Delta(gs, NoG))) /\ Delta(gs, NoG) \in Gs
  BY <1>2, <1>4, <1>7 DEF d
<1>10. /\ Moved(gs) /\ op' = o
       /\ deo' = IF NoDeo.on THEN [NoDeo EXCEPT !.pdir = Fetch(blk', P[i])] ELSE NoDeo
       /\ \E n2, P2, C2 : /\ Plan(n2, P2, C2, gs.moves, OnDisk(gs))
                          /\ After(blk, blk', Fetch(blk', P[i]), n, P, C3, i, n2, P2, C2)
  BY <1>6, <1>7, <1>8, <1>9, GoesOn
<1>11. PICK n2, P2, C2 : /\ Plan(n2, P2, C2, gs.moves, OnDisk(gs))
                         /\ After(blk, blk', Fetch(blk', P[i]), n, P, C3, i, n2, P2, C2)
  BY <1>10
<1>12. Kept(blk, blk', n, P, C, C1, i, n2, P2, C2)
  <2>1. \A k \in 1 .. n : P[k] \in PairsOf(n, P)
    BY DEF PairsOf
  <2>2. PairsOf(n, P) \subseteq PairsOf(n2, P2)
    BY <1>11 DEF After
  <2>3. \A x \in PairsOf(n, P) : x \in Hards(n2, P2, C2) <=> x \in Hards(n, P, C)
    BY <1>6, <1>11 DEF After
  <2>4. \A y : Unled(PairsOf(n, P), C1, y) => Unled(PairsOf(n2, P2), C2, y)
    BY <1>5, <1>11 DEF After
  <2>5. Follows(PairsOf(n, P), Hards(n, P, C), C1, PairsOf(n, P), Hards(n, P, C), C3, PairsOf(n, P) \ {P[i]}, {})
    <3>1. ASSUME NEW v, NEW K, Tied(PairsOf(n, P), Hards(n, P, C), C1, v, K)
          PROVE  Tied(PairsOf(n, P), Hards(n, P, C), C3, v, K \ {})
      <4>1. Tied(PairsOf(n, P), Hards(n, P, C), C3, v, K)
        BY <1>4, <3>1, TiedSame
      <4>2. K \ {} = K
        OBVIOUS
      <4> QED
        BY <4>1, <4>2
    <3> QED
      BY <3>1 DEF Follows
  <2>6. Follows(PairsOf(n, P), Hards(n, P, C), C3, PairsOf(n2, P2), Hards(n2, P2, C2), C2, PairsOf(n, P), {})
    BY <1>6, <1>11 DEF After
  <2>7. PairsOf(n, P) \ {P[i]} \subseteq PairsOf(n, P)
    OBVIOUS
  <2>8. Follows(PairsOf(n, P), Hards(n, P, C), C1, PairsOf(n2, P2), Hards(n2, P2, C2), C2,
                PairsOf(n, P) \ {P[i]}, {})
    BY <2>5, <2>6, <2>7, FollowsThen
  <2>9. Keeps(PairsOf(n, P), C1, PairsOf(n2, P2), C2, Untouched(n, P, C1, i))
    <3>1. Keeps(PairsOf(n, P), C1, PairsOf(n, P), C3, Untouched(n, P, C1, i))
      BY <1>4, KeepsSame
    <3>2. Keeps(PairsOf(n, P), C3, PairsOf(n2, P2), C2, PairsOf(n, P) \ {P[i]})
      BY <1>11 DEF After
    <3>3. Untouched(n, P, C1, i) \subseteq PairsOf(n, P) \ {P[i]}
      BY DEF Untouched
    <3>4. PairsOf(n, P) \cap PairsOf(n2, P2) \subseteq PairsOf(n, P)
      OBVIOUS
    <3> QED
      BY <3>1, <3>2, <3>3, <3>4, KeepsThen
  <2> QED
    BY <1>11, <2>1, <2>2, <2>3, <2>4, <2>8, <2>9 DEF After, Kept
<1>13. deo' = NoDeo
  BY <1>10 DEF NoDeo
<1> QED
  BY <1>10, <1>11, <1>12, <1>13

(* A commit to P[i] that takes P[i + 1] off the thread, planned from C1.       *)
Lost(b, b1, n, P, C1, i, n2, P2, C2) ==
    /\ b1 \in Disks /\ Reads(b1, n2, P2, C2)
    /\ \A k \in 1 .. n : k # i + 1 =>
          P[k] \in PairsOf(n2, P2) /\ (P[k] \in Hards(n2, P2, C2) <=> P[k] \in Hards(n, P, C1))
    /\ \A k \in 1 .. n : k # i /\ k # i + 1 => Fetch(b1, P[k]) = Fetch(b, P[k])
    /\ \A y : Unled(PairsOf(n, P), C1, y) => Unled(PairsOf(n2, P2), C2, y)
    /\ Follows(PairsOf(n, P), Hards(n, P, C1), C1, PairsOf(n2, P2), Hards(n2, P2, C2), C2,
               PairsOf(n, P) \ {P[i + 1]}, {P[i + 1]})
    /\ Keeps(PairsOf(n, P), C1, PairsOf(n2, P2), C2, {})
    /\ i \in 1 .. n2 /\ \A l \in 1 .. i : P2[l] = P[l]

CutIs(n, P, C1, mv, i) ==
    /\ Bare(C1[P[i + 1]]) /\ Unled(PairsOf(n, P), C1, P[i + 1])
    /\ Still(mv, P[i + 1]) /\ Still(mv, P[i])
    /\ C1[P[i]].split \/ ~C1[P[i + 1]].split

Cuttable(gs, n, P, C1, i, c, o) ==
    /\ Plan(n, P, C1, gs.moves, OnDisk(gdisk)) /\ i \in 1 .. n - 1
    /\ CutIs(n, P, C1, gs.moves, i) /\ \A k \in 1 .. n : Settled(blk, P[k])
    /\ \A k \in 1 .. n : k # i + 1 => Fetch(blk, P[k]).m = C1[P[k]]
    /\ \A k \in 1 .. n : P[k] \cap Free = {}
    /\ c.ents = C1[P[i]].ents /\ c.tail = C1[P[i + 1]].tail /\ c.split = C1[P[i + 1]].split
    /\ o.hook.pair \cap P[i] = {}

WasCut(gs, n, P, C1, i, o, d) ==
    /\ Moved(gs) /\ op' = o
    /\ deo' = IF d.on THEN [d EXCEPT !.pdir = Fetch(blk', P[i])] ELSE NoDeo
    /\ \E n2, P2, C2 : /\ Plan(n2, P2, C2, gs.moves, OnDisk(gs))
                       /\ Lost(blk, blk', n, P, C1, i, n2, P2, C2)
                       /\ P[i] \in PairsOf(n2, P2)

(* A commit that drops the next pair from the thread, with its delta taken    *)
(* over.                                                                      *)
LEMMA GoesCut ==
    ASSUME NEW gs \in Rams, gdisk \in Rams, blk \in Disks,
           NEW n, NEW P, NEW C1, NEW i, NEW c, NEW o, Cuttable(gs, n, P, C1, i, c, o),
           NEW d, Goes(Fetch(blk, P[i]), c, gs, Xor(NoG, C1[P[i + 1]].g), o, d)
    PROVE  WasCut(gs, n, P, C1, i, o, d)
<1> USE DEF Cuttable
<1> DEFINE e  == Delta(gs, NoG)
           x  == P[i + 1]
           gd == Xor(NoG, C1[x].g)
           m  == [C1[P[i]] EXCEPT !.tail = C1[x].tail, !.split = C1[x].split,
                                  !.g = Xor(C1[P[i]].g, Delta(gs, gd))]
           C3 == [p \in Pairs |-> IF p = P[i] THEN m ELSE C1[p]]
           Q  == Cut(n, P, i)
<1>1. /\ P \in [1 .. n -> Pairs] /\ n \in Nat \ {0}
      /\ \A j, k \in 1 .. n : j # k => P[j] \cap P[k] = {}
      /\ \A j, k \in 1 .. n : P[j] = P[k] => j = k
      /\ \A k \in 1 .. n : C1[P[k]] \in Contents
  BY LineAlong DEF Plan
<1>2. i \in 1 .. n /\ i + 1 \in 1 .. n /\ i + 1 # i
  BY <1>1
<1>3. C1[P[i]] \in Contents /\ C1[x] \in Contents /\ C1[P[i]].g \in Gs /\ C1[x].g \in Gs
  BY <1>1, <1>2 DEF Contents
<1>4. /\ gd = C1[x].g /\ gd \in Gs /\ e \in Gs /\ Delta(gs, gd) \in Gs
      /\ Delta(gs, gd) = Xor(e, C1[x].g) /\ Xor(OnDisk(gdisk), e) = OnDisk(gs)
  <2>1. gd = C1[x].g
    BY <1>3, XorWith
  <2> HIDE DEF gd
  <2> QED
    BY <1>3, <2>1, DeltaIs
<1> HIDE DEF e, gd
<1>5. Xor(C1[P[i]].g, Delta(gs, gd)) \in Gs
  BY <1>3, <1>4, XorTyped
<1>6. /\ m \in Contents /\ m.tail = C1[x].tail /\ m.split = C1[x].split /\ m.ents = C1[P[i]].ents
      /\ m.g = Xor(C1[P[i]].g, Xor(e, C1[x].g))
  <2>1. m.g = Xor(C1[P[i]].g, Delta(gs, gd))
    BY <1>3 DEF Contents
  <2>2. m.g = Xor(C1[P[i]].g, Xor(e, C1[x].g))
    BY <1>4, <2>1, Zenon
  <2>3. m \in Contents
    BY <1>3, <1>5 DEF Contents
  <2> QED
    BY <1>3, <2>2, <2>3 DEF Contents
<1> HIDE DEF m
<1>7. C3[P[i]] = m /\ \A k \in 1 .. n : k # i => C3[P[k]] = C1[P[k]]
  BY <1>1, <1>2
<1> HIDE DEF C3, x, Q
<1>8. /\ Plan(n - 1, Q, C3, gs.moves, OnDisk(gs))
      /\ PairsOf(n - 1, Q) = PairsOf(n, P) \ {x}
      /\ Hards(n - 1, Q, C3) = Hards(n, P, C1) \ {x}
      /\ \A y : Unled(PairsOf(n, P), C1, y) => Unled(PairsOf(n - 1, Q), C3, y)
  <2>1. /\ C3[P[i]] \in Contents /\ C3[P[i]].tail = C1[P[i + 1]].tail
        /\ C3[P[i]].split = C1[P[i + 1]].split /\ C3[P[i]].ents = C1[P[i]].ents
        /\ C3[P[i]].g = Xor(C1[P[i]].g, Xor(e, C1[P[i + 1]].g))
    BY <1>6, <1>7 DEF x
  <2>2. /\ Bare(C1[P[i + 1]]) /\ Unled(PairsOf(n, P), C1, P[i + 1]) /\ Still(gs.moves, P[i + 1])
        /\ C1[P[i]].split \/ ~C1[P[i + 1]].split
    BY DEF CutIs
  <2>3. \A k \in 1 .. n : k # i /\ k # i + 1 => C3[P[k]] = C1[P[k]]
    BY <1>7
  <2>4. /\ Plan(n - 1, Q, C3, gs.moves, Xor(OnDisk(gdisk), e))
        /\ PairsOf(n - 1, Q) = PairsOf(n, P) \ {x}
        /\ Hards(n - 1, Q, C3) = Hards(n, P, C1) \ {x}
        /\ \A y : Unled(PairsOf(n, P), C1, y) => Unled(PairsOf(n - 1, Q), C3, y)
    BY <1>4, <2>1, <2>2, <2>3, PlanCut DEF x, Q
  <2> QED
    BY <1>4, <2>4
<1>9. /\ i \in 1 .. n - 1 /\ Q[i] = P[i]
      /\ \A k \in 1 .. n - 1 : k # i => \E l \in 1 .. n : l # i /\ l # i + 1 /\ Q[k] = P[l]
      /\ \A k \in 1 .. n : k # i /\ k # i + 1 => \E l \in 1 .. n - 1 : l # i /\ Q[l] = P[k]
  <2>1. n \in Nat
    BY <1>1
  <2>2. Cut(n, P, i)[i] = P[i]
    BY <2>1 DEF Cut
  <2>3. \A k \in 1 .. n - 1 : k # i => \E l \in 1 .. n : l # i /\ l # i + 1 /\ Cut(n, P, i)[k] = P[l]
    BY <2>1, CutPlace
  <2>4. \A k \in 1 .. n : k # i /\ k # i + 1 => \E l \in 1 .. n - 1 : l # i /\ Cut(n, P, i)[l] = P[k]
    BY <2>1, CutPlace
  <2> QED
    BY <2>2, <2>3, <2>4 DEF Q
<1>10. /\ Settled(blk, Q[i]) /\ Elsewhere(blk, n - 1, Q, C3, i) /\ Still(gs.moves, Q[i])
       /\ o.hook.pair \cap Q[i] = {}
  <2>1. Settled(blk, Q[i]) /\ Still(gs.moves, Q[i]) /\ o.hook.pair \cap Q[i] = {}
    BY <1>2, <1>9 DEF CutIs
  <2>2. Elsewhere(blk, n - 1, Q, C3, i)
    BY <1>7, <1>9 DEF Elsewhere
  <2> QED
    BY <2>1, <2>2
<1>11. \A k \in 1 .. n - 1 : Q[k] \cap Free = {}
  <2> SUFFICES ASSUME NEW k \in 1 .. n - 1 PROVE Q[k] \cap Free = {}
    OBVIOUS
  <2>1. CASE k = i
    BY <1>2, <1>9, <2>1
  <2>2. CASE k # i
    BY <1>9, <2>2
  <2> QED
    BY <2>1, <2>2
<1>12. Fills(C3[Q[i]], c, Xor(Fetch(blk, Q[i]).m.g, Delta(gs, gd)))
  <2>1. Fetch(blk, P[i]).m = C1[P[i]]
    BY <1>2
  <2>2. m.g = Xor(Fetch(blk, P[i]).m.g, Delta(gs, gd))
    BY <1>4, <1>6, <2>1
  <2>3. m.ents = c.ents /\ m.tail = c.tail /\ m.split = c.split
    BY <1>6 DEF x
  <2> QED
    BY <1>7, <1>9, <2>2, <2>3 DEF Fills
<1>13. Goes(Fetch(blk, Q[i]), c, gs, gd, o, d)
  BY <1>9 DEF gd, x
<1>14. /\ Moved(gs) /\ op' = o
       /\ deo' = IF d.on THEN [d EXCEPT !.pdir = Fetch(blk', Q[i])] ELSE NoDeo
       /\ \E n2, P2, C2 : /\ Plan(n2, P2, C2, gs.moves, OnDisk(gs))
                          /\ After(blk, blk', Fetch(blk', Q[i]), n - 1, Q, C3, i, n2, P2, C2)
  <2>1. Delta(gs, gd) \in Gs /\ Plan(n - 1, Q, C3, gs.moves, OnDisk(gs)) /\ i \in 1 .. n - 1
    BY <1>4, <1>8, <1>9
  <2> QED
    BY <1>10, <1>11, <1>12, <1>13, <2>1, GoesOn
<1>15. PICK n2, P2, C2 : /\ Plan(n2, P2, C2, gs.moves, OnDisk(gs))
                         /\ After(blk, blk', Fetch(blk', Q[i]), n - 1, Q, C3, i, n2, P2, C2)
  BY <1>14
<1>16. \A k \in 1 .. n : k # i + 1 => P[k] \in PairsOf(n - 1, Q) /\ P[k] # x
  BY <1>1, <1>2, <1>8 DEF PairsOf, x
<1>17. Lost(blk, blk', n, P, C1, i, n2, P2, C2)
  <2>1. blk' \in Disks /\ Reads(blk', n2, P2, C2)
    BY <1>15 DEF After
  <2>2. \A k \in 1 .. n : k # i + 1 =>
          P[k] \in PairsOf(n2, P2) /\ (P[k] \in Hards(n2, P2, C2) <=> P[k] \in Hards(n, P, C1))
    BY <1>8, <1>15, <1>16 DEF After
  <2>3. \A k \in 1 .. n : k # i /\ k # i + 1 => Fetch(blk', P[k]) = Fetch(blk, P[k])
    BY <1>9, <1>15 DEF After
  <2>4. \A y : Unled(PairsOf(n, P), C1, y) => Unled(PairsOf(n2, P2), C2, y)
    BY <1>8, <1>15 DEF After
  <2>5. /\ Follows(PairsOf(n, P), Hards(n, P, C1), C1, PairsOf(n - 1, Q), Hards(n - 1, Q, C3), C3,
                   PairsOf(n, P) \ {x}, {x})
        /\ Keeps(PairsOf(n, P), C1, PairsOf(n - 1, Q), C3, {})
    <3> DEFINE S == PairsOf(n, P)
               Z == Hards(n, P, C1)
    <3>1. /\ x \in S /\ x # Root /\ P[i] \in S /\ P[i] # x /\ Bare(C1[x]) /\ Unled(S, C1, x)
          /\ AllButTwo(S, P[i], x, C1, C3)
      <4>1. P[1] = Root /\ 1 \in 1 .. n /\ i + 1 # 1
        <5>1. Line(n, P, Along(n, P, C1))
          BY DEF Plan
        <5>2. P[1] = Root
          BY <5>1, LineAlong
        <5> QED
          BY <1>1, <5>2
      <4>2. x # Root /\ P[i] # x
        BY <1>1, <1>2, <4>1 DEF x
      <4>3. AllButTwo(S, P[i], x, C1, C3)
        BY <1>7 DEF AllButTwo, PairsOf, x
      <4> QED
        BY <1>2, <4>2, <4>3 DEF CutIs, PairsOf, x
    <3>2. /\ C3[P[i]].ents = C1[P[i]].ents /\ C3[P[i]].split = C1[x].split /\ C3[P[i]].tail = C1[x].tail
          /\ C1[P[i]].split \/ ~C1[x].split
      BY <1>6, <1>7 DEF CutIs, x
    <3>3. \A q \in S : C1[q].split => (q = P[i] <=> C1[q].tail = x)
      <4> SUFFICES ASSUME NEW k \in 1 .. n, C1[P[k]].split PROVE P[k] = P[i] <=> C1[P[k]].tail = x
        BY DEF PairsOf
      <4>1. k # n
        <5>1. Line(n, P, Along(n, P, C1))
          BY DEF Plan
        <5>2. ~C1[P[n]].split
          BY <5>1, LineAlong, Zenon
        <5> QED
          BY <5>2
      <4>2. k \in 1 .. n - 1 /\ k + 1 \in 1 .. n
        BY <1>1, <4>1
      <4>3. C1[P[k]].tail = P[k + 1]
        BY <4>2, LineTails DEF Plan
      <4>4. P[k] = P[i] <=> k = i
        BY <1>1, <1>2
      <4>5. P[k + 1] = P[i + 1] <=> k = i
        BY <1>1, <1>2, <4>2
      <4> QED
        BY <4>3, <4>4, <4>5 DEF x
    <3> HIDE DEF S, Z
    <3>4. ASSUME NEW v, NEW K, Tied(S, Z, C1, v, K) PROVE Tied(S \ {x}, Z \ {x}, C3, v, K \ {x})
      BY <3>1, <3>2, <3>3, <3>4, TiedCut
    <3>5. Follows(S, Z, C1, S \ {x}, Z \ {x}, C3, S \ {x}, {x})
      BY <3>4 DEF Follows
    <3>6. Keeps(S, C1, S \ {x}, C3, {})
      <4>1. Tails(S, C1)
        BY TailsIs DEF Plan, S
      <4>2. C1[x].tail # x
        <5>1. Line(n, P, Along(n, P, C1))
          BY DEF Plan
        <5>2. \A k \in 1 .. n : C1[P[k]].tail # P[k]
          BY <5>1, TailElse
        <5> QED
          BY <1>2, <5>2 DEF x
      <4> QED
        BY <3>1, <3>2, <3>3, <4>1, <4>2, KeepsCut
    <3> QED
      BY <1>8, <3>5, <3>6 DEF S, Z
  <2>6. Follows(PairsOf(n - 1, Q), Hards(n - 1, Q, C3), C3, PairsOf(n2, P2), Hards(n2, P2, C2), C2,
                PairsOf(n - 1, Q), {})
    BY <1>15 DEF After
  <2>7. Follows(PairsOf(n, P), Hards(n, P, C1), C1, PairsOf(n2, P2), Hards(n2, P2, C2), C2,
                PairsOf(n, P) \ {x}, {x})
    <3>1. PairsOf(n, P) \ {x} \subseteq PairsOf(n - 1, Q)
      BY <1>8
    <3> QED
      BY <2>5, <2>6, <3>1, FollowsThen
  <2>8. i \in 1 .. n2 /\ \A l \in 1 .. i : P2[l] = P[l]
    <3>1. i \in 1 .. n2 /\ \A l \in 1 .. i : P2[l] = Q[l]
      BY <1>15 DEF After
    <3>2. \A l \in 1 .. i : Q[l] = P[l]
      BY <1>1, <1>2 DEF Q, Cut
    <3> QED
      BY <3>1, <3>2
  <2>9. Keeps(PairsOf(n, P), C1, PairsOf(n2, P2), C2, {})
    <3>1. Keeps(PairsOf(n - 1, Q), C3, PairsOf(n2, P2), C2, PairsOf(n - 1, Q) \ {Q[i]})
      BY <1>15 DEF After
    <3>2. x \notin PairsOf(n2, P2)
      <4>1. x \in Pairs /\ x \cap Free = {} /\ x \notin PairsOf(n - 1, Q)
        BY <1>1, <1>2, <1>8 DEF x
      <4>2. ~(x \subseteq Free)
        BY <4>1 DEF Pairs
      <4> QED
        BY <1>15, <4>1, <4>2 DEF After
    <3>3. PairsOf(n, P) \cap PairsOf(n2, P2) \subseteq PairsOf(n - 1, Q)
      BY <1>8, <3>2
    <3>4. \A T : {} \subseteq T
      OBVIOUS
    <3> QED
      BY <2>5, <3>1, <3>3, <3>4, KeepsThen
  <2> QED
    BY <2>1, <2>2, <2>3, <2>4, <2>7, <2>8, <2>9 DEF Lost, x
<1>18. P[i] \in PairsOf(n2, P2)
  BY <1>2, <1>17 DEF Lost
<1> QED
  BY <1>9, <1>14, <1>15, <1>17, <1>18 DEF WasCut

(* A pair that counts no entries has none.                                    *)
LEMMA SizeZero ==
    ASSUME NEW ents, Size(ents) = 0
    PROVE  \A a \in Names : ents[a] = NoEnt
<1>1. {a \in Names : ents[a] # NoEnt} \subseteq Names
  OBVIOUS
<1>2. IsFiniteSet({a \in Names : ents[a] # NoEnt})
  BY <1>1, ThreadAssumption, FS_Subset
<1>3. {a \in Names : ents[a] # NoEnt} = {}
  BY <1>2, FS_EmptySet DEF Size
<1> QED
  BY <1>3

(* A commit that leaves P[i] without entries, and drops it.                    *)
LEMMA StartDrops ==
    ASSUME NEW gs \in Rams, gs.moves = {}, gdisk \in Rams, blk \in Disks, NEW mv,
           NEW n, NEW P, NEW C, Plan(n, P, C, mv, OnDisk(gdisk)), Reads(blk, n, P, C),
           NEW i \in 1 .. n, NEW C1, \A k \in 1 .. n : k # i => C1[P[k]] = C[P[k]],
           C1[P[i]] \in Contents, NEW c, Fills(C1[P[i]], c, C[P[i]].g),
           c.tail = C[P[i]].tail, c.split = C[P[i]].split,
           Fits(PairsOf(n, P), Hards(n, P, C), C1, gs.moves),
           NEW o, Aside(o, n, P, C, i), NEW deletes, Drops(Fetch(blk, P[i]), c, deletes),
           LET to == The(Preds(blk, Fetch(blk, P[i]).pair))
           IN  Goes(to, [ents |-> to.m.ents, tail |-> c.tail, split |-> c.split], gs,
                    Xor(NoG, blk[Fetch(blk, P[i]).cur].g), o, NoDeo)
    PROVE  /\ Moved(gs) /\ op' = o /\ deo' = NoDeo
           /\ \E n2, P2, C2 : /\ Plan(n2, P2, C2, gs.moves, OnDisk(gs))
                              /\ Kept(blk, blk', n, P, C, C1, i, n2, P2, C2)
<1> DEFINE h  == Fetch(blk, P[i])
           to == The(Preds(blk, h.pair))
           u  == i - 1
           cc == [ents |-> to.m.ents, tail |-> c.tail, split |-> c.split]
<1>1. /\ P \in [1 .. n -> Pairs] /\ n \in Nat \ {0}
      /\ \A j, k \in 1 .. n : j # k => P[j] \cap P[k] = {}
      /\ \A j, k \in 1 .. n : P[j] = P[k] => j = k
      /\ \A k \in 1 .. n : C[P[k]] \in Contents
  BY LineAlong DEF Plan
<1>2. h.pair = P[i] /\ blk[h.cur] = C[P[i]]
  BY FetchSettled DEF Reads
<1>3. (\E p \in Preds(blk, P[i]) : p.m.split) /\ \A a \in Names : c.ents[a] = NoEnt
  BY <1>2, SizeZero DEF Drops
<1>4. i # 1 /\ u \in 1 .. n - 1 /\ to = Fetch(blk, P[u]) /\ Preds(blk, P[i]) = {Fetch(blk, P[u])}
  <2>1. Line(n, P, Along(n, P, C))
    BY DEF Plan
  <2>2. i # 1
    BY <1>3, <2>1, HardPred
  <2> QED
    BY <1>2, <2>1, <2>2, HardPred
<1>5. u \in 1 .. n /\ u + 1 = i /\ u # i
  BY <1>1, <1>4
<1>6. Fetch(blk, P[u]).m = C[P[u]] /\ C[P[u]].split /\ C1[P[u]] = C[P[u]]
  BY <1>3, <1>4, <1>5 DEF Reads
<1> HIDE DEF h, to, u
<1>7. Plan(n, P, C1, gs.moves, OnDisk(gdisk)) /\ Hards(n, P, C1) = Hards(n, P, C)
  <2>1. C[P[i]].g \in Gs /\ OnDisk(gdisk) \in Gs
    BY <1>1, OnDiskTyped DEF Contents
  <2>2. C1[P[i]].g = Xor(C[P[i]].g, NoG) /\ NoG \in Gs /\ Xor(OnDisk(gdisk), NoG) = OnDisk(gdisk)
    BY <2>1, XorWith DEF Fills
  <2>3. C1[P[i]].tail = C[P[i]].tail /\ C1[P[i]].split = C[P[i]].split
    BY DEF Fills
  <2>4. Plan(n, P, C1, gs.moves, Xor(OnDisk(gdisk), NoG)) /\ Hards(n, P, C1) = Hards(n, P, C)
    BY <2>2, <2>3, PlanKeep
  <2> QED
    BY <2>2, <2>4
<1>8. P[i] \in Hards(n, P, C)
  BY <1>4, <1>5, <1>6 DEF Hards
<1>9. CutIs(n, P, C1, gs.moves, u)
  <2>1. Bare(C1[P[u + 1]])
    BY <1>3, <1>5 DEF Bare, Fills
  <2>2. Unled(PairsOf(n, P), C1, P[u + 1])
    BY <1>5, <1>8 DEF Fits, Aims, Unled, Leads
  <2> QED
    BY <1>6, <2>1, <2>2 DEF CutIs, Still
<1>10. /\ \A k \in 1 .. n : Settled(blk, P[k])
       /\ \A k \in 1 .. n : k # u + 1 => Fetch(blk, P[k]).m = C1[P[k]]
       /\ \A k \in 1 .. n : P[k] \cap Free = {}
  BY <1>5, FreeAvoids DEF Reads, Plan
<1>11. cc.ents = C1[P[u]].ents /\ cc.tail = C1[P[u + 1]].tail /\ cc.split = C1[P[u + 1]].split
  BY <1>4, <1>5, <1>6 DEF Fills
<1>12. o.hook.pair \cap P[u] = {}
  BY <1>1, <1>5, <1>6 DEF Aside
<1>13. Goes(Fetch(blk, P[u]), cc, gs, Xor(NoG, C1[P[u + 1]].g), o, NoDeo)
  <2>1. C1[P[u + 1]].g = blk[h.cur].g
    BY <1>2, <1>5 DEF Fills
  <2>2. Goes(to, cc, gs, Xor(NoG, blk[h.cur].g), o, NoDeo)
    BY DEF h, to
  <2> QED
    BY <1>4, <2>1, <2>2
<1> HIDE DEF cc
<1>14. WasCut(gs, n, P, C1, u, o, NoDeo)
  <2>1. Cuttable(gs, n, P, C1, u, cc, o)
    BY <1>4, <1>7, <1>9, <1>10, <1>11, <1>12 DEF Cuttable
  <2> QED
    BY <1>13, <2>1, GoesCut
<1>15. PICK n2, P2, C2 : /\ Plan(n2, P2, C2, gs.moves, OnDisk(gs))
                         /\ Lost(blk, blk', n, P, C1, u, n2, P2, C2)
  BY <1>14 DEF WasCut
<1>16. Kept(blk, blk', n, P, C, C1, i, n2, P2, C2)
  <2>1. Bare(C1[P[i]])
    BY <1>3 DEF Bare, Fills
  <2>2. Follows(PairsOf(n, P), Hards(n, P, C), C1, PairsOf(n2, P2), Hards(n2, P2, C2), C2,
                PairsOf(n, P) \ {P[i]}, {})
    <3>1. Follows(PairsOf(n, P), Hards(n, P, C), C1, PairsOf(n2, P2), Hards(n2, P2, C2), C2,
                  PairsOf(n, P) \ {P[i]}, {P[i]})
      BY <1>5, <1>7, <1>15 DEF Lost
    <3>2. ASSUME NEW v, NEW K, Tied(PairsOf(n, P), Hards(n, P, C), C1, v, K) PROVE K \ {P[i]} = K \ {}
      BY <1>8, <3>2 DEF Tied
    <3> QED
      BY <3>1, <3>2 DEF Follows
  <2>3. blk' \in Disks /\ Reads(blk', n2, P2, C2)
    BY <1>15 DEF Lost
  <2>4. \A k \in 1 .. n : k # i =>
          P[k] \in PairsOf(n2, P2) /\ (P[k] \in Hards(n2, P2, C2) <=> P[k] \in Hards(n, P, C))
    BY <1>5, <1>7, <1>15 DEF Lost
  <2>5. \A k \in 1 .. n : k # i /\ (~C[P[k]].split \/ ~Bare(C1[P[i]])) => Fetch(blk', P[k]) = Fetch(blk, P[k])
    BY <1>5, <1>6, <1>15, <2>1 DEF Lost
  <2>6. \A y : Unled(PairsOf(n, P), C1, y) => Unled(PairsOf(n2, P2), C2, y)
    BY <1>15 DEF Lost
  <2>7. Keeps(PairsOf(n, P), C1, PairsOf(n2, P2), C2, Untouched(n, P, C1, i))
    <3>1. Untouched(n, P, C1, i) = {}
      BY <2>1 DEF Untouched
    <3> QED
      BY <1>15, <3>1 DEF Lost
  <2>8. PairsOf(n, P) \ Hards(n, P, C) \subseteq PairsOf(n2, P2)
    BY <1>8, <2>4 DEF PairsOf
  <2> QED
    BY <2>2, <2>3, <2>4, <2>5, <2>6, <2>7, <2>8 DEF Kept
<1>17. deo' = NoDeo
  BY <1>14 DEF NoDeo, WasCut
<1> QED
  BY <1>14, <1>15, <1>16, <1>17 DEF WasCut

(* A commit that changes entries of P[i], dropped or not.                      *)
LEMMA StartKeep ==
    ASSUME NEW gs \in Rams, gdisk \in Rams, blk \in Disks, NEW mv,
           NEW n, NEW P, NEW C, Plan(n, P, C, mv, OnDisk(gdisk)), Reads(blk, n, P, C),
           NEW i \in 1 .. n, NEW C1, \A k \in 1 .. n : k # i => C1[P[k]] = C[P[k]],
           C1[P[i]] \in Contents, NEW c, Fills(C1[P[i]], c, C[P[i]].g),
           c.tail = C[P[i]].tail, c.split = C[P[i]].split,
           Fits(PairsOf(n, P), Hards(n, P, C), C1, gs.moves), Still(gs.moves, P[i]),
           NEW o, Aside(o, n, P, C, i), NEW deletes,
           gs.moves = {} \/ \E a \in Names : c.ents[a] # NoEnt,
           gdelta = NoG, Start(Fetch(blk, P[i]), c, deletes, gs, gdelta, o, NoDeo), com' = NoCom
    PROVE  /\ Moved(gs) /\ op' = o /\ deo' = NoDeo
           /\ \E n2, P2, C2 : /\ Plan(n2, P2, C2, gs.moves, OnDisk(gs))
                              /\ Kept(blk, blk', n, P, C, C1, i, n2, P2, C2)
<1> DEFINE h == Fetch(blk, P[i])
<1>1. /\ ~Drops(h, c, deletes) => Goes(h, c, gs, NoG, o, NoDeo)
      /\ Drops(h, c, deletes) =>
             Goes(The(Preds(blk, h.pair)),
                  [ents |-> The(Preds(blk, h.pair)).m.ents, tail |-> c.tail, split |-> c.split],
                  gs, Xor(NoG, blk[h.cur].g), o, NoDeo)
  BY StartGoes
<1>2. CASE ~Drops(h, c, deletes)
  BY <1>1, <1>2, StartStays
<1>3. CASE Drops(h, c, deletes)
  <2>1. gs.moves = {}
    BY <1>3, SizeZero DEF Drops
  <2> QED
    BY <1>1, <1>3, <2>1, StartDrops
<1> QED
  BY <1>2, <1>3

-----------------------------------------------------------------------------
(* The invariant.  The new pair of an lfs_mkdir_ holds some of the global      *)
(* state before it is on the thread.                                         *)
Owed == IF op.at \in {"link", "add"} THEN Fetch(blk, op.pair).m.g ELSE NoG

(* What the driver has in RAM, and what a mount would find.                   *)
RamInv ==
    /\ blk \in Disks /\ gdelta = NoG /\ gstate \in Rams /\ gdisk \in Rams
    /\ gstate.moves = gdisk.moves /\ \A v, w \in gstate.moves : v = w
    /\ gstate.orphans > 0 => gdisk.orphans > 0
    /\ tree = Mounted(blk)

(* The disk.                                                                  *)
Whole(n, P, C) == Plan(n, P, C, gdisk.moves, Xor(OnDisk(gdisk), Owed)) /\ Reads(blk, n, P, C)

(* A new pair that goes on the thread before the pair t. *)
New(b, n, P, x, t) ==
    /\ x \subseteq taken /\ Settled(b, x) /\ \A k \in 1 .. n : P[k] \cap x = {}
    /\ Blank(Fetch(b, x).m) /\ Fetch(b, x).m.tail = t /\ Fetch(b, x).m.g.moves = {}

(* The path asked for is the name to put in, in the directory that pair p is  *)
(* a part of.                                                                 *)
Asked(n, P, C, p) == \E d \in Nodes(blk, {}) :
    /\ d.ent.type = "dir" /\ AloneIn(Firsts(n, P, C), PairsOf(n, P), C, d.ent.pair, p)
    /\ call.path = Append(d.path, op.name)

(* The handle kept for the entry that is to be put in.                        *)
Hook(n, P, C, j) ==
    /\ op.hook = Fetch(blk, P[j]) /\ op.name \in Names /\ C[P[j]].ents[op.name] = NoEnt
    /\ Room(PairsOf(n, P), C, P[j], op.name) /\ Asked(n, P, C, P[j])

(* A directory that is removed: no entry leads to it. *)
Doomed(n, P, C, j) ==
    Blank(C[P[j]]) /\ Unled(PairsOf(n, P), C, P[j]) /\ P[j] \notin Fixed(n, P, C)

(* Between two commits of a call: lfs_mkdir_, in a directory that is split,    *)
Linking(n, P, C) ==
    /\ op.at = "link" /\ gstate.moves = {}
    /\ \E i \in 1 .. n, j \in 1 .. n :
          /\ op.h = Fetch(blk, P[i]) /\ ~C[P[i]].split /\ New(blk, n, P, op.pair, C[P[i]].tail)
          /\ Hook(n, P, C, j) /\ C[P[j]].split

Unlinking(n, P, C) ==
    /\ op.at = "unlink" /\ gstate.moves = {} /\ gstate.orphans >= 1
    /\ op.pair \in PairsOf(n, P) \ Fixed(n, P, C) /\ Unled(PairsOf(n, P), C, op.pair) /\ Blank(C[op.pair])
    /\ \E j \in 1 .. n : Hook(n, P, C, j) /\ C[P[j]].split

(* ... and in one that is not,                                                *)
Adding(n, P, C) ==
    /\ op.at = "add" /\ gstate.moves = {}
    /\ \E j \in 1 .. n :
          /\ Hook(n, P, C, j) /\ ~C[P[j]].split /\ Rooted(n, P, C, P[j])
          /\ New(blk, n, P, op.pair, C[P[j]].tail)

(* ... lfs_rename_ between pairs,                                             *)
Renaming(n, P, C) ==
    /\ op.at = "old" /\ op.name \in Names
    /\ \E i \in 1 .. n :
          /\ op.h = Fetch(blk, P[i]) /\ gstate.moves = {[pair |-> P[i], name |-> op.name]}
          /\ op.drops => /\ gstate.orphans >= 1
                         /\ \E j \in 1 .. n : j # i /\ Doomed(n, P, C, j) /\ op.hook = Fetch(blk, P[j])

(* ... and the end of a remove or of a rename onto a directory.                *)
Dropping(n, P, C) ==
    /\ op.at = "drop" /\ gstate.moves = {} /\ gstate.orphans >= 1
    /\ \E j \in 1 .. n : Doomed(n, P, C, j) /\ op.hook = Fetch(blk, P[j])

OpInv(n, P, C) ==
    \/ op = NoOp
    \/ Linking(n, P, C) \/ Unlinking(n, P, C) \/ Adding(n, P, C)
    \/ Renaming(n, P, C) \/ Dropping(n, P, C)

(* lfs_fs_deorphan, before a call, at a pair of the thread.                   *)
Repairing(n, P) ==
    /\ op = NoOp /\ gstate.moves = {}
    /\ \E pass \in {0, 1} : \E pdir :
          /\ deo = Deo(pass, pdir)
          /\ pdir = StartPdir \/ \E k \in 1 .. n : pdir = Fetch(blk, P[k])

(* Which pairs of the thread no path from the root goes through: the one that  *)
(* a call has announced, or, after power was lost, those that the second pass  *)
(* of lfs_fs_deorphan has still to come to.                                   *)
Ties(n, P, C, mv, K) == /\ Tied(PairsOf(n, P), Hards(n, P, C), C, mv, K)
                        /\ Sorted(PairsOf(n, P), C)

Searched(b, n, P, pdir, K) == \A k \in 1 .. n : pdir = Fetch(b, P[k]) => \A l \in 1 .. k : P[l] \notin K

Loose(n, P, K) ==
    /\ K # {} => gstate.orphans > 0
    /\ op.at \in {"link", "add"} => K = {}
    /\ op.at = "unlink" => K \subseteq {op.pair}
    /\ op.at \in {"old", "drop"} => K \subseteq {op.hook.pair}
    /\ deo.on /\ deo.pass = 1 => Searched(blk, n, P, deo.pdir, K)

Knit(n, P, C) == \E K : Ties(n, P, C, gdisk.moves, K) /\ Loose(n, P, K)

(* ... when no call goes on.                                                  *)
Knots(n, P, C, mv, gs) == \E K : Ties(n, P, C, mv, K) /\ (K # {} => gs.orphans > 0)

Inv == RamInv /\ \E n, P, C :
          /\ Whole(n, P, C) /\ OpInv(n, P, C) /\ (deo = NoDeo \/ Repairing(n, P))
          /\ Knit(n, P, C)

(* Where a path ends in a directory, its pairs and the one that has, or is    *)
(* to have, a name are on the thread.                                         *)
LEMMA DirsOn ==
    ASSUME blk \in Disks, gdisk.moves = {}, NEW n, NEW P, NEW C, NEW g, Plan(n, P, C, {}, g), Reads(blk, n, P, C),
           NEW d \in Dirs, NEW nm
    PROVE  /\ \E i, j, e : /\ P[i] = d.ent.pair /\ Rooted(n, P, C, P[i])
                           /\ InChain(n, P, C, i, j) /\ FindIn(d, nm) = Fetch(blk, P[j])
                           /\ InChain(n, P, C, i, e) /\ Last(Chain(blk, d.ent.pair)) = Fetch(blk, P[e])
                           /\ ~C[P[e]].split
<1>1. Hard(blk, n, P) /\ P[1] = Root /\ n \in Nat \ {0}
  BY PlanHard DEF Plan
<1>2. \A k \in 1 .. n : Fetch(blk, P[k]).m = C[P[k]]
  BY DEF Reads
<1>3. DirsOnLine(blk, n, P)
  BY <1>2 DEF DirsOnLine, Plan, Fits, Aims, PairsOf
<1>4. OnPath(blk, n, P, {}, d.ent.pair)
  <2>1. d \in Nodes(blk, {}) /\ d.ent.type = "dir"
    BY DEF Dirs
  <2> QED
    BY <1>1, <1>3, <2>1, NodesFound
<1>5. PICK i \in 1 .. n : P[i] = d.ent.pair /\ Rooted(n, P, C, P[i])
  <2>1. CASE d.ent.pair = Root
    BY <1>1, <2>1 DEF Rooted, Fixed
  <2>2. ASSUME NEW k \in 1 .. n, NEW a \in DirsOf(Fetch(blk, P[k]), {}),
               Fetch(blk, P[k]).m.ents[a].pair = d.ent.pair
        PROVE  \E i \in 1 .. n : P[i] = d.ent.pair /\ Rooted(n, P, C, P[i])
    <3>1. a \in Names /\ C[P[k]].ents[a].type = "dir"
      BY <1>2, <2>2 DEF DirsOf, Has
    <3>2. PICK i \in 1 .. n : P[i] = d.ent.pair
      BY <1>2, <1>3, <2>2, <3>1 DEF DirsOnLine
    <3>3. Shown(C, {}, P[k], a, P[i])
      BY <1>2, <2>2, <3>1, <3>2 DEF Shown, Leads
    <3>4. Led(PairsOf(n, P), C, {}, P[i])
      BY <3>1, <3>3 DEF Led, PairsOf
    <3> QED
      BY <3>2, <3>4 DEF Rooted
  <2> QED
    BY <1>4, <2>1, <2>2 DEF OnPath
<1>6. /\ \A h \in Range(Chain(blk, P[i])) :
            \E j \in i .. n : h = Fetch(blk, P[j]) /\ \A l \in i .. j - 1 : Fetch(blk, P[l]).m.split
      /\ \E e \in i .. n : /\ Last(Chain(blk, P[i])) = Fetch(blk, P[e]) /\ ~Fetch(blk, P[e]).m.split
                           /\ \A l \in i .. e - 1 : Fetch(blk, P[l]).m.split
      /\ Find(Chain(blk, P[i]), {}, nm) \in Range(Chain(blk, P[i]))
  BY <1>1, ChainFound
<1>7. FindIn(d, nm) \in Range(Chain(blk, P[i]))
  BY <1>5, <1>6 DEF FindIn
<1>8. PICK j \in i .. n : FindIn(d, nm) = Fetch(blk, P[j]) /\ \A l \in i .. j - 1 : Fetch(blk, P[l]).m.split
  BY <1>6, <1>7
<1>9. PICK e \in i .. n : /\ Last(Chain(blk, P[i])) = Fetch(blk, P[e]) /\ ~Fetch(blk, P[e]).m.split
                          /\ \A l \in i .. e - 1 : Fetch(blk, P[l]).m.split
  BY <1>6
<1>10. \A k \in i .. n : k \in 1 .. n /\ \A l \in i .. k - 1 : l \in 1 .. n
  BY <1>1
<1>11. InChain(n, P, C, i, j) /\ InChain(n, P, C, i, e) /\ ~C[P[e]].split
  BY <1>2, <1>8, <1>9, <1>10 DEF InChain
<1> QED
  BY <1>5, <1>8, <1>9, <1>11

-----------------------------------------------------------------------------
(* The steps. *)
LEMMA AloneIs ==
    ASSUME Inv, op.at = "idle"
    PROVE  RamInv /\ op = NoOp /\ Owed = NoG /\ OnDisk(gdisk) \in Gs
           /\ \E n, P, C : /\ Plan(n, P, C, gdisk.moves, OnDisk(gdisk)) /\ Reads(blk, n, P, C)
                           /\ deo = NoDeo \/ Repairing(n, P)
                           /\ Knit(n, P, C)
<1>1. RamInv /\ OnDisk(gdisk) \in Gs
  BY OnDiskTyped DEF Inv, RamInv
<1>2. Owed = NoG /\ Xor(OnDisk(gdisk), Owed) = OnDisk(gdisk)
  BY <1>1, XorWith DEF Owed
<1>3. PICK n, P, C : /\ Whole(n, P, C) /\ OpInv(n, P, C) /\ (deo = NoDeo \/ Repairing(n, P))
                     /\ Knit(n, P, C)
  BY DEF Inv
<1>4. op = NoOp
  BY <1>3 DEF OpInv, Linking, Unlinking, Adding, Renaming, Dropping
<1> QED
  BY <1>1, <1>2, <1>3, <1>4 DEF Whole

(* ... or the repairs.                                                        *)
LEMMA IdleIs ==
    ASSUME Inv, Running("idle")
    PROVE  RamInv /\ op = NoOp /\ deo = NoDeo
           /\ \E n, P, C : /\ Plan(n, P, C, gdisk.moves, OnDisk(gdisk)) /\ Reads(blk, n, P, C)
                           /\ Knots(n, P, C, gdisk.moves, gstate)
<1>1. op.at = "idle" /\ ~deo.on
  BY DEF Running
<1>2. PICK n, P, C : /\ Plan(n, P, C, gdisk.moves, OnDisk(gdisk)) /\ Reads(blk, n, P, C)
                     /\ deo = NoDeo \/ Repairing(n, P)
                     /\ Knit(n, P, C)
  BY <1>1, AloneIs
<1>3. deo = NoDeo
  <2>1. \A pass, pdir : Deo(pass, pdir).on
    BY DEF Deo
  <2> QED
    BY <1>1, <1>2, <2>1 DEF Repairing
<1>4. Knots(n, P, C, gdisk.moves, gstate)
  BY <1>2 DEF Knit, Loose, Knots
<1> QED
  BY <1>1, <1>2, <1>3, <1>4, AloneIs

(* With no orphan announced every pair is on a path; the names are in order.  *)
LEMMA AllTied ==
    ASSUME NEW n, NEW P, NEW C, NEW mv, NEW gs, Knots(n, P, C, mv, gs), gs.orphans = 0
    PROVE  Tied(PairsOf(n, P), Hards(n, P, C), C, mv, {}) /\ Sorted(PairsOf(n, P), C)
<1>1. PICK K : Ties(n, P, C, mv, K) /\ (K # {} => gs.orphans > 0)
  BY DEF Knots
<1>2. K = {}
  BY <1>1
<1> QED
  BY <1>1, <1>2 DEF Ties

(* The call has ended, with the disk in order.                                *)
LEMMA IdleAgain ==
    ASSUME NEW gs \in Rams, \A v, w \in gs.moves : v = w, Moved(gs), op' = NoOp, deo' = NoDeo, blk' \in Disks,
           NEW n, NEW P, NEW C, Plan(n, P, C, gs.moves, OnDisk(gs)), Reads(blk', n, P, C),
           Knots(n, P, C, gs.moves, gs)
    PROVE  Inv'
<1>1. OnDisk(gs) \in Gs
  BY OnDiskTyped
<1>2. Owed' = NoG
  BY DEF Owed, NoOp
<1>3. Xor(OnDisk(gdisk), Owed)' = OnDisk(gs)
  BY <1>1, <1>2, XorWith DEF Moved
<1>4. Whole(n, P, C)'
  BY <1>3 DEF Whole, Moved
<1>5. RamInv'
  BY DEF RamInv, Moved
<1>6. OpInv(n, P, C)'
  BY DEF OpInv
<1>7. Knit(n, P, C)'
  BY DEF Knots, Knit, Loose, Moved, NoOp, NoDeo
<1> QED
  BY <1>4, <1>5, <1>6, <1>7 DEF Inv

(* A commit of changed entries through a handle that is up to date. *)
LEMMA Edits ==
    ASSUME RamInv, deo = NoDeo, com' = NoCom, NEW gs \in Rams, NEW mv,
           NEW n, NEW P, NEW C, Plan(n, P, C, mv, OnDisk(gdisk)), Reads(blk, n, P, C),
           NEW i \in 1 .. n, NEW ents \in [Names -> Ents],
           Fits(PairsOf(n, P), Hards(n, P, C), Edited(C, P[i], ents), gs.moves), Still(gs.moves, P[i]),
           NEW o, Aside(o, n, P, C, i), NEW deletes,
           gs.moves = {} \/ \E a \in Names : ents[a] # NoEnt,
           Start(Fetch(blk, P[i]), [Fetch(blk, P[i]).m EXCEPT !.ents = ents], deletes, gs, gdelta, o, deo)
    PROVE  /\ Moved(gs) /\ op' = o /\ deo' = NoDeo
           /\ \E n2, P2, C2 : /\ Plan(n2, P2, C2, gs.moves, OnDisk(gs))
                              /\ Kept(blk, blk', n, P, C, Edited(C, P[i], ents), i, n2, P2, C2)
<1> DEFINE C1 == Edited(C, P[i], ents)
           c  == [Fetch(blk, P[i]).m EXCEPT !.ents = ents]
<1>1. Fetch(blk, P[i]).m = C[P[i]]
  BY DEF Reads
<1>2. /\ \A k \in 1 .. n : k # i => C1[P[k]] = C[P[k]]
      /\ C1[P[i]] = c /\ C1[P[i]] \in Contents
  BY <1>1, EditedIs
<1>3. C[P[i]] \in Contents
  BY LineAlong DEF Plan
<1>4. Fills(C1[P[i]], c, C[P[i]].g) /\ c.tail = C[P[i]].tail /\ c.split = C[P[i]].split /\ c.ents = ents
  <2>1. c.g = C[P[i]].g /\ c.tail = C[P[i]].tail /\ c.split = C[P[i]].split /\ c.ents = ents
    BY <1>1, <1>3 DEF Contents
  <2> QED
    BY <1>2, <2>1 DEF Fills
<1> HIDE DEF C1, c
<1>5. Fits(PairsOf(n, P), Hards(n, P, C), C1, gs.moves)
  BY DEF C1
<1>6. Start(Fetch(blk, P[i]), c, deletes, gs, gdelta, o, NoDeo)
  BY DEF c
<1>7. gdisk \in Rams /\ blk \in Disks /\ gdelta = NoG
  BY DEF RamInv
<1>8. gs.moves = {} \/ \E a \in Names : c.ents[a] # NoEnt
  BY <1>4
<1>9. /\ Moved(gs) /\ op' = o /\ deo' = NoDeo
      /\ \E n2, P2, C2 : /\ Plan(n2, P2, C2, gs.moves, OnDisk(gs))
                         /\ Kept(blk, blk', n, P, C, C1, i, n2, P2, C2)
  BY <1>2, <1>4, <1>5, <1>6, <1>7, <1>8, StartKeep
<1> QED
  BY <1>9 DEF C1

(* What is planned with the pairs of K off every path, an orphan announced.   *)
Bound(n, P, C, C1, i, gs, K) ==
    /\ Fits(PairsOf(n, P), Hards(n, P, C), C1, gs.moves) /\ Still(gs.moves, P[i])
    /\ Tied(PairsOf(n, P), Hards(n, P, C), C1, gs.moves, K) /\ Sorted(PairsOf(n, P), C1)
    /\ K # {} => gs.orphans > 0

(* ... is so after the commit.                                                *)
LEMMA KeptTied ==
    ASSUME NEW b, NEW b1, NEW n, NEW P, NEW C, NEW C1, NEW i, NEW gs, NEW K, Bound(n, P, C, C1, i, gs, K),
           NEW n2, NEW P2, NEW C2, Kept(b, b1, n, P, C, C1, i, n2, P2, C2)
    PROVE  Ties(n2, P2, C2, gs.moves, K)
<1>1. \A v \in gs.moves : v.pair \in PairsOf(n, P) \ {P[i]}
  BY DEF Bound, Fits, Still
<1>2. Follows(PairsOf(n, P), Hards(n, P, C), C1, PairsOf(n2, P2), Hards(n2, P2, C2), C2,
              PairsOf(n, P) \ {P[i]}, {})
  BY DEF Kept
<1>3. Tied(PairsOf(n2, P2), Hards(n2, P2, C2), C2, gs.moves, K \ {})
  BY <1>1, <1>2 DEF Bound, Follows
<1>4. K \ {} = K
  OBVIOUS
<1>5. Sorted(PairsOf(n2, P2), C2)
  BY DEF Bound, Kept, Keeps, Lasts
<1> QED
  BY <1>3, <1>4, <1>5 DEF Ties

(* The call has ended with a commit of changed entries.                       *)
LEMMA KeptIdle ==
    ASSUME NEW gs \in Rams, \A v, w \in gs.moves : v = w, Moved(gs), op' = NoOp, deo' = NoDeo,
           NEW n, NEW P, NEW C, NEW C1, NEW i, NEW K, Bound(n, P, C, C1, i, gs, K),
           \E n2, P2, C2 : /\ Plan(n2, P2, C2, gs.moves, OnDisk(gs))
                         /\ Kept(blk, blk', n, P, C, C1, i, n2, P2, C2)
    PROVE  Inv'
<1>1. PICK n2, P2, C2 : /\ Plan(n2, P2, C2, gs.moves, OnDisk(gs))
                        /\ Kept(blk, blk', n, P, C, C1, i, n2, P2, C2)
  OBVIOUS
<1>2. Knots(n2, P2, C2, gs.moves, gs)
  <2>1. Ties(n2, P2, C2, gs.moves, K) /\ (K # {} => gs.orphans > 0)
    BY <1>1, KeptTied DEF Bound
  <2> QED
    BY <2>1 DEF Knots
<1>3. Reads(blk', n2, P2, C2) /\ blk' \in Disks
  BY <1>1 DEF Kept
<1> QED
  BY <1>1, <1>2, <1>3, IdleAgain

(* The name tree knows the same paths as starting with others.                *)
LEMMA PrefixSame == \A s, t : Atomic!IsPrefix(s, t) <=> IsPrefix(s, t)
  BY DEF Atomic!IsPrefix, IsPrefix

(* What is under a path, in terms of the nodes.                               *)
LEMMA UnderIs ==
    ASSUME NEW N, \A x, y \in N : x.path = y.path => x = y, tree = Shades(N), NEW p
    PROVE  /\ \A x \in N : Shade(x) \in Atomic!Under(p) <=> IsPrefix(p, x.path)
           /\ \A z \in Atomic!Under(p) : \E x \in N : z = Shade(x) /\ IsPrefix(p, x.path)
<1>1. \A z : z \in Atomic!Under(p) <=> z \in tree /\ IsPrefix(p, z.path)
  BY PrefixSame DEF Atomic!Under
<1>2. /\ \A z \in tree : \E x \in N : z = Shade(x) /\ z.path = x.path
      /\ \A x \in N : Shade(x) \in tree /\ Shade(x).path = x.path
  BY ShadesIs
<1> QED
  BY <1>1, <1>2

(* Nothing is below a node that no path goes through.                         *)
LEMMA EmptyAt ==
    ASSUME NEW N, \A x, y \in N : x.path = y.path => x = y, tree = Shades(N), NEW x0 \in N,
           \A x \in N : IsPrefix(x0.path, x.path) => x = x0
    PROVE  Atomic!IsEmpty(x0.path)
<1>1. ASSUME NEW z \in tree, IsPrefix(x0.path, z.path) PROVE z.path = x0.path
  <2>1. PICK x \in N : z = Shade(x) /\ z.path = x.path
    BY ShadesIs
  <2> QED
    BY <1>1, <2>1
<1> QED
  BY <1>1, PrefixSame DEF Atomic!IsEmpty

(* A path of the tree.                                                        *)
LEMMA PathsIs ==
    ASSUME NEW N, tree = Shades(N), NEW d \in N, d.ent.type = "dir", NEW a \in Names
    PROVE  Append(d.path, a) \in Atomic!Paths
<1>1. Shade(d) \in tree /\ Shade(d).type = "dir" /\ Shade(d).path = d.path
  BY DEF Shades, Shade
<1> QED
  BY <1>1 DEF Atomic!Paths

(* A new node is made in one step of the name tree,                           *)
LEMMA MakesNode ==
    ASSUME NEW N, \A x, y \in N : x.path = y.path => x = y, tree = Shades(N),
           NEW d \in N, d.ent.type = "dir", NEW a0 \in Names, NEW e0,
           \A x \in N : x.path # Append(d.path, a0), tree' = Shades(N \cup {Node(d, a0, e0)}),
           NEW T, e0.type \in T
    PROVE  Atomic!Make(Append(d.path, a0), T) /\ tree' # tree
<1> DEFINE p == Append(d.path, a0)
           z == Node(d, a0, e0)
<1>1. Shade(z) = [path |-> p, type |-> e0.type]
  BY DEF Shade, Node
<1>2. tree' = tree \cup {[path |-> p, type |-> e0.type]}
  BY <1>1 DEF Shades
<1>3. \A x \in tree : x.path # p
  BY ShadesIs
<1>4. p \in Atomic!Paths
  BY PathsIs
<1> HIDE DEF p
<1>5. Atomic!Make(p, T)
  BY <1>2, <1>3, <1>4 DEF Atomic!Make, Atomic!IsAt
<1>6. tree' # tree
  <2> DEFINE y == [path |-> p, type |-> e0.type]
  <2>1. y.path = p /\ y \in tree'
    BY <1>2
  <2> HIDE DEF y
  <2> QED
    BY <1>3, <2>1
<1> QED
  BY <1>5, <1>6 DEF p

(* ... a node with nothing below it deleted in one,                           *)
LEMMA DeletesNode ==
    ASSUME NEW N, \A x, y \in N : x.path = y.path => x = y, tree = Shades(N),
           NEW d \in N, d.ent.type = "dir", d.path \in Seq(Names), NEW a0 \in Names, NEW x0 \in N,
               x0.path = Append(d.path, a0),
           \A x \in N : IsPrefix(x0.path, x.path) => x = x0, tree' = Shades(N \ {x0})
    PROVE  Atomic!Delete(Append(d.path, a0)) /\ tree' # tree
<1> DEFINE p == Append(d.path, a0)
<1>1. p \in Seq(Names) /\ IsPrefix(p, p)
  <2>1. p \in Seq(Names)
    OBVIOUS
  <2> HIDE DEF p
  <2> QED
    BY <2>1, PrefixSelf
<1>2. p \in Atomic!Paths
  BY PathsIs
<1>3. Shade(x0) \in tree /\ Shade(x0).path = p
  BY ShadesIs
<1>4. Atomic!Under(p) = {Shade(x0)}
  <2> HIDE DEF p
  <2>1. \A z \in Atomic!Under(p) : \E x \in N : z = Shade(x) /\ IsPrefix(p, x.path)
    BY UnderIs
  <2>2. Shade(x0) \in Atomic!Under(p)
    BY <1>1, UnderIs DEF p
  <2>3. \A x \in N : IsPrefix(p, x.path) => x = x0
    BY DEF p
  <2> QED
    BY <2>1, <2>2, <2>3
<1>5. tree' = tree \ {Shade(x0)}
  <2>1. \A x \in N : x # x0 => Shade(x) # Shade(x0)
    BY ShadesIs
  <2> QED
    BY <2>1 DEF Shades
<1>6. Atomic!IsAt(p)
  BY <1>3 DEF Atomic!IsAt
<1>7. Atomic!IsEmpty(p)
  BY EmptyAt
<1>8. tree' # tree
  BY <1>3, <1>5
<1> HIDE DEF p
<1>9. Atomic!Delete(p)
  BY <1>2, <1>4, <1>5, <1>6, <1>7 DEF Atomic!Delete
<1> QED
  BY <1>8, <1>9 DEF p

(* What is renamed onto, if it is there, has nothing in it.                    *)
Vacant(N, q, x1) == \A x \in N : x.path = q =>
    /\ \A y \in N : IsPrefix(x.path, y.path) => y = x
    /\ (x.ent.type = "dir") = (x1.ent.type = "dir")

(* What is carried to a path starts with it.                                  *)
LEMMA CarriedOver ==
    ASSUME NEW X, NEW p \in Seq(X), NEW q \in Seq(X), NEW t \in Seq(X), IsPrefix(p, t)
    PROVE  IsPrefix(q, Carried(p, q, t))
<1> DEFINE v == SubSeq(t, Len(p) + 1, Len(t))
<1>1. Len(p) \in Nat /\ Len(q) \in Nat /\ Len(t) \in Nat
  OBVIOUS
<1>2. \A i \in Len(p) + 1 .. Len(t) : t[i] \in X
  BY <1>1
<1>3. v \in Seq(X)
  BY <1>1, <1>2, SubSeqProperties
<1> HIDE DEF v
<1>4. /\ Len(q \o v) = Len(q) + Len(v) /\ Len(v) \in Nat
      /\ \A i \in 1 .. Len(q) : (q \o v)[i] = q[i]
  BY <1>3, ConcatProperties
<1>5. q \o v \in Seq(X)
  BY <1>3
<1> DEFINE w == q \o v
<1> HIDE DEF w
<1>6. w \in Seq(X) /\ Len(q) <= Len(w) /\ \A i \in 1 .. Len(q) : w[i] = q[i]
  BY <1>1, <1>4, <1>5 DEF w
<1>7. IsPrefix(q, w)
  BY <1>1, <1>6, PrefixIs
<1> QED
  BY <1>7 DEF w, v, Carried

(* ... and one renamed with all that is below it.                             *)
LEMMA RenamesNode ==
    ASSUME NEW N, \A x, y \in N : x.path = y.path => x = y, tree = Shades(N),
           NEW d, NEW a1, NEW k, NEW a0, Journey(N, d, a1, k, a0), d.path \in Seq(Names), k.path \in Seq(Names),
           NEW x1 \in N, x1.path = Append(d.path, a1), Vacant(N, Append(k.path, a0), x1),
           tree' = Shades(Carriage(N, Append(d.path, a1), Append(k.path, a0))), \A x \in N : x.path \in Seq(Names)
    PROVE  Atomic!Rename(Append(d.path, a1), Append(k.path, a0)) /\ tree' # tree
<1>1. /\ d \in N /\ k \in N /\ a1 \in Names /\ a0 \in Names /\ d.ent.type = "dir" /\ k.ent.type = "dir"
      /\ ~IsPrefix(x1.path, k.path) /\ (d # k \/ a1 # a0)
      /\ \A x \in N : x.path = Append(k.path, a0) =>
            /\ \A y \in N : IsPrefix(x.path, y.path) => y = x
            /\ (x.ent.type = "dir") = (x1.ent.type = "dir")
  BY DEF Journey, Vacant
<1>2. Append(d.path, a1) = Append(k.path, a0) <=> d.path = k.path /\ a1 = a0
  <2>1. a0 \in Names /\ a1 \in Names
    BY <1>1
  <2>2. d.path \in Seq(Names) /\ k.path \in Seq(Names)
    OBVIOUS
  <2> DEFINE s == d.path
             t == k.path
  <2> HIDE DEF s, t
  <2>3. s \in Seq(Names) /\ t \in Seq(Names)
    BY <2>2 DEF s, t
  <2>4. Append(s, a1) = Append(t, a0) <=> s = t /\ a1 = a0
    BY <2>1, <2>3, AppendInjective
  <2> QED
    BY <2>4 DEF s, t
<1> USE <1>1
<1> DEFINE p == Append(d.path, a1)
           q == Append(k.path, a0)
<1>3. p \in Atomic!Paths /\ q \in Atomic!Paths
  BY PathsIs
<1>4. ~IsPrefix(p, q)
  <2>1. p \in Seq(Names) /\ (p = q => d.path = k.path /\ a1 = a0)
    <3>1. p \in Seq(Names)
      OBVIOUS
    <3> QED
      BY <1>2, <3>1
  <2>2. p # q
    BY <2>1
  <2>3. IsPrefix(p, Append(k.path, a0)) <=> IsPrefix(p, k.path) \/ p = Append(k.path, a0)
    <3> HIDE DEF p
    <3> QED
      BY <2>1, PrefixStep
  <2> QED
    BY <2>2, <2>3
<1>5. ASSUME NEW x \in N PROVE Atomic!TypeAt(x.path) = x.ent.type /\ Atomic!IsAt(x.path)
  <2>1. Shade(x) \in tree /\ Shade(x).path = x.path /\ Shade(x).type = x.ent.type
    BY ShadesIs
  <2>2. ASSUME NEW z \in tree, z.path = x.path PROVE z = Shade(x)
    <3>1. PICK y \in N : z = Shade(y) /\ z.path = y.path
      BY ShadesIs
    <3>2. y = x
      BY <2>2, <3>1
    <3> QED
      BY <3>1, <3>2
  <2>3. (CHOOSE z \in tree : z.path = x.path) = Shade(x)
    BY <2>1, <2>2
  <2> QED
    BY <2>1, <2>3 DEF Atomic!TypeAt, Atomic!IsAt
<1>6. Atomic!IsAt(q) => Atomic!IsEmpty(q) /\ Atomic!IsDirAt(q) = Atomic!IsDirAt(p)
  <2> SUFFICES ASSUME Atomic!IsAt(q) PROVE Atomic!IsEmpty(q) /\ Atomic!IsDirAt(q) = Atomic!IsDirAt(p)
    OBVIOUS
  <2>1. PICK x \in N : x.path = q
    <3>1. \A z \in tree : \E x \in N : z.path = x.path
      BY ShadesIs
    <3>2. \E z \in tree : z.path = q
      BY DEF Atomic!IsAt
    <3> QED
      BY <3>1, <3>2
  <2>2. /\ \A y \in N : IsPrefix(q, y.path) => y = x
        /\ (x.ent.type = "dir") = (x1.ent.type = "dir")
    BY <2>1
  <2>3. Atomic!IsEmpty(q)
    BY <2>1, <2>2, EmptyAt
  <2>4. /\ Atomic!TypeAt(q) = x.ent.type /\ Atomic!IsAt(q)
        /\ Atomic!TypeAt(p) = x1.ent.type /\ Atomic!IsAt(p)
    BY <1>5, <2>1
  <2>5. Atomic!IsDirAt(q) = Atomic!IsDirAt(p)
    BY <2>2, <2>4 DEF Atomic!IsDirAt
  <2> QED
    BY <2>3, <2>5
<1>7. Atomic!IsAt(p)
  BY <1>5
<1> DEFINE U == Atomic!Under(p)
<1>8. tree' = (tree \ (Atomic!Under(p) \cup Atomic!Under(q))) \cup {Atomic!Moved(z, p, q) : z \in U}
  <2>1. ASSUME NEW y PROVE Shade(Carry(p, q, y)) = Atomic!Moved(Shade(y), p, q)
    <3>1. \A r, s, u : [[path |-> r, type |-> u] EXCEPT !.path = s] = [path |-> s, type |-> u]
      OBVIOUS
    <3>2. Shade(y).path = y.path /\ Shade(y).type = y.ent.type /\ Carry(p, q, y).path = Carried(p, q, y.path)
          /\ Carry(p, q, y).ent = y.ent
      BY DEF Shade, Carry
    <3>3. Atomic!Moved(Shade(y), p, q) = [Shade(y) EXCEPT !.path = Carried(p, q, y.path)]
      BY <3>2 DEF Atomic!Moved, Carried
    <3> HIDE DEF p, q
    <3>4. Atomic!Moved(Shade(y), p, q) = [path |-> Carried(p, q, y.path), type |-> y.ent.type]
      BY <3>1, <3>3 DEF Shade
    <3> QED
      BY <3>2, <3>4 DEF Shade
  <2> HIDE DEF p, q, U
  <2>2. /\ \A y \in N : Shade(y) \in U <=> IsPrefix(p, y.path)
        /\ \A y \in N : Shade(y) \in Atomic!Under(q) <=> IsPrefix(q, y.path)
        /\ \A z \in U : \E y \in N : z = Shade(y) /\ IsPrefix(p, y.path)
        /\ \A z \in tree : \E y \in N : z = Shade(y)
        /\ \A y \in N : Shade(y) \in tree
    <3>1. \A z \in tree : \E y \in N : z = Shade(y)
      BY DEF Shades
    <3>2. \A y \in N : Shade(y) \in tree
      BY DEF Shades
    <3>3. \A y \in N : Shade(y) \in Atomic!Under(q) <=> IsPrefix(q, y.path)
      BY UnderIs
    <3>4. /\ \A y \in N : Shade(y) \in U <=> IsPrefix(p, y.path)
          /\ \A z \in U : \E y \in N : z = Shade(y) /\ IsPrefix(p, y.path)
      BY UnderIs DEF U
    <3> QED
      BY <3>1, <3>2, <3>3, <3>4
  <2>3. tree' = Shades(Carriage(N, p, q))
    BY DEF p, q
  <2>4. ASSUME NEW w \in Carriage(N, p, q)
        PROVE  Shade(w) \in (tree \ (U \cup Atomic!Under(q))) \cup {Atomic!Moved(z, p, q) : z \in U}
    <3>1. CASE w \in N /\ Aside2(p, q, w.path)
      BY <2>2, <3>1 DEF Aside2
    <3>2. CASE \E y \in N : IsPrefix(p, y.path) /\ w = Carry(p, q, y)
      <4>1. PICK y \in N : IsPrefix(p, y.path) /\ w = Carry(p, q, y)
        BY <3>2
      <4>2. Shade(y) \in U /\ Shade(w) = Atomic!Moved(Shade(y), p, q)
        BY <2>1, <2>2, <4>1
      <4> QED
        BY <4>2
    <3> QED
      BY <3>1, <3>2 DEF Carriage
  <2>5. ASSUME NEW z \in tree \ (U \cup Atomic!Under(q)) PROVE z \in tree'
    <3>1. PICK y \in N : z = Shade(y)
      BY <2>2
    <3>2. y \in Carriage(N, p, q)
      BY <2>2, <2>5, <3>1 DEF Carriage, Aside2
    <3> QED
      BY <2>3, <3>1, <3>2 DEF Shades
  <2>6. ASSUME NEW z \in U PROVE Atomic!Moved(z, p, q) \in tree'
    <3>1. PICK y \in N : z = Shade(y) /\ IsPrefix(p, y.path)
      BY <2>2, <2>6
    <3>2. Carry(p, q, y) \in Carriage(N, p, q)
      BY <3>1 DEF Carriage
    <3> QED
      BY <2>1, <2>3, <3>1, <3>2 DEF Shades
  <2>7. \A z \in tree' : z \in (tree \ (U \cup Atomic!Under(q))) \cup {Atomic!Moved(x, p, q) : x \in U}
    <3>1. ASSUME NEW z \in tree' PROVE \E w \in Carriage(N, p, q) : z = Shade(w)
      BY <2>3 DEF Shades
    <3> DEFINE W == (tree \ (U \cup Atomic!Under(q))) \cup {Atomic!Moved(x, p, q) : x \in U}
    <3>2. \A w \in Carriage(N, p, q) : Shade(w) \in W
      BY <2>4
    <3> HIDE DEF W
    <3>3. \A z \in tree' : z \in W
      BY <3>1, <3>2
    <3> QED
      BY <3>3 DEF W
  <2> QED
    BY <2>5, <2>6, <2>7 DEF U
<1>9. p \in Seq(Names) /\ q \in Seq(Names)
  OBVIOUS
<1>10. \A x \in N : x.path = q => \A y \in N : IsPrefix(q, y.path) => y = x
  OBVIOUS
<1>11. tree = Shades(N) /\ tree' = Shades(Carriage(N, p, q)) /\ x1 \in N /\ x1.path = p
  OBVIOUS
<1> HIDE DEF p, q
<1>12. Atomic!Rename(p, q)
  <2>1. ~Atomic!IsPrefix(p, q)
    BY <1>4, PrefixSame
  <2>2. tree' = (tree \ (Atomic!Under(p) \cup Atomic!Under(q))) \cup {Atomic!Moved(z, p, q) : z \in Atomic!Under(p)}
    BY <1>8
  <2> HIDE DEF U
  <2> QED
    BY <1>3, <1>6, <1>7, <2>1, <2>2 DEF Atomic!Rename
<1>13. ASSUME tree' = tree PROVE FALSE
  <2>1. IsPrefix(p, p)
    BY <1>9, PrefixSelf
  <2>2. \A z \in tree : \E x \in N : z = Shade(x) /\ z.path = x.path
    BY <1>11, ShadesIs
  <2>3. \A w : Shade(w).path = w.path
    BY DEF Shade
  <2>4. PICK w \in Carriage(N, p, q) : w.path = p
    <3>1. Shade(x1) \in Shades(Carriage(N, p, q)) /\ Shade(x1).path = p
      BY <1>11, <1>13, <2>3 DEF Shades
    <3> QED
      BY <2>3, <3>1 DEF Shades
  <2>5. PICK y \in N : IsPrefix(p, y.path) /\ w = Carry(p, q, y)
    BY <2>1, <2>4 DEF Carriage, Aside2
  <2>6. IsPrefix(q, p)
    <3>1. y.path \in Seq(Names) /\ w.path = Carried(p, q, y.path)
      BY <2>5 DEF Carry
    <3> QED
      BY <1>9, <2>4, <2>5, <3>1, CarriedOver
  <2>7. PICK x \in N : x.path = q
    <3>1. Carry(p, q, x1) \in Carriage(N, p, q)
      BY <1>11, <2>1 DEF Carriage
    <3>2. Carry(p, q, x1).path = q
      <4>1. Carried(p, q, p) = q
        BY <1>1, <1>9, <2>1, CarriedIs
      <4> QED
        BY <1>11, <4>1 DEF Carry
    <3>3. Shade(Carry(p, q, x1)) \in tree /\ Shade(Carry(p, q, x1)).path = q
      BY <1>11, <1>13, <2>3, <3>1, <3>2 DEF Shades
    <3> QED
      BY <2>2, <3>3
  <2>8. x1 = x
    BY <1>10, <1>11, <2>6, <2>7
  <2>9. p = q
    BY <1>11, <2>7, <2>8
  <2> QED
    BY <1>4, <2>1, <2>9
<1> QED
  BY <1>12, <1>13 DEF p, q

(* The tree that a mount finds on a disk that is in order.                    *)
LEMMA MountedIs ==
    ASSUME NEW b \in Disks, NEW n, NEW P, NEW C, NEW mv, NEW g, Plan(n, P, C, mv, g), g.moves = mv, Reads(b, n, P, C)
    PROVE  /\ Mounted(b) = Shades(Nodes(b, mv))
           /\ Stands(b, n, P, C) /\ Moving(n, P, mv)
<1>1. Threaded(b, n, P) /\ Ms(b, n, P) = Along(n, P, C)
  BY ReadsThread DEF Plan
<1>2. GState(b) = g
  BY <1>1, GStateIs DEF Plan
<1>3. Mounted(b) = Shades(Nodes(b, mv))
  BY <1>2 DEF Mounted, Tree, Shades, Shade
<1>4. Stands(b, n, P, C)
  BY DEF Stands, Plan, Fits
<1>5. Moving(n, P, mv)
  <2>1. mv \in SUBSET Moves
    BY DEF Plan, Gs
  <2> QED
    BY <2>1 DEF Moving, Plan, Fits
<1> QED
  BY <1>3, <1>4, <1>5

(* Directories that list the same make the same tree.                         *)
LEMMA CutSame ==
    ASSUME blk \in Disks, NEW n, NEW P, NEW C, NEW g, Plan(n, P, C, {}, g), g.moves = {}, Reads(blk, n, P, C),
           blk' \in Disks, NEW n2, NEW P2, NEW C2, NEW g2, Plan(n2, P2, C2, {}, g2), g2.moves = {},
           Reads(blk', n2, P2, C2), Keeps(PairsOf(n, P), C, PairsOf(n2, P2), C2, {})
    PROVE  Mounted(blk) = Mounted(blk') /\ Nodes(blk, {}) = Nodes(blk', {})
<1>1. Stands(blk, n, P, C) /\ Stands(blk', n2, P2, C2) /\ Moving(n, P, {}) /\ Moving(n2, P2, {})
  BY DEF Stands, Plan, Fits, Moving
<1>2. SameLists(PairsOf(n, P), C, {}, PairsOf(n2, P2), C2, {})
  BY DEF SameLists, Keeps, Lasts, Alike
<1>3. Nodes(blk, {}) = Nodes(blk', {})
  BY <1>1, <1>2, NodesAgree
<1>4. /\ Threaded(blk, n, P) /\ Ms(blk, n, P) = Along(n, P, C)
      /\ Threaded(blk', n2, P2) /\ Ms(blk', n2, P2) = Along(n2, P2, C2)
  BY ReadsThread DEF Plan
<1>5. GState(blk) = g
  BY <1>4, GStateIs DEF Plan
<1>6. GState(blk') = g2
  BY <1>4, GStateIs DEF Plan
<1> QED
  BY <1>3, <1>5, <1>6 DEF Mounted, Tree

(* Its nodes.                                                                 *)
LEMMA NodesOf ==
    ASSUME NEW b \in Disks, NEW n, NEW P, NEW C, NEW mv, NEW g, Plan(n, P, C, mv, g), g.moves = mv, Reads(b, n, P, C),
           Sorted(PairsOf(n, P), C)
    PROVE  Grown(Nodes(b, mv), Firsts(n, P, C), PairsOf(n, P), C, mv)
<1>1. Stands(b, n, P, C) /\ Moving(n, P, mv)
  BY MountedIs
<1>2. Listing(Firsts(n, P, C), PairsOf(n, P), C, mv)
  BY PlanListing DEF Plan, Firsts
<1>3. Firsts(n, P, C) \subseteq PairsOf(n, P)
  BY DEF Firsts
<1> QED
  BY <1>1, <1>2, <1>3, NodesGrown

(* What is planned for the nodes, and what they are after the commit.         *)
LEMMA KeptNodes ==
    ASSUME NEW n, NEW P, NEW C, NEW C1, NEW i, NEW gs, NEW K, Bound(n, P, C, C1, i, gs, K), Altered(n, P, C, C1),
           gs.moves = {} \/ ~Bare(C1[P[i]]), Moved(gs),
           \E n2, P2, C2 : /\ Plan(n2, P2, C2, gs.moves, OnDisk(gs))
                         /\ Kept(blk, blk', n, P, C, C1, i, n2, P2, C2)
    PROVE  /\ Grown(Nodes(blk', gs.moves), Firsts(n, P, C), PairsOf(n, P), C1, gs.moves)
           /\ tree' = Shades(Nodes(blk', gs.moves))
<1> DEFINE H  == Firsts(n, P, C)
           S  == PairsOf(n, P)
           mv == gs.moves
<1>1. PICK n2, P2, C2 : /\ Plan(n2, P2, C2, gs.moves, OnDisk(gs))
                        /\ Kept(blk, blk', n, P, C, C1, i, n2, P2, C2)
  OBVIOUS
<1> DEFINE S2 == PairsOf(n2, P2)
<1>2. blk' \in Disks /\ Reads(blk', n2, P2, C2) /\ H \subseteq S2
  BY <1>1 DEF Kept, Firsts
<1>3. OnDisk(gs).moves = mv
  BY DEF OnDisk
<1>4. /\ Mounted(blk') = Shades(Nodes(blk', mv))
      /\ Stands(blk', n2, P2, C2) /\ Moving(n2, P2, mv)
  BY <1>1, <1>2, <1>3, MountedIs
<1>5. Listing(H, S, C1, mv)
  <2>1. Fits(S, Hards(n, P, C1), C1, mv) /\ Sorted(S, C1) /\ H = S \ Hards(n, P, C1)
    BY DEF Bound, Altered, Firsts
  <2> QED
    BY <2>1, PlanListing DEF Altered
<1>6. \A x \in H : \A a, e : Lists(S, C1, mv, x, a, e) <=> Lists(S2, C2, mv, x, a, e)
  <2>1. \A v \in mv : v.pair \in Untouched(n, P, C1, i)
    BY DEF Bound, Fits, Still, Untouched
  <2>2. Alike(S, C1, S2, C2, Untouched(n, P, C1, i))
    BY <1>1 DEF Kept, Keeps, Lasts
  <2>3. \A x \in H : x \in S \cap S2
    BY <1>2 DEF Firsts
  <2> HIDE DEF H, S, S2, mv
  <2> QED
    BY <2>1, <2>2, <2>3 DEF Alike
<1> HIDE DEF H, S, S2, mv
<1>7. Listing(H, S2, C2, mv)
  BY <1>5, <1>6, ListingSame
<1>8. Grown(Nodes(blk', mv), H, S2, C2, mv)
  BY <1>2, <1>4, <1>7, NodesGrown DEF S2
<1>9. Grown(Nodes(blk', mv), H, S, C1, mv)
  <2>1. \A x \in H : \A a, e : Lists(S2, C2, mv, x, a, e) <=> Lists(S, C1, mv, x, a, e)
    BY <1>6
  <2> QED
    BY <1>5, <1>8, <2>1, GrownSame
<1>10. tree' = Shades(Nodes(blk', mv))
  BY <1>4 DEF Moved
<1> QED
  BY <1>9, <1>10 DEF H, S, mv

(* The entries of mv hidden, directories list what they do by C1.             *)
Listed(S, C, mv, C1) == \A x, a, e : Lists(S, C, mv, x, a, e) <=> Lists(S, C1, {}, x, a, e)

(* ... which are those of before when no directory lists other names.         *)
LEMMA KeptMounted ==
    ASSUME blk \in Disks, tree = Mounted(blk), NEW n, NEW P, NEW C, NEW mv, NEW g, Plan(n, P, C, mv, g), g.moves = mv,
           Reads(blk, n, P, C), NEW C1, NEW i, NEW gs, gs.moves = {}, Moved(gs),
           Listed(PairsOf(n, P), C, mv, C1),
           \E n2, P2, C2 : /\ Plan(n2, P2, C2, gs.moves, OnDisk(gs))
                         /\ Kept(blk, blk', n, P, C, C1, i, n2, P2, C2)
    PROVE  tree' = tree
<1> DEFINE S  == PairsOf(n, P)
<1>1. PICK n2, P2, C2 : /\ Plan(n2, P2, C2, {}, OnDisk(gs))
                        /\ Kept(blk, blk', n, P, C, C1, i, n2, P2, C2)
  OBVIOUS
<1> DEFINE S2 == PairsOf(n2, P2)
<1>2. blk' \in Disks /\ Reads(blk', n2, P2, C2)
  BY <1>1 DEF Kept
<1>3. OnDisk(gs).moves = {}
  BY DEF OnDisk
<1>4. /\ Mounted(blk') = Shades(Nodes(blk', {}))
      /\ Stands(blk', n2, P2, C2) /\ Moving(n2, P2, {})
  BY <1>1, <1>2, <1>3, MountedIs
<1>5. /\ Mounted(blk) = Shades(Nodes(blk, mv))
      /\ Stands(blk, n, P, C) /\ Moving(n, P, mv)
  BY MountedIs
<1>6. SameLists(S, C, mv, S2, C2, {})
  <2>1. Alike(S, C1, S2, C2, Untouched(n, P, C1, i))
    BY <1>1 DEF Kept, Keeps, Lasts
  <2> HIDE DEF S, S2
  <2>2. ASSUME NEW x \in S \cap S2 PROVE \A a, e : Lists(S, C1, {}, x, a, e) <=> Lists(S2, C2, {}, x, a, e)
    BY <2>1 DEF Alike
  <2>3. ASSUME NEW x \in S \cap S2 PROVE \A a, e : Lists(S, C, mv, x, a, e) <=> Lists(S2, C2, {}, x, a, e)
    BY <2>2 DEF S, Listed
  <2> QED
    BY <2>3 DEF SameLists
<1>7. Nodes(blk, mv) = Nodes(blk', {})
  BY <1>4, <1>5, <1>6, NodesAgree
<1> QED
  BY <1>4, <1>5, <1>7 DEF Moved

(* What lfs_dir_find finds for a name of directory d is one of its pairs, and *)
(* no other directory's, with room for the name.                              *)
LEMMA PlaceFound ==
    ASSUME blk \in Disks, gdisk.moves = {}, NEW n, NEW P, NEW C, NEW g, Plan(n, P, C, {}, g), Reads(blk, n, P, C),
           Sorted(PairsOf(n, P), C), NEW d \in Dirs, NEW nm \in Names, NEW j \in 1 .. n,
           FindIn(d, nm).pair = P[j]
    PROVE  /\ Room(PairsOf(n, P), C, P[j], nm)
           /\ AloneIn(Firsts(n, P, C), PairsOf(n, P), C, d.ent.pair, P[j])
<1>1. InOrder(blk, n, P, C) /\ Stands(blk, n, P, C) /\ Line(n, P, Along(n, P, C))
  BY DEF InOrder, Stands, Plan, Fits
<1>2. d \in Nodes(blk, {}) /\ d.ent.type = "dir"
  BY DEF Dirs
<1>3. PICK i : Starts(n, P, C, i) /\ P[i] = d.ent.pair
  BY <1>1, <1>2, NodeOn
<1>4. PICK k : /\ InChain(n, P, C, i, k) /\ Find(Chain(blk, P[i]), {}, nm) = Fetch(blk, P[k])
               /\ Room(PairsOf(n, P), C, P[k], nm)
  BY <1>1, <1>3, RoomFound
<1>5. /\ n \in Nat \ {0} /\ i \in 1 .. n /\ k \in 1 .. n
      /\ \A u, v \in 1 .. n : P[u] = P[v] => u = v
  <2>1. n \in Nat \ {0} /\ \A u, v \in 1 .. n : P[u] = P[v] => u = v
    BY <1>1, LineAlong
  <2>2. i \in 1 .. n /\ k \in 1 .. n
    BY <1>4, <2>1 DEF InChain
  <2> QED
    BY <2>1, <2>2
<1>6. k = j
  <2>1. FindIn(d, nm) = Fetch(blk, P[k])
    BY <1>3, <1>4 DEF FindIn
  <2>2. Fetch(blk, P[k]).pair = P[k]
    BY DEF Fetch
  <2> QED
    BY <1>5, <2>1, <2>2
<1>7. P[i] \in PairsOf(n, P) \ Hards(n, P, C)
  <2>1. ASSUME NEW u \in 1 .. n - 1, C[P[u]].split, P[i] = P[u + 1] PROVE FALSE
    <3>1. i = u + 1
      BY <1>5, <2>1
    <3> QED
      BY <1>3, <1>5, <2>1, <3>1 DEF Starts
  <2> QED
    BY <1>5, <2>1 DEF PairsOf, Hards
<1>8. Part(PairsOf(n, P), C, P[i], P[j])
  BY <1>1, <1>4, <1>5, <1>6, PartIs
<1> QED
  BY <1>1, <1>3, <1>4, <1>6, <1>7, <1>8, PartAlone DEF Firsts

(* A new name in a pair of a directory makes one node of the name tree.       *)
LEMMA AddsNode ==
    ASSUME NEW N, NEW N1, NEW n, NEW P, NEW C, NEW C1, Grown(N, Firsts(n, P, C), PairsOf(n, P), C, {}),
           Grown(N1, Firsts(n, P, C), PairsOf(n, P), C1, {}), tree = Shades(N), tree' = Shades(N1),
           Altered(n, P, C, C1), Sorted(PairsOf(n, P), C1), NEW d \in N, d.ent.type = "dir",
           NEW p, AloneIn(Firsts(n, P, C), PairsOf(n, P), C, d.ent.pair, p),
           NEW a0 \in Names, OneEnt(PairsOf(n, P), C, C1, p, a0), C[p].ents[a0] = NoEnt,
           C1[p].ents[a0].type \in Files \cup {"dir"},
           C1[p].ents[a0].type = "dir" => Blank(C1[C1[p].ents[a0].pair]), NEW T, C1[p].ents[a0].type \in T
    PROVE  Atomic!Make(Append(d.path, a0), T) /\ tree' # tree
<1> DEFINE H  == Firsts(n, P, C)
           S  == PairsOf(n, P)
           e0 == C1[p].ents[a0]
<1>1. Single(H, S, C1)
  BY SortedSingle DEF Altered, Firsts
<1>2. e0 # NoEnt
  BY ThreadAssumption DEF NoEnt
<1> HIDE DEF H
<1>3. /\ Gains(H, S, C, {}, C1, {}, d.ent.pair, a0, e0)
      /\ \A e : ~Lists(S, C, {}, d.ent.pair, a0, e)
  BY <1>1, <1>2, ListsAdd DEF H
<1>4. Barren(S, C1, {}, e0)
  BY BlankBarren DEF Barren
<1> HIDE DEF S, e0
<1>5. N1 = N \cup {Node(d, a0, e0)} /\ \A x \in N : x.path # Append(d.path, a0)
  <2>1. Grown(N, H, S, C, {}) /\ Grown(N1, H, S, C1, {})
    BY DEF H, S
  <2> QED
    BY <1>3, <1>4, <2>1, NodesAdd
<1>6. \A x, y \in N : x.path = y.path => x = y
  BY GrownIs
<1>7. tree' = Shades(N \cup {Node(d, a0, e0)}) /\ e0.type \in T
  BY <1>5 DEF e0
<1> QED
  BY <1>5, <1>6, <1>7, MakesNode

(* A name taken out deletes one,                                              *)
LEMMA RemovesNode ==
    ASSUME NEW N, NEW N1, NEW n, NEW P, NEW C, NEW C1, Grown(N, Firsts(n, P, C), PairsOf(n, P), C, {}),
           Grown(N1, Firsts(n, P, C), PairsOf(n, P), C1, {}), tree = Shades(N), tree' = Shades(N1),
           Line(n, P, Along(n, P, C)), Sorted(PairsOf(n, P), C), NEW d \in N, d.ent.type = "dir",
           NEW p, AloneIn(Firsts(n, P, C), PairsOf(n, P), C, d.ent.pair, p),
           NEW a0 \in Names, OneEnt(PairsOf(n, P), C, C1, p, a0), C[p].ents[a0] # NoEnt, C1[p].ents[a0] = NoEnt,
           C[p].ents[a0].type = "dir" => Blank(C[C[p].ents[a0].pair])
    PROVE  Atomic!Delete(Append(d.path, a0)) /\ tree' # tree
<1> DEFINE H  == Firsts(n, P, C)
           S  == PairsOf(n, P)
           e0 == C[p].ents[a0]
           x0 == Node(d, a0, e0)
<1>1. Single(H, S, C)
  BY SortedSingle DEF Firsts
<1> HIDE DEF H
<1>2. Loses(H, S, C, {}, C1, {}, d.ent.pair, a0) /\ Lists(S, C, {}, d.ent.pair, a0, e0)
  BY <1>1, ListsRemove, ListsBy DEF H
<1>3. Barren(S, C, {}, e0)
  BY BlankBarren DEF Barren
<1> HIDE DEF S, e0
<1>4. /\ x0 \in N /\ N1 = N \ {x0}
      /\ \A x \in N : IsPrefix(Append(d.path, a0), x.path) => x = x0
  <2>1. Grown(N, H, S, C, {}) /\ Grown(N1, H, S, C1, {})
    BY DEF H, S
  <2> QED
    BY <1>2, <1>3, <2>1, NodesRemove
<1>5. /\ \A x, y \in N : x.path = y.path => x = y
      /\ d.path \in Seq(Names)
  BY GrownIs
<1>6. x0.path = Append(d.path, a0)
  BY DEF Node
<1> HIDE DEF x0
<1>7. \A x \in N : IsPrefix(x0.path, x.path) => x = x0
  BY <1>4, <1>6
<1>8. tree' = Shades(N \ {x0}) /\ x0 \in N
  BY <1>4
<1> QED
  BY <1>5, <1>6, <1>7, <1>8, DeletesNode

(* ... and one put under another name renames what is under it.               *)
LEMMA MovesNode ==
    ASSUME NEW N, NEW N1, NEW n, NEW P, NEW C, NEW C1, NEW mv, Grown(N, Firsts(n, P, C), PairsOf(n, P), C, {}),
           Grown(N1, Firsts(n, P, C), PairsOf(n, P), C1, mv), tree = Shades(N), tree' = Shades(N1),
           Line(n, P, Along(n, P, C)), Sorted(PairsOf(n, P), C), Altered(n, P, C, C1), Sorted(PairsOf(n, P), C1),
           NEW d \in N, d.ent.type = "dir", NEW h, AloneIn(Firsts(n, P, C), PairsOf(n, P), C, d.ent.pair, h),
           NEW k \in N, k.ent.type = "dir", NEW p, AloneIn(Firsts(n, P, C), PairsOf(n, P), C, k.ent.pair, p),
           NEW a1 \in Names, NEW a0 \in Names, Replaced(PairsOf(n, P), C, C1, mv, p, a0, h, a1),
           C1[p].tail = C[p].tail, C[h].ents[a1] # NoEnt,
           ~IsPrefix(Append(d.path, a1), k.path), d # k \/ a1 # a0,
           C[p].ents[a0] # NoEnt => (C[p].ents[a0].type = "dir") = (C[h].ents[a1].type = "dir"),
           C[p].ents[a0].type = "dir" => Blank(C[C[p].ents[a0].pair])
    PROVE  Atomic!Rename(Append(d.path, a1), Append(k.path, a0)) /\ tree' # tree
<1> DEFINE H  == Firsts(n, P, C)
           S  == PairsOf(n, P)
           e1 == C[h].ents[a1]
           x1 == Node(d, a1, e1)
<1>1. Single(H, S, C) /\ Single(H, S, C1)
  BY SortedSingle DEF Altered, Firsts
<1> HIDE DEF H
<1>2. /\ Shifts(H, S, C, {}, C1, mv, d.ent.pair, a1, k.ent.pair, a0, e1)
      /\ Lists(S, C, {}, d.ent.pair, a1, e1)
  BY <1>1, ListsMove, ListsBy DEF H
<1>3. ASSUME NEW e, Lists(S, C, {}, k.ent.pair, a0, e)
      PROVE  Barren(S, C, {}, e) /\ (e.type = "dir") = (e1.type = "dir")
  <2>1. PICK q \in S : Part(S, C, k.ent.pair, q) /\ Entry(C, {}, q, a0, e)
    BY <1>3 DEF Lists
  <2>2. \A q2 \in S : C1[q2].split = C[q2].split /\ (C[q2].split => C1[q2].tail = C[q2].tail)
    BY DEF Replaced
  <2>3. \A x, q2 : Part(S, C, x, q2) <=> Part(S, C1, x, q2)
    BY <2>2, PartSame
  <2>4. k.ent.pair \in H /\ p \in S /\ Part(S, C, k.ent.pair, p)
    BY DEF AloneIn, H
  <2>5. q = p
    <3>1. CASE q # p
      <4>1. C1[q].ents[a0] # NoEnt /\ C1[p].ents[a0] # NoEnt
        BY <2>1, <3>1 DEF Replaced, Entry
      <4>2. Part(S, C1, k.ent.pair, q) /\ Part(S, C1, k.ent.pair, p)
        BY <2>1, <2>3, <2>4
      <4> QED
        BY <1>1, <2>4, <4>1, <4>2 DEF Single
    <3> QED
      BY <3>1
  <2>6. e = C[p].ents[a0] /\ e # NoEnt
    BY <2>1, <2>5 DEF Entry
  <2> QED
    BY <2>6, BlankBarren DEF Barren
<1> HIDE DEF S, e1
<1>4. Grown(N, H, S, C, {}) /\ Grown(N1, H, S, C1, mv)
  BY DEF H, S
<1>5. Journey(N, d, a1, k, a0)
  BY DEF Journey
<1>6. N1 = Carriage(N, Append(d.path, a1), Append(k.path, a0))
  BY <1>2, <1>4, <1>5, NodesMove
<1>7. /\ \A x, y \in N : x.path = y.path => x = y
      /\ d.path \in Seq(Names) /\ k.path \in Seq(Names) /\ \A x \in N : x.path \in Seq(Names)
  BY GrownIs
<1>8. x1 \in N /\ x1.path = Append(d.path, a1) /\ x1.ent = e1
  BY <1>2, <1>4, GrownIs DEF Node
<1>9. ASSUME NEW x \in N, x.path = Append(k.path, a0)
      PROVE  /\ \A y \in N : IsPrefix(x.path, y.path) => y = x
             /\ (x.ent.type = "dir") = (x1.ent.type = "dir")
  <2>1. Lists(S, C, {}, k.ent.pair, a0, x.ent)
    BY <1>4, <1>9, NodeBy
  <2>2. Barren(S, C, {}, x.ent) /\ (x.ent.type = "dir") = (e1.type = "dir")
    BY <1>3, <2>1
  <2> QED
    BY <1>4, <1>8, <2>2, NodeEmpty
<1> HIDE DEF x1
<1>10. tree' = Shades(Carriage(N, Append(d.path, a1), Append(k.path, a0)))
  BY <1>6
<1> QED
  <2>1. x1 \in N /\ x1.path = Append(d.path, a1)
    BY <1>8
  <2>2. Vacant(N, Append(k.path, a0), x1)
    BY <1>9 DEF Vacant
  <2> QED
    BY <1>7, <1>10, <1>5, <2>1, <2>2, RenamesNode

(* The nodes before a commit to a pair of a directory, and after it.          *)
Turned(n, P, C, C1, mv) ==
    /\ tree = Shades(Nodes(blk, {})) /\ Grown(Nodes(blk, {}), Firsts(n, P, C), PairsOf(n, P), C, {})
    /\ tree' = Shades(Nodes(blk', mv)) /\ Grown(Nodes(blk', mv), Firsts(n, P, C), PairsOf(n, P), C1, mv)
    /\ Altered(n, P, C, C1) /\ Line(n, P, Along(n, P, C)) /\ Sorted(PairsOf(n, P), C) /\ Sorted(PairsOf(n, P), C1)

(* A commit that sets what one pair holds is such a commit.                   *)
LEMMA EditTurns ==
    ASSUME RamInv, gdisk.moves = {}, NEW n, NEW P, NEW C, Plan(n, P, C, {}, OnDisk(gdisk)), Reads(blk, n, P, C),
           Sorted(PairsOf(n, P), C), NEW i \in 1 .. n, NEW ents \in [Names -> Ents],
           NEW gs, NEW K, Bound(n, P, C, Edited(C, P[i], ents), i, gs, K),
           gs.moves = {} \/ \E a \in Names : ents[a] # NoEnt, Moved(gs),
           \E n2, P2, C2 : /\ Plan(n2, P2, C2, gs.moves, OnDisk(gs))
                         /\ Kept(blk, blk', n, P, C, Edited(C, P[i], ents), i, n2, P2, C2)
    PROVE  Turned(n, P, C, Edited(C, P[i], ents), gs.moves)
<1> DEFINE C1 == Edited(C, P[i], ents)
<1>1. Altered(n, P, C, C1)
  BY EditedAltered
<1>2. blk \in Disks /\ tree = Mounted(blk) /\ OnDisk(gdisk).moves = {}
  BY DEF RamInv, OnDisk
<1>3. Mounted(blk) = Shades(Nodes(blk, {}))
  BY <1>2, MountedIs
<1>4. Grown(Nodes(blk, {}), Firsts(n, P, C), PairsOf(n, P), C, {})
  BY <1>2, NodesOf
<1>5. C1[P[i]].ents = ents
  BY EditedChanged DEF Changed
<1> HIDE DEF C1
<1>6. gs.moves = {} \/ ~Bare(C1[P[i]])
  BY <1>5 DEF Bare
<1>7. Bound(n, P, C, C1, i, gs, K)
  BY DEF C1
<1>8. \E n2, P2, C2 : /\ Plan(n2, P2, C2, gs.moves, OnDisk(gs))
                     /\ Kept(blk, blk', n, P, C, C1, i, n2, P2, C2)
  BY DEF C1
<1>9. /\ Grown(Nodes(blk', gs.moves), Firsts(n, P, C), PairsOf(n, P), C1, gs.moves)
      /\ tree' = Shades(Nodes(blk', gs.moves))
  BY <1>1, <1>6, <1>7, <1>8, KeptNodes
<1>10. Turned(n, P, C, C1, gs.moves)
  BY <1>1, <1>2, <1>3, <1>4, <1>7, <1>9 DEF Turned, Bound, Plan
<1> QED
  BY <1>10 DEF C1
=============================================================================
