---------------------------- MODULE LfsMdirProofs ----------------------------
(***************************************************************************)
(* Proofs that a metadata pair is an atomic cell, for every number of       *)
(* blocks, slots, revisions, commits and blocks that go bad, as long as a    *)
(* commit that fails leaves no handle on the pair open.                     *)
(***************************************************************************)
EXTENDS LfsMdir, WellFoundedInduction, TLAPS

(* Numbers have least elements.                                              *)
LEMMA LeastNumber ==
    ASSUME NEW T \in SUBSET Nat, T # {} PROVE \E x \in T : \A y \in T : x <= y
<1> DEFINE R == OpToRel(<, Nat)
<1>1. IsWellFoundedOn(R, Nat)
  BY NatLessThanWellFounded
<1>2. \E x \in T : \A y \in T : ~(<<y, x>> \in R)
  <2> HIDE DEF R
  <2> QED
    BY <1>1, WFMin
<1>3. \A x, y \in Nat : <<x, y>> \in R <=> x < y
  BY DEF OpToRel
<1>4. PICK x \in T : \A y \in T : ~(<<y, x>> \in R)
  BY <1>2
<1>5. ASSUME NEW y \in T PROVE x <= y
  <2>0. x \in Nat /\ y \in Nat
    OBVIOUS
  <2>1. ~(<<y, x>> \in R)
    BY <1>4
  <2>2. ~(y < x)
    <3> HIDE DEF R
    <3> QED
      BY <1>3, <2>0, <2>1
  <2> QED
    BY <2>0, <2>2
<1> QED
  BY <1>5

(* The log of a block has one end (lfs.c 1143-1300).                          *)
LEMMA LogHasEnd ==
    ASSUME NEW block
    PROVE  /\ Commits(block) \in 1 .. SLOTS
           /\ \A i \in 2 .. Commits(block) : Follows(block, i)
           /\ Commits(block) < SLOTS => ~Follows(block, Commits(block) + 1)
<1>1. SLOTS \in Nat /\ SLOTS > 0
  BY MdirAssumption
<1> DEFINE Stops == {n \in 1 .. SLOTS : n < SLOTS => ~Follows(block, n + 1)}
<1>2. Stops \in SUBSET Nat /\ SLOTS \in Stops
  BY <1>1
<1>3. PICK n \in Stops : \A m \in Stops : n <= m
  BY <1>2, LeastNumber
<1>4. n \in 1 .. SLOTS /\ (n < SLOTS => ~Follows(block, n + 1))
  OBVIOUS
<1>5. ASSUME NEW i \in 2 .. n PROVE Follows(block, i)
  <2>1. i - 1 \in 1 .. SLOTS /\ i - 1 < n /\ i - 1 + 1 = i
    BY <1>1, <1>4
  <2>2. i - 1 \notin Stops
    BY <1>3, <1>4, <2>1
  <2> QED
    BY <2>1, <2>2
<1>6. \E m \in 1 .. SLOTS :
          /\ \A i \in 2 .. m : Follows(block, i)
          /\ m < SLOTS => ~Follows(block, m + 1)
  BY <1>4, <1>5
<1> QED
  BY <1>6 DEF Commits

LEMMA LogEndIs ==
    ASSUME NEW block, NEW n \in 1 .. SLOTS,
           \A i \in 2 .. n : Follows(block, i),
           n < SLOTS => ~Follows(block, n + 1)
    PROVE  Commits(block) = n
<1> DEFINE m == Commits(block)
<1>1. /\ m \in 1 .. SLOTS /\ \A i \in 2 .. m : Follows(block, i)
      /\ m < SLOTS => ~Follows(block, m + 1)
  BY LogHasEnd
<1> HIDE DEF m
<1>2. SLOTS \in Nat
  BY MdirAssumption
<1>3. ~(m < n)
  BY <1>1, <1>2
<1>4. ~(n < m)
  BY <1>1, <1>2
<1> QED
  BY <1>1, <1>2, <1>3, <1>4 DEF m
-----------------------------------------------------------------------------
(* Revisions modulo REVS (lfs_util.h 164-166, lfs.c 1805-1818).               *)
LEMMA ModInt ==
    ASSUME NEW m \in Nat, m > 0, NEW x \in Int
    PROVE  /\ 0 <= x /\ x < m => x % m = x
           /\ m <= x /\ x < 2 * m => x % m = x - m
           /\ -m <= x /\ x < 0 => x % m = x + m
           /\ x % m \in 0 .. m - 1
  BY SMT

LEMMA Counts ==
    /\ REVS \in Nat /\ REVS = 2 * (REVS \div 2) /\ REVS \div 2 \in Nat
    /\ Modulus \in Nat /\ Modulus >= 3 /\ Modulus < REVS \div 2
<1>1. /\ BlockCycles \in Nat /\ BlockCycles > 0 /\ REVS \in Nat /\ REVS % 2 = 0
      /\ Modulus < REVS \div 2
  BY MdirAssumption
<1>2. REVS = 2 * (REVS \div 2) /\ REVS \div 2 \in Nat
  BY <1>1
<1>3. Modulus \in Nat /\ Modulus >= 3
  BY <1>1 DEF Modulus
<1> QED
  BY <1>1, <1>2, <1>3

LEMMA NewerNext ==
    ASSUME NEW r \in 0 .. REVS - 1
    PROVE  (r + 1) % REVS \in 0 .. REVS - 1 /\ Newer((r + 1) % REVS, r)
<1>1. REVS \in Nat /\ REVS >= 8 /\ REVS = 2 * (REVS \div 2) /\ REVS \div 2 \in Nat
  BY Counts
<1>2. CASE r + 1 < REVS
  BY <1>1, <1>2, ModInt DEF Newer
<1>3. CASE r + 1 = REVS
  <2>1. (r + 1) % REVS = 0
    BY <1>1, <1>3, ModInt
  <2>2. (0 - r) % REVS = 1
    BY <1>1, <1>3, ModInt
  <2> QED
    BY <1>1, <2>1, <2>2 DEF Newer
<1> QED
  BY <1>1, <1>2, <1>3

LEMMA NewerAnti ==
    ASSUME NEW a \in 0 .. REVS - 1, NEW b \in 0 .. REVS - 1, Newer(a, b)
    PROVE  ~Newer(b, a)
<1>1. REVS \in Nat /\ REVS >= 8 /\ REVS = 2 * (REVS \div 2) /\ REVS \div 2 \in Nat
  BY Counts
<1>2. (a - b) % REVS \in 1 .. REVS \div 2 - 1
  BY DEF Newer
<1>3. CASE a >= b
  <2>1. (a - b) % REVS = a - b
    BY <1>1, <1>3, ModInt
  <2>2. (b - a) % REVS = b - a + REVS
    BY <1>1, <1>2, <1>3, <2>1, ModInt
  <2> QED
    BY <1>1, <1>2, <2>1, <2>2 DEF Newer
<1>4. CASE a < b
  <2>1. (a - b) % REVS = a - b + REVS
    BY <1>1, <1>4, ModInt
  <2>2. (b - a) % REVS = b - a
    BY <1>1, <1>4, ModInt
  <2> QED
    BY <1>1, <1>2, <2>1, <2>2 DEF Newer
<1> QED
  BY <1>1, <1>3, <1>4

LEMMA AlignedAhead ==
    ASSUME NEW r \in 0 .. REVS - 1
    PROVE  AlignUp(r) \in 0 .. REVS - 1 /\ Newer((AlignUp(r) + 1) % REVS, r)
<1> DEFINE M == Modulus
           sum == (r + M - 1) % REVS
<1>1. /\ REVS \in Nat /\ REVS >= 8 /\ REVS = 2 * (REVS \div 2) /\ REVS \div 2 \in Nat
      /\ M \in Nat /\ M >= 3 /\ M < REVS \div 2
  BY Counts
<1>2. AlignUp(r) = sum - (sum % M)
  BY DEF AlignUp
<1> HIDE DEF M
<1>3. CASE r + M - 1 < REVS
  <2>1. sum = r + M - 1
    BY <1>1, <1>3, ModInt
  <2>2. sum % M \in 0 .. M - 1
    BY <1>1, <2>1, ModInt
  <2> DEFINE x == sum - (sum % M)
  <2>3. x \in r .. r + M - 1
    BY <1>1, <2>1, <2>2
  <2> HIDE DEF x
  <2>4. x \in 0 .. REVS - 1
    BY <1>1, <1>3, <2>3
  <2>5. Newer((x + 1) % REVS, r)
    <3>1. CASE x + 1 < REVS
      <4>1. (x + 1) % REVS = x + 1
        BY <1>1, <2>4, <3>1, ModInt
      <4>2. (x + 1 - r) % REVS = x + 1 - r
        BY <1>1, <2>3, <2>4, <3>1, ModInt
      <4> QED
        BY <1>1, <2>3, <4>1, <4>2 DEF Newer
    <3>2. CASE x + 1 = REVS
      <4>1. (x + 1) % REVS = 0
        BY <1>1, <3>2, ModInt
      <4>2. (0 - r) % REVS = REVS - r
        BY <1>1, <2>3, <3>2, ModInt
      <4> QED
        BY <1>1, <2>3, <3>2, <4>1, <4>2 DEF Newer
    <3> QED
      BY <1>1, <2>4, <3>1, <3>2
  <2> QED
    BY <1>2, <2>4, <2>5 DEF x
<1>4. CASE r + M - 1 >= REVS
  <2>1. sum = r + M - 1 - REVS
    BY <1>1, <1>4, ModInt
  <2>2. sum % M = sum
    BY <1>1, <1>4, <2>1, ModInt
  <2>3. AlignUp(r) = 0
    BY <1>1, <1>2, <2>1, <2>2
  <2>4. (0 + 1) % REVS = 1
    BY <1>1, ModInt
  <2>5. (1 - r) % REVS = 1 - r + REVS
    BY <1>1, <1>4, ModInt
  <2> QED
    BY <1>1, <1>4, <2>3, <2>4, <2>5 DEF Newer
<1> QED
  BY <1>1, <1>3, <1>4
-----------------------------------------------------------------------------
(* Which half of the pair p a mount takes on the disk d (1107-1129).          *)
HalvesOn(d, p)  == {i \in 1 .. 2 : d[p[i]][1].kind = "commit"}
CurrentOn(d, p) ==
    CHOOSE i \in HalvesOn(d, p) : \A j \in HalvesOn(d, p) \ {i} :
        IF i = 1 THEN ~Newer(d[p[2]][1].rev, d[p[1]][1].rev)
                 ELSE Newer(d[p[2]][1].rev, d[p[1]][1].rev)

Leads(d, p, c) ==
    /\ d[c][1].kind = "commit"
    /\ \/ c = p[1] /\ (d[p[2]][1].kind = "commit" => ~Newer(d[p[2]][1].rev, d[c][1].rev))
       \/ c = p[2] /\ (d[p[1]][1].kind = "commit" => Newer(d[c][1].rev, d[p[1]][1].rev))

LEMMA LeadsCurrent ==
    ASSUME NEW d, NEW p, p[1] # p[2], NEW c, Leads(d, p, c)
    PROVE  HalvesOn(d, p) # {} /\ CurrentOn(d, p) \in 1 .. 2 /\ p[CurrentOn(d, p)] = c
<1> DEFINE Fits(i) == \A j \in HalvesOn(d, p) \ {i} :
                          IF i = 1 THEN ~Newer(d[p[2]][1].rev, d[p[1]][1].rev)
                                   ELSE Newer(d[p[2]][1].rev, d[p[1]][1].rev)
<1>1. PICK i \in 1 .. 2 : c = p[i]
  BY DEF Leads
<1>2. i \in HalvesOn(d, p) /\ Fits(i)
  BY <1>1 DEF Leads, HalvesOn
<1>3. \A k \in HalvesOn(d, p) : Fits(k) => k = i
  BY <1>2 DEF HalvesOn
<1>4. CurrentOn(d, p) = CHOOSE k \in HalvesOn(d, p) : Fits(k)
  BY DEF CurrentOn
<1>5. CurrentOn(d, p) = i
  BY <1>2, <1>3, <1>4
<1> QED
  BY <1>1, <1>2, <1>5

LEMMA CurrentLeads ==
    ASSUME NEW d, NEW p, p[1] # p[2], HalvesOn(d, p) # {}
    PROVE  CurrentOn(d, p) \in 1 .. 2 /\ Leads(d, p, p[CurrentOn(d, p)])
<1>1. \E c \in {p[1], p[2]} : Leads(d, p, c)
  BY DEF Leads, HalvesOn
<1> QED
  BY <1>1, LeadsCurrent
-----------------------------------------------------------------------------
InUse(c) == Leads(disk, parent, c)

(* A block with revision r written to the other half will be that half.      *)
AheadOf(c, r) == disk[c][1].kind = "commit" => Newer(r, disk[c][1].rev)

Working == {"append", "verify", "compact", "erase", "program", "check", "relocate"}

Mounted == parent # NoPair => parent[1] # parent[2] /\ Halves(parent) # {}

(* Between commits: the handle is what a mount would find, or a new pair.     *)
IdleInv ==
    /\ pc \in {"closed", "idle"} => ~relocated /\ inflight = {}
    /\ pc = "idle" =>
          /\ dir.pair # NoPair /\ dir.pair[1] # dir.pair[2]
          /\ AheadOf(dir.pair[1], (dir.rev + 1) % REVS)
          /\ IF parent = NoPair THEN dir.off = 0 /\ ~dir.erased
             ELSE /\ InUse(dir.pair[1]) /\ Range(dir.pair) = Range(parent)
                  /\ dir.rev = disk[dir.pair[1]][1].rev
                  /\ dir.off = Commits(disk[dir.pair[1]])

(* During one: pair[1] is the half in use, the other one is free to be        *)
(* written.                                                                  *)
WorkInv ==
    pc \in Working =>
        /\ new \in Vals /\ pair # NoPair /\ pair[1] # pair[2]
        /\ IF parent = NoPair THEN pair[1] \in inflight
           ELSE /\ pair[1] \in Range(parent)
                /\ ~relocated => Range(pair) = Range(parent)
        /\ pc \in {"append", "verify", "compact"} =>
              pair = dir.pair /\ ~relocated /\ AheadOf(pair[1], (rev + 1) % REVS)
        /\ pc \notin {"append", "verify", "compact"} => AheadOf(pair[1], rev)
        /\ parent # NoPair /\ pc # "check" => InUse(pair[1])

(* The end of the log while something is appended to it.                     *)
LogEnd ==
    pc \in {"append", "verify"} =>
        /\ parent # NoPair /\ dir.rev = disk[pair[1]][1].rev
        /\ pc = "append" => Commits(disk[pair[1]]) = dir.off
        /\ pc = "verify" =>
              /\ dir.off \in 1 .. SLOTS - 1
              /\ Commits(disk[pair[1]]) =
                    IF ReadsBack(pair[1], dir.off + 1) THEN dir.off + 1 ELSE dir.off

(* The other half, once it is written.                                       *)
Landed(c, r) ==
    /\ disk[c][1].kind = "commit" /\ disk[c][1].rev = r /\ disk[c][1].val = new
    /\ Commits(disk[c]) = 1

CheckInv ==
    /\ pc = "check" /\ parent # NoPair =>
          InUse(IF ReadsBack(Victim, 1) /\ Victim \in Range(parent) THEN Victim ELSE pair[1])
    /\ pc = "parent" =>
          /\ new \in Vals /\ dir.pair # NoPair /\ dir.pair[1] # dir.pair[2]
          /\ dir.off = 1 /\ Landed(dir.pair[1], dir.rev) /\ AheadOf(dir.pair[2], dir.rev)

PhaseInv == Mounted /\ IdleInv /\ WorkInv /\ LogEnd /\ CheckInv
-----------------------------------------------------------------------------
PairSet == Blocks \X Blocks

Typed ==
    /\ pc \in {"closed", "idle", "append", "verify", "compact", "erase", "program",
               "check", "relocate", "parent"}
    /\ disk \in [Blocks -> [1 .. SLOTS -> Contents]]
    /\ parent \in PairSet \cup {NoPair} /\ pair \in PairSet \cup {NoPair}
    /\ dir \in [pair : PairSet \cup {NoPair}, rev : 0 .. REVS - 1, off : 0 .. SLOTS,
                erased : BOOLEAN]
    /\ rev \in 0 .. REVS - 1 /\ new \in Vals \cup {NoVal}
    /\ inflight \subseteq Blocks
    /\ commits \in 0 .. MaxCommits /\ bad \subseteq Blocks

Marked == tired \in BOOLEAN /\ relocated \in BOOLEAN /\ err \in {"OK", "ERR"}

LEMMA ContentTyped ==
    /\ Blank \in Contents /\ Junk \in Contents
    /\ \A x \in Contents :
          /\ x.bit \in {0, 1} /\ x.kind \in {"blank", "junk", "commit"}
          /\ x.kind = "commit" => /\ x.next \in {0, 1} /\ x.rev \in 0 .. REVS - 1
                                  /\ x.val \in Vals \cup {Stale}
    /\ Blank.kind # "commit" /\ Junk.kind # "commit"
  BY DEF Contents, Blank, Junk

LEMMA PairTyped ==
    ASSUME NEW p \in PairSet
    PROVE  p # NoPair /\ p[1] \in Blocks /\ p[2] \in Blocks /\ p = <<p[1], p[2]>>
           /\ Range(p) = {p[1], p[2]}
  BY DEF PairSet, NoPair, Range

LEMMA SlotNumbers == SLOTS \in Nat /\ SLOTS > 0 /\ 1 \in 1 .. SLOTS
  BY MdirAssumption

LEMMA CommitTyped ==
    ASSUME Typed, NEW b \in Blocks, NEW i \in 1 .. SLOTS, NEW v \in Vals,
           i = 1 \/ disk[b][i - 1].kind = "commit"
    PROVE  /\ Commit(b, i, v) \in Contents /\ Commit(b, i, v).kind = "commit"
           /\ Commit(b, i, v).val = v /\ (i = 1 => Commit(b, i, v).rev = rev)
           /\ i # 1 => Commit(b, i, v).bit = disk[b][i - 1].next
           /\ i < SLOTS => Commit(b, i, v).next = 1 - disk[b][i + 1].bit
<1>0. SLOTS \in Nat /\ SLOTS > 0 /\ 0 \in 0 .. REVS - 1
  BY SlotNumbers, Counts
<1>1. i # 1 => disk[b][i - 1] \in Contents /\ disk[b][i - 1].next \in {0, 1}
  BY <1>0, ContentTyped DEF Typed
<1>2. i < SLOTS => /\ disk[b][i + 1] \in Contents
                   /\ 1 - disk[b][i + 1].bit \in {0, 1}
                   /\ disk[b][i + 1].kind \in {"blank", "junk", "commit"}
  <2> SUFFICES ASSUME i < SLOTS
               PROVE /\ disk[b][i + 1] \in Contents
                     /\ 1 - disk[b][i + 1].bit \in {0, 1}
                     /\ disk[b][i + 1].kind \in {"blank", "junk", "commit"}
    OBVIOUS
  <2>1. disk[b][i + 1] \in Contents
    BY <1>0 DEF Typed
  <2> QED
    BY <2>1, ContentTyped
<1> DEFINE c == Commit(b, i, v)
<1>3. c = [kind |-> "commit", val |-> v,
           rev  |-> IF i = 1 THEN rev ELSE 0,
           bit  |-> IF i = 1 THEN 1 ELSE disk[b][i - 1].next,
           next |-> IF Last(i) THEN 0 ELSE 1 - disk[b][i + 1].bit,
           fcrc |-> IF Last(i) THEN "none" ELSE disk[b][i + 1].kind]
  BY DEF Commit, Perturb
<1>4. /\ c.kind = "commit" /\ c.val = v /\ c.rev = (IF i = 1 THEN rev ELSE 0)
      /\ c.bit = (IF i = 1 THEN 1 ELSE disk[b][i - 1].next)
      /\ c.next = (IF Last(i) THEN 0 ELSE 1 - disk[b][i + 1].bit)
  BY <1>3
<1>5. ~Last(i) <=> i < SLOTS
  BY <1>0 DEF Last
<1>6. c \in [kind : {"commit"}, val : Vals \cup {Stale}, rev : 0 .. REVS - 1, bit : {0, 1},
            next : {0, 1}, fcrc : {"blank", "junk", "commit", "none"}]
  BY <1>0, <1>1, <1>2, <1>3, <1>5 DEF Typed
<1>7. c \in Contents
  BY <1>6 DEF Contents
<1> QED
  BY <1>4, <1>5, <1>7

(* What a prog and an erase do to the disk.                                  *)
LEMMA PutEffect ==
    ASSUME Typed, NEW b \in Blocks, NEW i \in 1 .. SLOTS, NEW x \in Contents
    PROVE  /\ Put(b, i, x) \in [Blocks -> [1 .. SLOTS -> Contents]]
           /\ \A c \in Blocks \ {b} : Put(b, i, x)[c] = disk[c]
           /\ \A j \in 1 .. SLOTS \ {i} : Put(b, i, x)[b][j] = disk[b][j]
           /\ Put(b, i, x)[b][i] = x
  BY DEF Put, Typed

LEMMA PutJunk ==
    ASSUME Typed, NEW b \in Blocks, NEW i \in 1 .. SLOTS
    PROVE  /\ \A c \in Blocks \ {b} : Put(b, i, Junk)[c] = disk[c]
           /\ \A j \in 1 .. SLOTS \ {i} : Put(b, i, Junk)[b][j] = disk[b][j]
           /\ Put(b, i, Junk)[b][i] = Junk
<1>1. Junk \in Contents
  BY ContentTyped
<1> QED
  BY <1>1, PutEffect

LEMMA ProgEffect ==
    ASSUME Typed, new \in Vals, NEW b \in Blocks, NEW i \in 1 .. SLOTS, Prog(b, i),
           i = 1 \/ disk[b][i - 1].kind = "commit"
    PROVE  /\ disk' \in [Blocks -> [1 .. SLOTS -> Contents]] /\ bad' \subseteq Blocks
           /\ \A c \in Blocks \ {b} : disk'[c] = disk[c]
           /\ \A j \in 1 .. SLOTS \ {i} : disk'[b][j] = disk[b][j]
           /\ disk'[b][i] \in {disk[b][i], Junk, Commit(b, i, new)}
<1>1. Commit(b, i, new) \in Contents /\ Junk \in Contents
  BY CommitTyped, ContentTyped
<1>2. bad' \subseteq Blocks
  BY DEF Prog, Fault, Typed
<1>3. disk' = disk \/ \E x \in {Junk, Commit(b, i, new)} : disk' = Put(b, i, x)
  BY DEF Prog
<1>4. CASE disk' = disk
  BY <1>2, <1>4 DEF Typed
<1>5. ASSUME NEW x \in {Junk, Commit(b, i, new)}, disk' = Put(b, i, x)
      PROVE  /\ disk' \in [Blocks -> [1 .. SLOTS -> Contents]]
             /\ \A c \in Blocks \ {b} : disk'[c] = disk[c]
             /\ \A j \in 1 .. SLOTS \ {i} : disk'[b][j] = disk[b][j]
             /\ disk'[b][i] = x
  <2>1. x \in Contents
    BY <1>1
  <2>2. /\ Put(b, i, x) \in [Blocks -> [1 .. SLOTS -> Contents]]
        /\ \A c \in Blocks \ {b} : Put(b, i, x)[c] = disk[c]
        /\ \A j \in 1 .. SLOTS \ {i} : Put(b, i, x)[b][j] = disk[b][j]
        /\ Put(b, i, x)[b][i] = x
    BY <2>1, PutEffect
  <2> QED
    BY <1>5, <2>2
<1> QED
  BY <1>2, <1>3, <1>4, <1>5

LEMMA EraseEffect ==
    ASSUME Typed, NEW b \in Blocks, Erase(b)
    PROVE  /\ disk' \in [Blocks -> [1 .. SLOTS -> Contents]] /\ bad' \subseteq Blocks
           /\ \A c \in Blocks \ {b} : disk'[c] = disk[c]
           /\ disk'[b][1] = disk[b][1] \/ disk'[b][1].kind # "commit"
<1>1. bad' \subseteq Blocks
  BY DEF Erase, Fault, Typed
<1>2. PICK kept \in SUBSET (1 .. SLOTS), rest \in {Blank, Junk} :
          disk' = [disk EXCEPT ![b] = [i \in 1 .. SLOTS |-> IF i \in kept THEN disk[b][i] ELSE rest]]
  <2>1. CASE disk' = [disk EXCEPT ![b] = [i \in 1 .. SLOTS |-> Blank]]
    <3>1. [i \in 1 .. SLOTS |-> Blank] =
              [i \in 1 .. SLOTS |-> IF i \in {} THEN disk[b][i] ELSE Blank]
      OBVIOUS
    <3>2. {} \in SUBSET (1 .. SLOTS) /\ Blank \in {Blank, Junk}
      OBVIOUS
    <3>3. disk' = [disk EXCEPT ![b] = [i \in 1 .. SLOTS |-> IF i \in {} THEN disk[b][i] ELSE Blank]]
      BY <2>1, <3>1
    <3> QED
      BY <3>2, <3>3, Zenon
  <2>2. CASE \E kept \in SUBSET (1 .. SLOTS), rest \in {Blank, Junk} :
          disk' = [disk EXCEPT ![b] = [i \in 1 .. SLOTS |-> IF i \in kept THEN @[i] ELSE rest]]
    BY <2>2
  <2> QED
    BY <2>1, <2>2 DEF Erase
<1> DEFINE block == [i \in 1 .. SLOTS |-> IF i \in kept THEN disk[b][i] ELSE rest]
<1>3. block \in [1 .. SLOTS -> Contents]
  <2>1. \A i \in 1 .. SLOTS : disk[b][i] \in Contents
    BY DEF Typed
  <2>2. rest \in Contents
    BY ContentTyped
  <2> QED
    BY <2>1, <2>2
<1>4. disk' = [disk EXCEPT ![b] = block]
  BY <1>2
<1>5. block[1] = disk[b][1] \/ block[1].kind # "commit"
  BY SlotNumbers, ContentTyped
<1> HIDE DEF block
<1>6. disk \in [Blocks -> [1 .. SLOTS -> Contents]]
  BY DEF Typed
<1>7. disk' \in [Blocks -> [1 .. SLOTS -> Contents]]
  BY <1>3, <1>4, <1>6
<1>8. disk'[b] = block /\ \A c \in Blocks \ {b} : disk'[c] = disk[c]
  BY <1>4, <1>6
<1> QED
  BY <1>1, <1>5, <1>7, <1>8
-----------------------------------------------------------------------------
(* The superblock's pair stays what it is, in every copy of it.              *)
SuperInv ==
    parent # NoPair /\ Range(parent) = Superblock =>
        /\ dir.pair # NoPair => Range(dir.pair) = Superblock
        /\ pair # NoPair => Range(pair) = Superblock

MdirInv == Typed /\ Marked /\ PhaseInv /\ SuperInv

LEMMA UseInPair ==
    ASSUME Typed, parent # NoPair, NEW c, InUse(c)
    PROVE  /\ c \in Blocks /\ c \in Range(parent) /\ disk[c][1].kind = "commit"
           /\ disk[c][1].rev \in 0 .. REVS - 1
<1>1. parent \in PairSet
  BY DEF Typed
<1>2. c \in {parent[1], parent[2]} /\ disk[c][1].kind = "commit"
  BY DEF InUse, Leads
<1>3. c \in Blocks /\ c \in Range(parent)
  BY <1>1, <1>2, PairTyped
<1>4. disk[c][1] \in Contents
  BY <1>3, SlotNumbers DEF Typed
<1> QED
  BY <1>2, <1>3, <1>4, ContentTyped

LEMMA FetchIs ==
    ASSUME Typed, Mounted, parent # NoPair
    PROVE  \E c, o \in Blocks : /\ InUse(c) /\ c # o /\ Range(parent) = {c, o}
                                /\ Fetch(parent) = Mdir(c, o)
<1>1. parent \in PairSet /\ parent[1] # parent[2] /\ HalvesOn(disk, parent) # {}
  BY DEF Typed, Mounted, Halves, HalvesOn
<1>2. Current(parent) = CurrentOn(disk, parent)
  BY DEF Current, CurrentOn, Halves, HalvesOn
<1>3. CurrentOn(disk, parent) \in {1, 2} /\ InUse(parent[CurrentOn(disk, parent)])
  BY <1>1, CurrentLeads DEF InUse
<1>4. parent[1] \in Blocks /\ parent[2] \in Blocks /\ Range(parent) = {parent[1], parent[2]}
  BY <1>1, PairTyped
<1>5. CASE CurrentOn(disk, parent) = 1
  BY <1>1, <1>2, <1>3, <1>4, <1>5 DEF Fetch
<1>6. CASE CurrentOn(disk, parent) = 2
  BY <1>1, <1>2, <1>3, <1>4, <1>6 DEF Fetch
<1> QED
  BY <1>3, <1>5, <1>6

LEMMA MdirTyped ==
    ASSUME Typed, NEW c \in Blocks, NEW o \in Blocks, disk[c][1].kind = "commit"
    PROVE  /\ Mdir(c, o).pair = <<c, o>> /\ Mdir(c, o).rev = disk[c][1].rev
           /\ Mdir(c, o).off = Commits(disk[c])
           /\ Mdir(c, o) \in [pair : PairSet \cup {NoPair}, rev : 0 .. REVS - 1,
                              off : 0 .. SLOTS, erased : BOOLEAN]
<1>1. disk[c][1] \in Contents
  BY SlotNumbers DEF Typed
<1>2. disk[c][1].rev \in 0 .. REVS - 1
  BY <1>1, ContentTyped
<1>3. Commits(disk[c]) \in 0 .. SLOTS
  BY LogHasEnd, SlotNumbers
<1>4. Erased(disk[c], Commits(disk[c])) \in BOOLEAN
  BY DEF Erased
<1>5. <<c, o>> \in PairSet
  BY DEF PairSet
<1> HIDE DEF PairSet
<1> QED
  BY <1>2, <1>3, <1>4, <1>5 DEF Mdir
-----------------------------------------------------------------------------
LEMMA Start == Init => MdirInv
<1> SUFFICES ASSUME Init PROVE MdirInv
  OBVIOUS
<1>1. SLOTS \in Nat /\ SLOTS > 0 /\ 0 \in 0 .. REVS - 1 /\ 0 \in 0 .. SLOTS /\ 0 \in 0 .. MaxCommits
  BY SlotNumbers, Counts, MdirAssumption
<1>2. PICK c \in {Blank, Junk} \cup
                 [kind : {"commit"}, val : {Stale}, rev : StaleRevs, bit : {1},
                  next : {0}, fcrc : {"blank"}] :
          disk = [b \in Blocks |-> [i \in 1 .. SLOTS |-> IF i = 1 THEN c ELSE Blank]]
  BY DEF Init
<1>3. c \in Contents
  BY MdirAssumption DEF Contents
<1>4. disk \in [Blocks -> [1 .. SLOTS -> Contents]]
  BY <1>2, <1>3, ContentTyped
<1>5. NoDir \in [pair : PairSet \cup {NoPair}, rev : 0 .. REVS - 1, off : 0 .. SLOTS,
                 erased : BOOLEAN]
  BY <1>1 DEF NoDir
<1>6. Typed
  BY <1>1, <1>4, <1>5 DEF Init, Typed
<1>7. Marked
  BY DEF Init, Marked
<1>8. PhaseInv /\ SuperInv
  BY DEF Init, PhaseInv, Mounted, IdleInv, WorkInv, LogEnd, CheckInv, SuperInv, Working
<1> QED
  BY <1>6, <1>7, <1>8 DEF MdirInv

LEMMA MarkedStep == Marked /\ [Next]_vars => Marked'
<1> SUFFICES ASSUME Marked, [Next]_vars PROVE Marked'
  OBVIOUS
<1>1. NeedsRelocation \in BOOLEAN
  BY DEF NeedsRelocation
<1> QED
  BY <1>1 DEF Marked, Next, vars, ldir, Crash, Open, lfs_dir_alloc, lfs_dir_commit, ReadError,
     CommitStep, AppendProg, AppendVerify, Compact, CompactErase, CompactProg, CompactVerify,
     Relocate, NoSpace, Repoint, Ack, Fail, Forget, Rested

LEMMA SlotWritten ==
    ASSUME MdirInv, pc = "append"
    PROVE  /\ parent # NoPair /\ pair \in PairSet /\ pair = dir.pair /\ pair[1] \in Blocks
           /\ dir.off \in 1 .. SLOTS /\ dir.off = Commits(disk[pair[1]])
           /\ disk[pair[1]][dir.off].kind = "commit"
           /\ InUse(pair[1]) /\ new \in Vals
<1>1. pc \in Working /\ pc \in {"append", "verify", "compact"} /\ pc # "check"
  BY DEF Working
<1>2. parent # NoPair /\ dir.off = Commits(disk[pair[1]])
  BY DEF MdirInv, PhaseInv, LogEnd
<1>3. InUse(pair[1]) /\ pair # NoPair /\ new \in Vals /\ pair = dir.pair
  BY <1>1, <1>2 DEF MdirInv, PhaseInv, WorkInv
<1>4. pair \in PairSet
  BY <1>3 DEF MdirInv, Typed
<1>5. pair[1] \in Blocks
  BY <1>4, PairTyped
<1>6. /\ dir.off \in 1 .. SLOTS
      /\ \A i \in 2 .. dir.off : Follows(disk[pair[1]], i)
  BY <1>2, LogHasEnd
<1>7. disk[pair[1]][1].kind = "commit"
  BY <1>2, <1>3, UseInPair DEF MdirInv
<1>8. dir.off # 1 => dir.off \in 2 .. dir.off
  BY <1>6, SlotNumbers
<1>9. disk[pair[1]][dir.off].kind = "commit"
  BY <1>6, <1>7, <1>8 DEF Follows
<1> QED
  BY <1>2, <1>3, <1>4, <1>5, <1>6, <1>9

(* What a step may do to the disk and the blocks that are bad.               *)
LEMMA DiskTyped ==
    ASSUME MdirInv, Next
    PROVE  disk' \in [Blocks -> [1 .. SLOTS -> Contents]] /\ bad' \subseteq Blocks
<1> DEFINE Kept == disk' = disk /\ bad' = bad
<1>0. Typed
  BY DEF MdirInv
<1>1. CASE Kept
  BY <1>0, <1>1 DEF Typed
<1>2. CASE AppendProg
  <2>1. pc = "append" /\ disk[pair[1]][dir.off].kind = "commit" /\ pair[1] \in Blocks
        /\ new \in Vals /\ dir.off \in 1 .. SLOTS
    BY <1>2, SlotWritten DEF AppendProg
  <2>2. CASE dir.off < SLOTS /\ Prog(pair[1], dir.off + 1)
    <3>1. dir.off + 1 \in 1 .. SLOTS /\ dir.off + 1 - 1 = dir.off
      BY <2>1, <2>2, SlotNumbers
    <3> QED
      BY <1>0, <2>1, <2>2, <3>1, ProgEffect
  <2>3. CASE dir.off < SLOTS /\ disk' = Put(pair[1], dir.off + 1, Junk) /\ bad' = bad
    <3>1. dir.off + 1 \in 1 .. SLOTS
      BY <2>1, <2>3, SlotNumbers
    <3> QED
      BY <1>0, <2>1, <2>3, <3>1, PutEffect, ContentTyped DEF Typed
  <2> QED
    BY <1>1, <1>2, <2>2, <2>3 DEF AppendProg
<1>3. CASE CompactErase \/ CompactProg
  <2>1. pc \in Working
    BY <1>3 DEF CompactErase, CompactProg, Working
  <2>2. pair \in PairSet /\ new \in Vals
    BY <2>1 DEF MdirInv, Typed, PhaseInv, WorkInv
  <2>3. Victim \in Blocks
    BY <2>2, PairTyped DEF Victim
  <2>4. CASE CompactErase
    BY <1>0, <2>3, <2>4, EraseEffect DEF CompactErase
  <2>5. CASE CompactProg
    BY <1>0, <2>2, <2>3, <2>5, SlotNumbers, ProgEffect DEF CompactProg
  <2> QED
    BY <1>3, <2>4, <2>5
<1> QED
  BY <1>1, <1>2, <1>3 DEF Next, Crash, Open, lfs_dir_alloc, lfs_dir_commit, ReadError, CommitStep,
     AppendVerify, Compact, CompactVerify, Relocate, NoSpace, Repoint, ldir

DirSet == [pair : PairSet \cup {NoPair}, rev : 0 .. REVS - 1, off : 0 .. SLOTS, erased : BOOLEAN]

LEMMA DirFields ==
    ASSUME NEW d \in DirSet
    PROVE  /\ \A n \in 0 .. SLOTS : [d EXCEPT !.off = n] \in DirSet
           /\ \A q \in PairSet, r \in 0 .. REVS - 1, n \in 0 .. SLOTS :
                 [d EXCEPT !.pair = q, !.rev = r, !.off = n] \in DirSet
           /\ \A q \in PairSet, r \in 0 .. REVS - 1 : [d EXCEPT !.pair = q, !.rev = r] \in DirSet
           /\ d.pair \in PairSet \cup {NoPair} /\ d.rev \in 0 .. REVS - 1 /\ d.off \in 0 .. SLOTS
<1> HIDE DEF PairSet
<1> QED
  BY DEF DirSet

LEMMA Zeros ==
    /\ SLOTS \in Nat /\ SLOTS > 0 /\ 0 \in 0 .. REVS - 1 /\ 0 \in 0 .. SLOTS /\ 1 \in 0 .. SLOTS
    /\ NoDir \in DirSet
<1>1. SLOTS \in Nat /\ SLOTS > 0 /\ 0 \in 0 .. REVS - 1 /\ 0 \in 0 .. SLOTS /\ 1 \in 0 .. SLOTS
  BY SlotNumbers, Counts
<1> HIDE DEF PairSet
<1> QED
  BY <1>1 DEF NoDir, DirSet

LEMMA TypedStep == MdirInv /\ [Next]_vars => Typed'
<1> SUFFICES ASSUME MdirInv, [Next]_vars PROVE Typed'
  OBVIOUS
<1>0. /\ Typed /\ dir \in DirSet /\ Mounted
      /\ pc \in Working => pair \in PairSet /\ new \in Vals
  BY DEF MdirInv, Typed, PhaseInv, WorkInv, DirSet
<1>z. /\ SLOTS \in Nat /\ SLOTS > 0 /\ 0 \in 0 .. REVS - 1 /\ 0 \in 0 .. SLOTS /\ 1 \in 0 .. SLOTS
      /\ NoDir \in DirSet /\ (rev + 1) % REVS \in 0 .. REVS - 1
  BY <1>0, Zeros, NewerNext DEF Typed
<1>u. CASE UNCHANGED vars
  BY <1>0, <1>u DEF Typed, vars, ldir
<1>d. ASSUME Next PROVE disk' \in [Blocks -> [1 .. SLOTS -> Contents]] /\ bad' \subseteq Blocks
  BY <1>d, DiskTyped
<1>1. CASE Crash \/ ReadError \/ NoSpace
  BY <1>0, <1>z, <1>1, <1>d DEF Next, CommitStep, Crash, ReadError, NoSpace, Fail, Forget, Typed, DirSet
<1>2. CASE Open
  <2>1. PICK c, o \in Blocks : InUse(c) /\ Fetch(parent) = Mdir(c, o)
    BY <1>0, <1>2, FetchIs DEF Open
  <2>2. Fetch(parent) \in DirSet
    BY <1>0, <1>2, <2>1, MdirTyped, UseInPair DEF Open, DirSet
  <2> QED
    BY <1>0, <1>2, <1>d, <2>2 DEF Next, Open, Typed, DirSet, ldir
<1>3. CASE lfs_dir_alloc
  <2>1. PICK p \in NewPairs, r \in 0 .. REVS - 1 :
            dir' = [NoDir EXCEPT !.pair = p, !.rev = AlignUp(r)]
    BY <1>3 DEF lfs_dir_alloc
  <2>2. p \in PairSet /\ AlignUp(r) \in 0 .. REVS - 1
    BY MdirAssumption, AlignedAhead DEF PairSet
  <2>3. dir' \in DirSet
    BY <1>z, <2>1, <2>2, DirFields
  <2> QED
    BY <1>0, <1>3, <1>d, <2>3 DEF Next, lfs_dir_alloc, Typed, DirSet, ldir
<1>4. CASE lfs_dir_commit
  <2>1. commits' \in 0 .. MaxCommits /\ commits' \in Vals
    BY <1>0, <1>4, MdirAssumption DEF lfs_dir_commit, Typed, Vals
  <2>2. inflight' \subseteq Blocks
    <3>1. dir.pair \in PairSet
      BY <1>0, <1>4, DirFields DEF lfs_dir_commit, MdirInv, PhaseInv, IdleInv
    <3> QED
      BY <1>4, <3>1, PairTyped DEF lfs_dir_commit
  <2>3. pair' \in PairSet \cup {NoPair} /\ rev' \in 0 .. REVS - 1
    BY <1>0, <1>4, DirFields DEF lfs_dir_commit
  <2>4. pc' \in {"append", "compact"} /\ new' \in Vals \cup {NoVal}
        /\ parent' = parent /\ dir' = dir
    BY <1>4, <2>1 DEF lfs_dir_commit
  <2> QED
    BY <1>0, <1>4, <1>d, <2>1, <2>2, <2>3, <2>4 DEF Next, Typed
<1>5. CASE AppendProg \/ CompactErase \/ CompactProg
  BY <1>0, <1>5, <1>d DEF Next, CommitStep, AppendProg, CompactErase, CompactProg, Typed, ldir
<1>6. CASE AppendVerify
  <2>1. dir.off \in 1 .. SLOTS - 1
    BY <1>6 DEF AppendVerify, MdirInv, PhaseInv, LogEnd
  <2>2. dir.off + 1 \in 0 .. SLOTS
    BY <2>1, <1>z
  <2>3. [dir EXCEPT !.off = @ + 1] \in DirSet
    BY <1>0, <2>2, DirFields
  <2> QED
    BY <1>0, <1>z, <1>6, <1>d, <2>3 DEF Next, CommitStep, AppendVerify, Ack, Forget, Typed, DirSet, ldir
<1>7. CASE Compact
  BY <1>0, <1>z, <1>7, <1>d DEF Next, CommitStep, Compact, Typed
<1>8. CASE CompactVerify
  <2>1. pair \in PairSet
    BY <1>0, <1>8 DEF CompactVerify, Working
  <2>2. <<Victim, pair[1]>> \in PairSet
    BY <2>1, PairTyped DEF Victim, PairSet
  <2>3. Compacted \in DirSet
    BY <1>0, <1>z, <2>2, DirFields DEF Compacted, Typed
  <2> QED
    BY <1>0, <1>z, <1>8, <1>d, <2>3 DEF Next, CommitStep, CompactVerify, Ack, Forget, Typed, DirSet, ldir
<1>9. CASE Relocate
  <2>1. pair \in PairSet
    BY <1>0, <1>9 DEF Relocate, Working
  <2>2. \A b \in Free : b \in Blocks /\ <<pair[1], b>> \in PairSet
    BY <2>1, PairTyped DEF Free, PairSet
  <2>3. pair' \in PairSet \cup {NoPair} /\ inflight' \subseteq Blocks
    BY <1>0, <1>9, <2>1, <2>2 DEF Relocate, Typed
  <2>4. pc' = "erase" /\ parent' = parent /\ dir' = dir /\ rev' = rev /\ new' = new
        /\ commits' = commits
    BY <1>9 DEF Relocate
  <2> QED
    BY <1>0, <1>9, <1>d, <2>3, <2>4 DEF Next, CommitStep, Typed
<1>10. CASE Repoint
  <2>1. dir.pair \in PairSet \cup {NoPair}
    BY <1>0, DirFields
  <2> QED
    BY <1>0, <1>z, <1>10, <1>d, <2>1 DEF Next, CommitStep, Repoint, Ack, Fail, Forget, Typed, DirSet
<1> QED
  BY <1>u, <1>1, <1>2, <1>3, <1>4, <1>5, <1>6, <1>7, <1>8, <1>9, <1>10 DEF Next, CommitStep
-----------------------------------------------------------------------------
(* Steps that leave the disk and the parent alone.                            *)
LEMMA QuietUse ==
    ASSUME disk' = disk, parent' = parent
    PROVE  /\ \A c : InUse(c)' <=> InUse(c)
           /\ Mounted' <=> Mounted
  BY DEF InUse, Mounted, Halves

LEMMA CommitTouchesOne ==
    ASSUME MdirInv, pc \in Working
    PROVE  /\ pair \in PairSet /\ pair[1] \in Blocks /\ pair[2] \in Blocks /\ pair[1] # pair[2]
           /\ Range(pair) = {pair[1], pair[2]} /\ new \in Vals
           /\ parent # NoPair => /\ parent \in PairSet /\ parent[1] # parent[2]
                                 /\ parent[1] \in Blocks /\ parent[2] \in Blocks
                                 /\ Range(parent) = {parent[1], parent[2]}
<1>1. pair # NoPair /\ pair[1] # pair[2] /\ new \in Vals
  BY DEF MdirInv, PhaseInv, WorkInv
<1>2. pair \in PairSet /\ (parent # NoPair => parent \in PairSet /\ parent[1] # parent[2])
  BY <1>1 DEF MdirInv, PhaseInv, Mounted, Typed
<1> QED
  BY <1>1, <1>2, PairTyped

LEMMA ClosedStep ==
    ASSUME MdirInv, ~OpenElsewhere, Crash \/ ReadError \/ NoSpace
    PROVE  PhaseInv' /\ SuperInv'
<1>1. /\ pc' = "closed" /\ relocated' = FALSE /\ inflight' = {} /\ disk' = disk /\ parent' = parent
      /\ dir' = NoDir /\ pair' = NoPair
  BY DEF Crash, ReadError, NoSpace, Fail, Forget
<1>2. Mounted'
  BY <1>1, QuietUse DEF MdirInv, PhaseInv
<1>3. SuperInv'
  BY <1>1 DEF SuperInv, NoDir
<1> QED
  BY <1>1, <1>2, <1>3 DEF PhaseInv, IdleInv, WorkInv, LogEnd, CheckInv, Working

LEMMA OpenStep ==
    ASSUME MdirInv, Open
    PROVE  /\ PhaseInv' /\ SuperInv'
           /\ InUse(dir'.pair[1]) /\ dir'.off = Commits(disk[dir'.pair[1]])
<1>1. /\ Typed /\ Mounted /\ IdleInv
      /\ pc = "closed" /\ pc' = "idle" /\ disk' = disk /\ parent' = parent /\ dir' = Fetch(parent)
      /\ relocated' = relocated /\ inflight' = inflight /\ pair' = pair /\ parent # NoPair
  BY DEF Open, MdirInv, PhaseInv, ldir
<1>2. PICK c, o \in Blocks : /\ InUse(c) /\ c # o /\ Range(parent) = {c, o}
                             /\ Fetch(parent) = Mdir(c, o)
  BY <1>1, FetchIs
<1>3. disk[c][1].kind = "commit" /\ disk[c][1].rev \in 0 .. REVS - 1
  BY <1>1, <1>2, UseInPair
<1>4. /\ dir'.pair = <<c, o>> /\ dir'.rev = disk[c][1].rev /\ dir'.off = Commits(disk[c])
  BY <1>1, <1>2, <1>3, MdirTyped
<1>5. <<c, o>> \in PairSet /\ <<c, o>>[1] = c /\ <<c, o>>[2] = o
  BY DEF PairSet
<1>6. <<c, o>> # NoPair /\ Range(<<c, o>>) = {c, o}
  BY <1>5, PairTyped
<1>7. AheadOf(c, (dir'.rev + 1) % REVS)
  BY <1>3, <1>4, NewerNext DEF AheadOf
<1>8. InUse(c)' /\ Mounted'
  BY <1>1, <1>2, QuietUse
<1>9. AheadOf(dir.pair[1], (dir.rev + 1) % REVS)'
  BY <1>1, <1>4, <1>5, <1>7 DEF AheadOf
<1>10. InUse(dir.pair[1])'
  BY <1>4, <1>5, <1>8 DEF InUse
<1>11. IdleInv'
  BY <1>1, <1>2, <1>4, <1>5, <1>6, <1>9, <1>10 DEF IdleInv
<1>12. SuperInv'
  BY <1>1, <1>2, <1>4, <1>6 DEF SuperInv, MdirInv
<1> QED
  BY <1>1, <1>2, <1>4, <1>5, <1>8, <1>11, <1>12 DEF PhaseInv, WorkInv, LogEnd, CheckInv, Working

LEMMA AllocStep ==
    ASSUME MdirInv, lfs_dir_alloc
    PROVE  PhaseInv' /\ SuperInv' /\ dir'.off = 0
<1>1. /\ Typed /\ IdleInv
      /\ pc = "closed" /\ pc' = "idle" /\ disk' = disk /\ parent' = parent
      /\ relocated' = relocated /\ inflight' = inflight /\ pair' = pair /\ parent = NoPair
  BY DEF lfs_dir_alloc, MdirInv, PhaseInv, ldir
<1>2. PICK p \in NewPairs, r \in 0 .. REVS - 1 :
          /\ r \in RevOf(disk[p[1]])
          /\ dir' = [NoDir EXCEPT !.pair = p, !.rev = AlignUp(r)]
  BY DEF lfs_dir_alloc
<1>3. p \in PairSet /\ p[1] # p[2] /\ p # NoPair
  BY MdirAssumption, PairTyped DEF PairSet
<1>4. dir'.pair = p /\ dir'.rev = AlignUp(r) /\ dir'.off = 0 /\ dir'.erased = FALSE
  BY <1>2 DEF NoDir
<1>5. disk[p[1]][1].kind = "commit" => disk[p[1]][1].rev = r
  BY <1>2 DEF RevOf
<1>6. AheadOf(p[1], (AlignUp(r) + 1) % REVS)
  BY <1>2, <1>5, AlignedAhead DEF AheadOf
<1>7. AheadOf(dir.pair[1], (dir.rev + 1) % REVS)'
  BY <1>1, <1>4, <1>6 DEF AheadOf
<1>8. IdleInv'
  BY <1>1, <1>3, <1>4, <1>7 DEF IdleInv
<1> QED
  BY <1>1, <1>4, <1>8 DEF PhaseInv, Mounted, WorkInv, LogEnd, CheckInv, Working, SuperInv

LEMMA BeginStep ==
    ASSUME MdirInv, lfs_dir_commit
    PROVE  PhaseInv' /\ SuperInv' /\ new' \in Vals
<1>1. /\ Typed /\ IdleInv /\ Mounted /\ SuperInv
      /\ pc = "idle" /\ disk' = disk /\ parent' = parent /\ dir' = dir
      /\ relocated' = relocated /\ pair' = dir.pair /\ rev' = dir.rev
      /\ inflight' = IF parent = NoPair THEN Range(dir.pair) ELSE {}
      /\ pc' = IF dir.erased THEN "append" ELSE "compact"
  BY DEF lfs_dir_commit, MdirInv, PhaseInv
<1>2. new' \in Vals
  BY MdirAssumption DEF lfs_dir_commit, Vals, MdirInv, Typed
<1>3. /\ dir.pair # NoPair /\ dir.pair[1] # dir.pair[2] /\ ~relocated
      /\ AheadOf(dir.pair[1], (dir.rev + 1) % REVS)
      /\ IF parent = NoPair THEN dir.off = 0 /\ ~dir.erased
         ELSE /\ InUse(dir.pair[1]) /\ Range(dir.pair) = Range(parent)
              /\ dir.rev = disk[dir.pair[1]][1].rev
              /\ dir.off = Commits(disk[dir.pair[1]])
  BY <1>1 DEF IdleInv
<1>4. dir.pair \in PairSet
  BY <1>1, <1>3 DEF Typed
<1>5. dir.pair[1] \in Range(dir.pair)
  BY <1>4, PairTyped
<1>6. Mounted' /\ \A c : InUse(c)' <=> InUse(c)
  BY <1>1, QuietUse
<1>7. parent # NoPair => InUse(pair[1])'
  BY <1>1, <1>3, <1>6 DEF InUse
<1>8. AheadOf(pair[1], (rev + 1) % REVS)'
  BY <1>1, <1>3 DEF AheadOf
<1>9. WorkInv'
  BY <1>1, <1>2, <1>3, <1>5, <1>7, <1>8 DEF WorkInv, Working
<1>10. LogEnd'
  BY <1>1, <1>3 DEF LogEnd
<1>11. IdleInv' /\ CheckInv'
  BY <1>1 DEF IdleInv, CheckInv
<1>12. SuperInv'
  BY <1>1 DEF SuperInv
<1> QED
  BY <1>2, <1>6, <1>9, <1>10, <1>11, <1>12 DEF PhaseInv

LEMMA CompactStep ==
    ASSUME MdirInv, Compact PROVE PhaseInv' /\ SuperInv'
<1>1. /\ pc = "compact" /\ pc' \in {"relocate", "erase"}
      /\ disk' = disk /\ parent' = parent /\ dir' = dir /\ pair' = pair /\ new' = new
      /\ relocated' = relocated /\ inflight' = inflight /\ rev' = (rev + 1) % REVS
  BY DEF Compact
<1>2. Mounted' /\ \A c : InUse(c)' <=> InUse(c)
  BY <1>1, QuietUse DEF MdirInv, PhaseInv
<1>3. pc \in Working /\ pc \in {"append", "verify", "compact"} /\ pc # "check"
      /\ pc' \in Working /\ pc' \notin {"append", "verify", "compact"}
  BY <1>1 DEF Working
<1>4. AheadOf(pair[1], (rev + 1) % REVS) /\ (parent # NoPair => InUse(pair[1]))
  BY <1>3 DEF MdirInv, PhaseInv, WorkInv
<1>5. AheadOf(pair[1], rev)'
  BY <1>1, <1>4 DEF AheadOf
<1>6. parent # NoPair => InUse(pair[1])'
  BY <1>1, <1>2, <1>4 DEF InUse
<1>7. WorkInv'
  BY <1>1, <1>3, <1>5, <1>6 DEF WorkInv, MdirInv, PhaseInv
<1>8. IdleInv' /\ LogEnd' /\ CheckInv'
  BY <1>1 DEF IdleInv, LogEnd, CheckInv
<1>9. SuperInv'
  BY <1>1 DEF SuperInv, MdirInv
<1> QED
  BY <1>2, <1>7, <1>8, <1>9 DEF PhaseInv

LEMMA RelocateStep ==
    ASSUME MdirInv, Relocate PROVE PhaseInv' /\ SuperInv'
<1>1. /\ pc = "relocate" /\ pc' = "erase" /\ ~IsSuperblock /\ relocated' = TRUE
      /\ disk' = disk /\ parent' = parent /\ dir' = dir /\ new' = new /\ rev' = rev
      /\ \/ \E b \in Free : pair' = <<pair[1], b>> /\ inflight' = inflight \cup {b}
         \/ pair' = pair /\ inflight' = inflight
  BY DEF Relocate
<1>2. Mounted' /\ \A c : InUse(c)' <=> InUse(c)
  BY <1>1, QuietUse DEF MdirInv, PhaseInv
<1>3. pc \in Working /\ pc \notin {"append", "verify", "compact"} /\ pc # "check"
  BY <1>1 DEF Working
<1>4. /\ AheadOf(pair[1], rev) /\ (parent # NoPair => InUse(pair[1])) /\ new \in Vals
      /\ IF parent = NoPair THEN pair[1] \in inflight ELSE pair[1] \in Range(parent)
  BY <1>3 DEF MdirInv, PhaseInv, WorkInv
<1>5. pair \in PairSet /\ pair[1] # pair[2] /\ pair # NoPair /\ Range(pair) = {pair[1], pair[2]}
  BY <1>3, CommitTouchesOne, PairTyped
<1>6. /\ pair' # NoPair /\ pair'[1] = pair[1] /\ pair'[1] # pair'[2]
      /\ inflight \subseteq inflight'
  <2>1. CASE \E b \in Free : pair' = <<pair[1], b>> /\ inflight' = inflight \cup {b}
    <3>1. PICK b \in Free : pair' = <<pair[1], b>> /\ inflight' = inflight \cup {b}
      BY <2>1
    <3>2. b # pair[1]
      BY <1>4 DEF Free
    <3> QED
      BY <3>1, <3>2 DEF NoPair
  <2> QED
    BY <1>1, <1>5, <2>1
<1>7. AheadOf(pair[1], rev)'
  BY <1>1, <1>4, <1>6 DEF AheadOf
<1>8. parent # NoPair => InUse(pair[1])'
  BY <1>1, <1>2, <1>4, <1>6 DEF InUse
<1>9. WorkInv'
  BY <1>1, <1>3, <1>4, <1>6, <1>7, <1>8 DEF WorkInv, Working
<1>10. IdleInv' /\ LogEnd' /\ CheckInv'
  BY <1>1 DEF IdleInv, LogEnd, CheckInv
<1>11. SuperInv'
  <2>1. ~(parent # NoPair /\ Range(parent) = Superblock)
    <3>1. Range(pair) # Superblock
      BY <1>1 DEF IsSuperblock, Superblock
    <3> QED
      BY <1>5, <3>1 DEF MdirInv, SuperInv
  <2> QED
    BY <1>1, <2>1 DEF SuperInv
<1> QED
  BY <1>2, <1>9, <1>10, <1>11 DEF PhaseInv
-----------------------------------------------------------------------------
(* What was written to the other half makes a log of one commit.             *)
LEMMA ReadBackLanded ==
    ASSUME MdirInv, pc = "check", ReadsBack(Victim, 1)
    PROVE  Landed(Victim, rev)
<1>1. pair[2] \in Blocks /\ new \in Vals
  BY CommitTouchesOne DEF Working
<1> DEFINE b == Victim
<1>2. b \in Blocks /\ 1 \in 1 .. SLOTS /\ SLOTS \in Nat /\ Typed
  BY <1>1, SlotNumbers DEF Victim, MdirInv
<1>3. disk[b][1] = Commit(b, 1, new)
  BY DEF ReadsBack
<1> HIDE DEF b
<1>4. /\ disk[b][1].kind = "commit" /\ disk[b][1].val = new /\ disk[b][1].rev = rev
      /\ 1 < SLOTS => disk[b][1].next = 1 - disk[b][1 + 1].bit
  BY <1>1, <1>2, <1>3, CommitTyped
<1>5. 1 < SLOTS => ~Follows(disk[b], 1 + 1)
  <2> SUFFICES ASSUME 1 < SLOTS PROVE ~Follows(disk[b], 1 + 1)
    OBVIOUS
  <2>1. disk[b][1 + 1] \in Contents
    BY <1>2 DEF Typed
  <2>2. disk[b][1 + 1].bit \in {0, 1}
    BY <2>1, ContentTyped
  <2>3. disk[b][1].next = 1 - disk[b][1 + 1].bit
    BY <1>4
  <2>4. disk[b][1 + 1].bit # disk[b][1].next
    BY <2>2, <2>3
  <2> QED
    BY <2>4 DEF Follows
<1>6. Commits(disk[b]) = 1
  BY <1>2, <1>5, LogEndIs
<1> QED
  BY <1>4, <1>6 DEF Landed, b

LEMMA CompactVerifyStep ==
    ASSUME MdirInv, CompactVerify
    PROVE  /\ PhaseInv' /\ SuperInv'
           /\ pc' = "idle" => /\ InUse(dir'.pair[1]) /\ Landed(dir'.pair[1], dir'.rev)
                              /\ dir'.off = 1 /\ parent # NoPair
<1>1. /\ pc = "check" /\ disk' = disk /\ parent' = parent /\ Typed
      /\ \/ /\ ReadsBack(Victim, 1) /\ (relocated \/ parent = NoPair)
            /\ dir' = Compacted /\ pc' = "parent" /\ pair' = pair /\ new' = new
         \/ /\ ReadsBack(Victim, 1) /\ ~relocated /\ parent # NoPair
            /\ dir' = Compacted /\ pc' = "idle" /\ Forget
         \/ /\ ~ReadsBack(Victim, 1) /\ pc' = "relocate"
            /\ dir' = dir /\ UNCHANGED ldir
  BY DEF CompactVerify, Ack, MdirInv, ldir
<1>2. Mounted' /\ \A c : InUse(c)' <=> InUse(c)
  BY <1>1, QuietUse DEF MdirInv, PhaseInv
<1>3. pc \in Working /\ pc \notin {"append", "verify", "compact"}
  BY <1>1 DEF Working
<1>4. /\ AheadOf(pair[1], rev) /\ new \in Vals /\ pair # NoPair
      /\ IF parent = NoPair THEN pair[1] \in inflight
         ELSE pair[1] \in Range(parent) /\ (~relocated => Range(pair) = Range(parent))
      /\ parent # NoPair =>
            InUse(IF ReadsBack(Victim, 1) /\ Victim \in Range(parent) THEN Victim ELSE pair[1])
  BY <1>1, <1>3 DEF MdirInv, PhaseInv, WorkInv, CheckInv
<1>5. /\ pair \in PairSet /\ pair[1] # pair[2] /\ pair[1] \in Blocks /\ pair[2] \in Blocks
      /\ Range(pair) = {pair[1], pair[2]} /\ Victim = pair[2]
  BY <1>3, CommitTouchesOne DEF Victim
<1>6. <<Victim, pair[1]>> \in PairSet /\ <<Victim, pair[1]>>[1] = Victim
      /\ <<Victim, pair[1]>>[2] = pair[1]
  BY <1>5 DEF PairSet
<1>7. <<Victim, pair[1]>> # NoPair /\ Range(<<Victim, pair[1]>>) = Range(pair)
  BY <1>5, <1>6, PairTyped
<1>8. /\ Compacted.pair = <<Victim, pair[1]>> /\ Compacted.rev = rev /\ Compacted.off = 1
  <2> HIDE DEF PairSet
  <2> QED
    BY <1>1 DEF Compacted, Typed
<1>9. CASE ReadsBack(Victim, 1) /\ (relocated \/ parent = NoPair) /\ pc' = "parent"
  <2>1. dir' = Compacted /\ pair' = pair /\ new' = new
    BY <1>1, <1>9
  <2>2. Landed(Victim, rev)
    BY <1>1, <1>9, ReadBackLanded
  <2>3. Landed(dir.pair[1], dir.rev)' /\ AheadOf(dir.pair[2], dir.rev)'
    BY <1>1, <1>4, <1>6, <1>8, <2>1, <2>2 DEF Landed, AheadOf
  <2>4. CheckInv'
    BY <1>4, <1>5, <1>6, <1>7, <1>8, <1>9, <2>1, <2>3 DEF CheckInv
  <2>5. IdleInv' /\ WorkInv' /\ LogEnd'
    BY <1>9 DEF IdleInv, WorkInv, LogEnd, Working
  <2>6. SuperInv'
    BY <1>1, <1>4, <1>7, <1>8, <2>1 DEF SuperInv, MdirInv
  <2> QED
    BY <1>2, <1>9, <2>4, <2>5, <2>6 DEF PhaseInv
<1>10. CASE ReadsBack(Victim, 1) /\ ~relocated /\ parent # NoPair /\ pc' = "idle"
  <2>1. dir' = Compacted /\ relocated' = FALSE /\ inflight' = {} /\ pair' = NoPair
    BY <1>1, <1>10 DEF Forget
  <2>2. Landed(Victim, rev)
    BY <1>1, <1>10, ReadBackLanded
  <2>3. InUse(Victim)
    BY <1>4, <1>5, <1>10
  <2>4. rev \in 0 .. REVS - 1
    BY <1>1 DEF Typed
  <2>5. AheadOf(dir.pair[1], (dir.rev + 1) % REVS)'
    BY <1>1, <1>6, <1>8, <2>1, <2>2, <2>4, NewerNext DEF AheadOf, Landed
  <2>6. InUse(dir.pair[1])'
    BY <1>2, <1>6, <1>8, <2>1, <2>3 DEF InUse
  <2>7. dir'.rev = disk'[dir'.pair[1]][1].rev /\ dir'.off = Commits(disk'[dir'.pair[1]])
    BY <1>1, <1>6, <1>8, <2>1, <2>2 DEF Landed
  <2>8. Range(dir'.pair) = Range(parent')
    BY <1>1, <1>4, <1>7, <1>8, <1>10, <2>1
  <2>9. IdleInv'
    BY <1>1, <1>5, <1>6, <1>7, <1>8, <1>10, <2>1, <2>5, <2>6, <2>7, <2>8 DEF IdleInv
  <2>10. WorkInv' /\ LogEnd' /\ CheckInv'
    BY <1>10 DEF WorkInv, LogEnd, CheckInv, Working
  <2>11. SuperInv'
    BY <2>1, <2>8 DEF SuperInv
  <2> QED
    BY <1>2, <1>6, <1>8, <1>10, <2>1, <2>2, <2>3, <2>9, <2>10, <2>11 DEF PhaseInv
<1>11. CASE ~ReadsBack(Victim, 1) /\ pc' = "relocate"
  <2>1. dir' = dir /\ pair' = pair /\ rev' = rev /\ new' = new /\ relocated' = relocated
        /\ inflight' = inflight
    BY <1>1, <1>11 DEF ldir
  <2>2. parent # NoPair => InUse(pair[1])'
    BY <1>2, <1>4, <1>11, <2>1 DEF InUse
  <2>3. AheadOf(pair[1], rev)'
    BY <1>1, <1>4, <2>1 DEF AheadOf
  <2>4. WorkInv'
    BY <1>1, <1>4, <1>5, <1>11, <2>1, <2>2, <2>3 DEF WorkInv
  <2>5. IdleInv' /\ LogEnd' /\ CheckInv'
    BY <1>11 DEF IdleInv, LogEnd, CheckInv
  <2>6. SuperInv'
    BY <1>1, <2>1 DEF SuperInv, MdirInv
  <2> QED
    BY <1>2, <1>11, <2>4, <2>5, <2>6 DEF PhaseInv
<1> QED
  BY <1>1, <1>9, <1>10, <1>11

LEMMA LandedLeads ==
    ASSUME MdirInv, pc = "parent"
    PROVE  /\ dir.pair \in PairSet /\ dir.pair[1] # dir.pair[2] /\ dir.pair[1] \in Blocks
           /\ Leads(disk, dir.pair, dir.pair[1]) /\ Landed(dir.pair[1], dir.rev)
           /\ dir.off = 1 /\ dir.rev \in 0 .. REVS - 1 /\ new \in Vals
<1>1. /\ Typed /\ new \in Vals /\ dir.pair # NoPair /\ dir.pair[1] # dir.pair[2]
      /\ dir.off = 1 /\ Landed(dir.pair[1], dir.rev) /\ AheadOf(dir.pair[2], dir.rev)
  BY DEF MdirInv, PhaseInv, CheckInv
<1>2. dir.pair \in PairSet /\ dir.rev \in 0 .. REVS - 1
  BY <1>1 DEF Typed
<1>3. dir.pair[1] \in Blocks /\ dir.pair[2] \in Blocks
  BY <1>2, PairTyped
<1>4. disk[dir.pair[2]][1].kind = "commit" => disk[dir.pair[2]][1].rev \in 0 .. REVS - 1
  BY <1>1, <1>3, SlotNumbers, ContentTyped DEF Typed
<1>5. Leads(disk, dir.pair, dir.pair[1])
  BY <1>1, <1>2, <1>4, NewerAnti DEF Leads, Landed, AheadOf
<1> QED
  BY <1>1, <1>2, <1>3, <1>5

LEMMA RepointStep ==
    ASSUME MdirInv, ~OpenElsewhere, Repoint PROVE PhaseInv' /\ SuperInv'
<1>1. pc = "parent" /\ disk' = disk /\ parent' \in {parent, dir.pair}
      /\ relocated' = FALSE /\ inflight' = {} /\ pair' = NoPair
  BY DEF Repoint, Ack, Fail, Forget
<1>2. /\ dir.pair \in PairSet /\ dir.pair[1] # dir.pair[2] /\ dir.pair[1] \in Blocks
      /\ Leads(disk, dir.pair, dir.pair[1]) /\ Landed(dir.pair[1], dir.rev)
      /\ dir.off = 1 /\ dir.rev \in 0 .. REVS - 1 /\ dir.pair # NoPair
  BY <1>1, LandedLeads, PairTyped
<1>3. Mounted'
  <2>1. CASE parent' = parent
    BY <1>1, <2>1, QuietUse DEF MdirInv, PhaseInv
  <2>2. CASE parent' = dir.pair
    <3>1. HalvesOn(disk, dir.pair) # {}
      BY <1>2, LeadsCurrent
    <3> QED
      BY <1>1, <1>2, <2>2, <3>1 DEF Mounted, Halves, HalvesOn
  <2> QED
    BY <1>1, <2>1, <2>2
<1>4. CASE pc' = "closed" /\ dir' = NoDir
  BY <1>1, <1>3, <1>4 DEF PhaseInv, IdleInv, WorkInv, LogEnd, CheckInv, Working, SuperInv, NoDir
<1>5. CASE parent' = dir.pair /\ pc' = "idle" /\ dir' = dir
  <2>1. InUse(dir.pair[1])'
    BY <1>1, <1>2, <1>5 DEF InUse
  <2>2. AheadOf(dir.pair[1], (dir.rev + 1) % REVS)'
    BY <1>1, <1>2, <1>5, NewerNext DEF AheadOf, Landed
  <2>3. IdleInv'
    BY <1>1, <1>2, <1>5, <2>1, <2>2 DEF IdleInv, Landed
  <2> QED
    BY <1>1, <1>3, <1>5, <2>3 DEF PhaseInv, WorkInv, LogEnd, CheckInv, Working, SuperInv
<1> QED
  BY <1>4, <1>5 DEF Repoint, Ack, Fail

LEMMA AppendVerifyStep ==
    ASSUME MdirInv, AppendVerify
    PROVE  /\ PhaseInv' /\ SuperInv'
           /\ pc' = "idle" => /\ parent # NoPair /\ InUse(dir'.pair[1])
                              /\ dir'.off = Commits(disk[dir'.pair[1]]) /\ dir'.off # 0
                              /\ disk[dir'.pair[1]][dir'.off].val = new
<1>1. /\ pc = "verify" /\ disk' = disk /\ parent' = parent /\ Typed
      /\ \/ /\ ReadsBack(pair[1], dir.off + 1) /\ dir' = [dir EXCEPT !.off = dir.off + 1]
            /\ pc' = "idle" /\ Forget
         \/ /\ ~ReadsBack(pair[1], dir.off + 1) /\ pc' = "compact"
            /\ dir' = dir /\ UNCHANGED ldir
  BY DEF AppendVerify, Ack, MdirInv, ldir
<1>2. Mounted' /\ \A c : InUse(c)' <=> InUse(c)
  BY <1>1, QuietUse DEF MdirInv, PhaseInv
<1>3. pc \in Working /\ pc \in {"append", "verify", "compact"} /\ pc # "check"
  BY <1>1 DEF Working
<1>4. /\ parent # NoPair /\ dir.rev = disk[pair[1]][1].rev /\ dir.off \in 1 .. SLOTS - 1
      /\ Commits(disk[pair[1]]) =
            IF ReadsBack(pair[1], dir.off + 1) THEN dir.off + 1 ELSE dir.off
  BY <1>1 DEF MdirInv, PhaseInv, LogEnd
<1>5. /\ new \in Vals /\ pair = dir.pair /\ ~relocated /\ AheadOf(pair[1], (rev + 1) % REVS)
      /\ pair[1] \in Range(parent) /\ Range(pair) = Range(parent) /\ InUse(pair[1])
  BY <1>3, <1>4 DEF MdirInv, PhaseInv, WorkInv
<1>6. pair \in PairSet /\ pair # NoPair /\ pair[1] # pair[2] /\ pair[1] \in Blocks
  BY <1>3, CommitTouchesOne, PairTyped
<1>7. CASE ReadsBack(pair[1], dir.off + 1) /\ pc' = "idle"
  <2>1. /\ dir' = [dir EXCEPT !.off = dir.off + 1]
        /\ relocated' = FALSE /\ inflight' = {} /\ pair' = NoPair
    BY <1>1, <1>7 DEF Forget
  <2>2. dir'.pair = pair /\ dir'.rev = dir.rev /\ dir'.off = dir.off + 1
    <3> HIDE DEF PairSet
    <3> QED
      BY <1>1, <1>5, <2>1 DEF Typed
  <2>3. dir.rev \in 0 .. REVS - 1
    BY <1>4, <1>5, UseInPair, <1>1
  <2>4. AheadOf(dir.pair[1], (dir.rev + 1) % REVS)'
    BY <1>1, <1>4, <2>2, <2>3, NewerNext DEF AheadOf
  <2>5. InUse(dir.pair[1])'
    BY <1>2, <1>5, <2>2 DEF InUse
  <2>6. IdleInv'
    BY <1>1, <1>4, <1>5, <1>6, <1>7, <2>1, <2>2, <2>4, <2>5 DEF IdleInv
  <2>7. WorkInv' /\ LogEnd' /\ CheckInv'
    BY <1>7 DEF WorkInv, LogEnd, CheckInv, Working
  <2>8. SuperInv'
    BY <1>1, <1>5, <2>1, <2>2 DEF SuperInv
  <2>9. disk[pair[1]][dir.off + 1].val = new
    <3>1. disk[pair[1]][dir.off + 1] = Commit(pair[1], dir.off + 1, new)
      BY <1>7 DEF ReadsBack
    <3> QED
      BY <3>1 DEF Commit
  <2>10. dir.off + 1 # 0
    BY <1>4, SlotNumbers
  <2> QED
    BY <1>2, <1>4, <1>5, <1>7, <2>2, <2>6, <2>7, <2>8, <2>9, <2>10 DEF PhaseInv
<1>8. CASE ~ReadsBack(pair[1], dir.off + 1) /\ pc' = "compact"
  <2>1. dir' = dir /\ pair' = pair /\ rev' = rev /\ new' = new /\ relocated' = relocated
        /\ inflight' = inflight
    BY <1>1, <1>8 DEF ldir
  <2>2. InUse(pair[1])' /\ AheadOf(pair[1], (rev + 1) % REVS)'
    BY <1>1, <1>2, <1>5, <2>1 DEF InUse, AheadOf
  <2>3. WorkInv'
    BY <1>1, <1>4, <1>5, <1>6, <1>8, <2>1, <2>2 DEF WorkInv
  <2>4. IdleInv' /\ LogEnd' /\ CheckInv'
    BY <1>8 DEF IdleInv, LogEnd, CheckInv
  <2>5. SuperInv'
    BY <1>1, <2>1 DEF SuperInv, MdirInv
  <2> QED
    BY <1>2, <1>8, <2>3, <2>4, <2>5 DEF PhaseInv
<1> QED
  BY <1>1, <1>7, <1>8
-----------------------------------------------------------------------------
(* Steps that write: to the end of the log, or to the other half.             *)
LEMMA HeadsKept ==
    ASSUME parent' = parent, disk'[parent[1]][1] = disk[parent[1]][1],
           disk'[parent[2]][1] = disk[parent[2]][1], NEW c, InUse(c)
    PROVE  InUse(c)'
<1>1. c \in {parent[1], parent[2]}
  BY DEF InUse, Leads
<1> QED
  BY <1>1 DEF InUse, Leads

LEMMA HeadLost ==
    ASSUME MdirInv, parent # NoPair, parent' = parent, NEW v \in Blocks,
           \A b \in Blocks \ {v} : disk'[b] = disk[b],
           disk'[v][1] = disk[v][1] \/ disk'[v][1].kind # "commit",
           NEW c, c # v, InUse(c)
    PROVE  InUse(c)'
<1>1. parent \in PairSet /\ c \in {parent[1], parent[2]}
  BY DEF MdirInv, Typed, InUse, Leads
<1>2. parent[1] \in Blocks /\ parent[2] \in Blocks /\ c \in Blocks
  BY <1>1, PairTyped
<1>3. disk'[c] = disk[c]
  BY <1>2
<1>4. \A o \in {parent[1], parent[2]} :
         disk'[o][1] = disk[o][1] \/ disk'[o][1].kind # "commit"
  BY <1>2
<1> QED
  BY <1>1, <1>3, <1>4 DEF InUse, Leads

LEMMA UseMounted ==
    ASSUME Mounted, parent' = parent, NEW c, parent # NoPair => InUse(c)'
    PROVE  Mounted'
<1> SUFFICES ASSUME parent # NoPair PROVE Mounted'
  BY DEF Mounted
<1>1. parent[1] # parent[2] /\ Leads(disk', parent, c)
  BY DEF Mounted, InUse
<1>2. HalvesOn(disk', parent) # {}
  BY <1>1, LeadsCurrent
<1> QED
  BY <1>1, <1>2 DEF Mounted, Halves, HalvesOn

LEMMA EraseStep ==
    ASSUME MdirInv, CompactErase
    PROVE  /\ PhaseInv' /\ SuperInv'
           /\ parent # NoPair => InUse(pair[1]) /\ InUse(pair[1])'
           /\ disk'[pair[1]] = disk[pair[1]]
<1>1. /\ pc = "erase" /\ Erase(Victim) /\ pc' = "program" /\ Typed /\ Mounted
      /\ parent' = parent /\ dir' = dir /\ pair' = pair /\ rev' = rev /\ new' = new
      /\ relocated' = relocated /\ inflight' = inflight
  BY DEF CompactErase, MdirInv, PhaseInv, ldir
<1>2. pc \in Working /\ pc \notin {"append", "verify", "compact"} /\ pc # "check"
      /\ pc' \in Working /\ pc' \notin {"append", "verify", "compact"}
  BY <1>1 DEF Working
<1>3. pair[1] \in Blocks /\ pair[2] \in Blocks /\ pair[1] # pair[2] /\ Victim = pair[2]
  BY <1>2, CommitTouchesOne DEF Victim
<1>4. AheadOf(pair[1], rev) /\ (parent # NoPair => InUse(pair[1]))
  BY <1>2 DEF MdirInv, PhaseInv, WorkInv
<1>5. /\ \A c \in Blocks \ {pair[2]} : disk'[c] = disk[c]
      /\ disk'[pair[2]][1] = disk[pair[2]][1] \/ disk'[pair[2]][1].kind # "commit"
  BY <1>1, <1>3, EraseEffect
<1>6. disk'[pair[1]] = disk[pair[1]]
  BY <1>3, <1>5
<1>7. parent # NoPair => InUse(pair[1])'
  <2>1. ASSUME parent # NoPair, NEW c, c = pair[1] PROVE InUse(c)'
    BY <1>1, <1>3, <1>4, <1>5, <2>1, HeadLost
  <2> QED
    BY <1>1, <2>1 DEF InUse
<1>8. Mounted'
  <2>1. ASSUME NEW c, c = pair[1] PROVE parent # NoPair => InUse(c)'
    BY <1>1, <1>7, <2>1 DEF InUse
  <2> QED
    BY <1>1, <2>1, UseMounted
<1>9. AheadOf(pair[1], rev)'
  BY <1>1, <1>4, <1>6 DEF AheadOf
<1>10. WorkInv'
  BY <1>1, <1>2, <1>7, <1>9 DEF WorkInv, MdirInv, PhaseInv
<1>11. IdleInv' /\ LogEnd' /\ CheckInv'
  BY <1>1 DEF IdleInv, LogEnd, CheckInv
<1>12. SuperInv'
  BY <1>1 DEF SuperInv, MdirInv
<1> QED
  BY <1>4, <1>6, <1>7, <1>8, <1>10, <1>11, <1>12 DEF PhaseInv

LEMMA ProgramStep ==
    ASSUME MdirInv, CompactProg
    PROVE  /\ PhaseInv' /\ SuperInv'
           /\ disk'[pair[1]] = disk[pair[1]]
           /\ parent # NoPair =>
                 /\ InUse(pair[1])
                 /\ InUse(pair[1])' \/ (InUse(Victim)' /\ ReadsBack(Victim, 1)')
<1> DEFINE V == pair[2]
<1>1. /\ pc = "program" /\ Prog(Victim, 1) /\ pc' = "check" /\ Typed /\ Mounted
      /\ parent' = parent /\ dir' = dir /\ pair' = pair /\ rev' = rev /\ new' = new
      /\ relocated' = relocated /\ inflight' = inflight
  BY DEF CompactProg, MdirInv, PhaseInv, ldir
<1>2. pc \in Working /\ pc \notin {"append", "verify", "compact"} /\ pc # "check"
      /\ pc' \in Working /\ pc' \notin {"append", "verify", "compact"}
  BY <1>1 DEF Working
<1>3. /\ pair[1] \in Blocks /\ V \in Blocks /\ pair[1] # V /\ Victim = V /\ new \in Vals
      /\ parent # NoPair => /\ parent[1] # parent[2]
                            /\ parent[1] \in Blocks /\ parent[2] \in Blocks
                            /\ Range(parent) = {parent[1], parent[2]}
  BY <1>2, CommitTouchesOne DEF Victim
<1>4. AheadOf(pair[1], rev) /\ (parent # NoPair => InUse(pair[1]) /\ pair[1] \in Range(parent))
  BY <1>2 DEF MdirInv, PhaseInv, WorkInv
<1>5. SLOTS \in Nat /\ 1 \in 1 .. SLOTS
  BY SlotNumbers
<1> HIDE DEF V
<1>6. /\ \A c \in Blocks \ {V} : disk'[c] = disk[c]
      /\ \A j \in 1 .. SLOTS \ {1} : disk'[V][j] = disk[V][j]
      /\ disk'[V][1] \in {disk[V][1], Junk, Commit(V, 1, new)}
  BY <1>1, <1>3, <1>5, ProgEffect
<1>7. disk'[pair[1]] = disk[pair[1]]
  BY <1>3, <1>6
<1>8. AheadOf(pair[1], rev)'
  BY <1>1, <1>4, <1>7 DEF AheadOf
<1>9. ReadsBack(Victim, 1)' <=> disk'[V][1] = Commit(V, 1, new)
  <2>1. 1 < SLOTS => disk'[V][1 + 1] = disk[V][1 + 1]
    BY <1>5, <1>6
  <2>2. Last(1) \/ 1 < SLOTS
    BY <1>5 DEF Last
  <2>3. Victim' = V
    BY <1>1 DEF Victim, V
  <2>4. Commit(Victim, 1, new)' = Commit(V, 1, new)
    BY <1>1, <2>1, <2>2, <2>3 DEF Commit, Perturb, Last
  <2> QED
    BY <2>3, <2>4 DEF ReadsBack
<1>10. /\ Commit(V, 1, new).kind = "commit" /\ Commit(V, 1, new).rev = rev
       /\ Junk.kind # "commit"
  BY <1>1, <1>3, <1>5, CommitTyped, ContentTyped
<1>11. ASSUME parent # NoPair, ~ReadsBack(Victim, 1)' PROVE InUse(pair[1])'
  <2>1. disk'[V][1] = disk[V][1] \/ disk'[V][1].kind # "commit"
    BY <1>6, <1>9, <1>10, <1>11
  <2>2. ASSUME NEW c, c = pair[1] PROVE InUse(c)'
    BY <1>1, <1>3, <1>4, <1>6, <1>11, <2>1, <2>2, HeadLost
  <2> QED
    BY <1>1, <2>2 DEF InUse
<1>12. ASSUME parent # NoPair, ReadsBack(Victim, 1)', V \notin Range(parent) PROVE InUse(pair[1])'
  <2>1. disk'[parent[1]] = disk[parent[1]] /\ disk'[parent[2]] = disk[parent[2]]
    BY <1>3, <1>6, <1>12
  <2>2. ASSUME NEW c, c = pair[1] PROVE InUse(c)'
    BY <1>1, <1>4, <1>12, <2>1, <2>2, HeadsKept
  <2> QED
    BY <1>1, <2>2 DEF InUse
<1>13. ASSUME parent # NoPair, ReadsBack(Victim, 1)', V \in Range(parent) PROVE Leads(disk', parent, V)
  <2>1. disk'[V][1].kind = "commit" /\ disk'[V][1].rev = rev
    BY <1>9, <1>10, <1>13
  <2>2. {pair[1], V} = {parent[1], parent[2]}
    BY <1>3, <1>4, <1>13
  <2>3. disk[pair[1]][1].kind = "commit" =>
           Newer(rev, disk[pair[1]][1].rev) /\ ~Newer(disk[pair[1]][1].rev, rev)
    <3>1. disk[pair[1]][1].kind = "commit" => disk[pair[1]][1].rev \in 0 .. REVS - 1
      BY <1>1, <1>3, <1>5, ContentTyped DEF Typed
    <3> QED
      BY <1>1, <1>4, <3>1, NewerAnti DEF AheadOf, Typed
  <2>4. CASE V = parent[1] /\ pair[1] = parent[2]
    BY <1>7, <2>1, <2>3, <2>4 DEF Leads
  <2>5. CASE V = parent[2] /\ pair[1] = parent[1]
    BY <1>7, <2>1, <2>3, <2>5 DEF Leads
  <2> QED
    BY <1>3, <2>2, <2>4, <2>5
<1>14. ReadsBack(Victim, 1)' \in BOOLEAN /\ Victim' = V
  BY <1>1 DEF ReadsBack, Victim, V
<1>15. parent # NoPair =>
          InUse(IF ReadsBack(Victim, 1) /\ Victim \in Range(parent) THEN Victim ELSE pair[1])'
  <2>1. CASE ReadsBack(Victim, 1)' /\ V \in Range(parent)
    BY <1>1, <1>13, <1>14, <2>1 DEF InUse
  <2>2. CASE ~(ReadsBack(Victim, 1)' /\ V \in Range(parent))
    BY <1>1, <1>11, <1>12, <1>14, <2>2 DEF InUse
  <2> QED
    BY <2>1, <2>2
<1>16. CheckInv'
  BY <1>1, <1>15 DEF CheckInv
<1>17. WorkInv'
  BY <1>1, <1>2, <1>8 DEF WorkInv, MdirInv, PhaseInv
<1>18. Mounted'
  <2>1. parent # NoPair => \E c : InUse(c)'
    BY <1>1, <1>15 DEF InUse
  <2> QED
    BY <1>1, <2>1, UseMounted DEF Mounted
<1>19. IdleInv' /\ LogEnd' /\ SuperInv'
  BY <1>1 DEF IdleInv, LogEnd, SuperInv, MdirInv
<1>20. parent # NoPair => InUse(pair[1])' \/ (InUse(Victim)' /\ ReadsBack(Victim, 1)')
  BY <1>1, <1>11, <1>12, <1>13, <1>14 DEF InUse
<1> QED
  BY <1>4, <1>7, <1>16, <1>17, <1>18, <1>19, <1>20 DEF PhaseInv

LEMMA AppendStep ==
    ASSUME MdirInv, AppendProg
    PROVE  /\ PhaseInv' /\ SuperInv' /\ parent # NoPair
           /\ InUse(pair[1]) /\ InUse(pair[1])' /\ pair[1] \in Blocks
           /\ \A i \in 1 .. Commits(disk[pair[1]]) : disk'[pair[1]][i] = disk[pair[1]][i]
           /\ \/ Commits(disk'[pair[1]]) = Commits(disk[pair[1]])
              \/ disk'[pair[1]][Commits(disk'[pair[1]])].val = new
<1> DEFINE b == pair[1]
           n == dir.off
<1>1. /\ pc = "append" /\ pc' \in {"verify", "compact"} /\ Typed /\ Mounted
      /\ parent' = parent /\ dir' = dir /\ pair' = pair /\ rev' = rev /\ new' = new
      /\ relocated' = relocated /\ inflight' = inflight
      /\ \/ n < SLOTS /\ Prog(b, n + 1) /\ pc' = "verify"
         \/ n < SLOTS /\ disk' = Put(b, n + 1, Junk) /\ pc' = "compact"
         \/ disk' = disk /\ pc' = "compact"
  BY DEF AppendProg, MdirInv, PhaseInv, ldir
<1>2. pc \in Working /\ pc \in {"append", "verify", "compact"} /\ pc # "check" /\ pc' \in Working
      /\ pc' \in {"append", "verify", "compact"} /\ pc' # "append"
  BY <1>1 DEF Working
<1>3. /\ parent # NoPair /\ b \in Blocks /\ n \in 1 .. SLOTS /\ n = Commits(disk[b])
      /\ disk[b][n].kind = "commit" /\ InUse(b) /\ new \in Vals
  BY <1>1, SlotWritten
<1>4. /\ parent[1] # parent[2] /\ parent[1] \in Blocks /\ parent[2] \in Blocks
  BY <1>2, <1>3, CommitTouchesOne
<1>5. SLOTS \in Nat /\ SLOTS > 0 /\ 1 \in 1 .. SLOTS
  BY SlotNumbers
<1>b. b' = b /\ n' = n
  BY <1>1
<1> HIDE DEF b, n
<1>6. n < SLOTS => n + 1 \in 1 .. SLOTS /\ n + 1 - 1 = n /\ n + 1 # 1
  BY <1>3, <1>5
<1>7. /\ \A c \in Blocks \ {b} : disk'[c] = disk[c]
      /\ \A j \in 1 .. SLOTS \ {n + 1} : disk'[b][j] = disk[b][j]
      /\ n < SLOTS => \/ disk'[b][n + 1] \in {disk[b][n + 1], Junk}
                      \/ pc' = "verify" /\ disk'[b][n + 1] = Commit(b, n + 1, new)
      /\ pc' = "verify" => n < SLOTS
  <2>1. CASE n < SLOTS /\ Prog(b, n + 1) /\ pc' = "verify"
    BY <1>1, <1>3, <1>6, <2>1, ProgEffect
  <2>2. CASE n < SLOTS /\ disk' = Put(b, n + 1, Junk) /\ pc' = "compact"
    <3>1. PICK k \in 1 .. SLOTS : k = n + 1
      BY <1>6, <2>2
    <3>2. /\ \A c \in Blocks \ {b} : Put(b, k, Junk)[c] = disk[c]
          /\ \A j \in 1 .. SLOTS \ {k} : Put(b, k, Junk)[b][j] = disk[b][j]
          /\ Put(b, k, Junk)[b][k] = Junk
      BY <1>1, <1>3, PutJunk
    <3> QED
      BY <2>2, <3>1, <3>2
  <2>3. CASE disk' = disk /\ pc' = "compact"
    BY <2>3
  <2> QED
    BY <1>1, <2>1, <2>2, <2>3
<1>8. \A j \in 1 .. n : disk'[b][j] = disk[b][j]
  BY <1>3, <1>5, <1>7
<1>9. \A c \in Blocks : disk'[c][1] = disk[c][1]
  BY <1>3, <1>5, <1>7, <1>8
<1>10. \A c : InUse(c) => InUse(c)'
  BY <1>1, <1>4, <1>9, HeadsKept
<1>11. ASSUME NEW i \in 2 .. n PROVE Follows(disk'[b], i)
  <2>1. i \in 1 .. n /\ i - 1 \in 1 .. n
    BY <1>3, <1>5
  <2>2. Follows(disk[b], i)
    BY <1>3, LogHasEnd
  <2> QED
    BY <1>8, <2>1, <2>2 DEF Follows
<1>12. ASSUME n < SLOTS, disk'[b][n + 1] \in {disk[b][n + 1], Junk}
       PROVE  Commits(disk'[b]) = n /\ ~Follows(disk'[b], n + 1)
  <2>1. ~Follows(disk[b], n + 1)
    BY <1>3, <1>12, LogHasEnd
  <2>2. disk'[b][n] = disk[b][n]
    BY <1>3, <1>8, <1>5
  <2>3. ~Follows(disk'[b], n + 1)
    BY <1>3, <1>5, <1>6, <1>12, <2>1, <2>2, ContentTyped DEF Follows
  <2> QED
    BY <1>3, <1>11, <2>3, LogEndIs
<1>13. ASSUME n = SLOTS PROVE Commits(disk'[b]) = n
  BY <1>3, <1>5, <1>11, <1>13, LogEndIs
<1>14. ASSUME n < SLOTS, disk'[b][n + 1] = Commit(b, n + 1, new)
       PROVE  Commits(disk'[b]) = n + 1 /\ disk'[b][n + 1].val = new
              /\ Follows(disk'[b], n + 1)
  <2>1. /\ disk'[b][n + 1].kind = "commit" /\ disk'[b][n + 1].val = new
        /\ disk'[b][n + 1].bit = disk[b][n].next
        /\ n + 1 < SLOTS => disk'[b][n + 1].next = 1 - disk[b][n + 1 + 1].bit
    BY <1>1, <1>3, <1>6, <1>14, CommitTyped
  <2>2. disk'[b][n] = disk[b][n]
    BY <1>3, <1>8, <1>5
  <2>3. Follows(disk'[b], n + 1)
    BY <1>3, <1>5, <1>6, <1>14, <2>1, <2>2 DEF Follows
  <2>4. \A i \in 2 .. n + 1 : Follows(disk'[b], i)
    <3> SUFFICES ASSUME NEW i \in 2 .. n + 1 PROVE Follows(disk'[b], i)
      OBVIOUS
    <3>1. i \in 2 .. n \/ i = n + 1
      BY <1>3, <1>5
    <3> QED
      BY <1>11, <2>3, <3>1
  <2>5. n + 1 < SLOTS => ~Follows(disk'[b], n + 1 + 1)
    <3> SUFFICES ASSUME n + 1 < SLOTS PROVE ~Follows(disk'[b], n + 1 + 1)
      OBVIOUS
    <3>1. n + 1 + 1 \in 1 .. SLOTS \ {n + 1} /\ n + 1 + 1 - 1 = n + 1
      BY <1>3, <1>5
    <3>2. disk'[b][n + 1 + 1] = disk[b][n + 1 + 1]
      BY <1>7, <3>1
    <3>3. disk[b][n + 1 + 1] \in Contents
      <4>1. \A i \in 1 .. SLOTS : disk[b][i] \in Contents
        BY <1>1, <1>3 DEF Typed
      <4> QED
        BY <3>1, <4>1
    <3>4. disk[b][n + 1 + 1].bit \in {0, 1}
      BY <3>3, ContentTyped
    <3>5. disk'[b][n + 1 + 1].bit # disk'[b][n + 1].next
      BY <2>1, <3>2, <3>4
    <3> QED
      BY <1>3, <1>5, <3>1, <3>5 DEF Follows
  <2> QED
    BY <1>6, <1>14, <2>1, <2>3, <2>4, <2>5, LogEndIs
<1>15. \/ Commits(disk'[b]) = n
       \/ disk'[b][Commits(disk'[b])].val = new
  BY <1>3, <1>5, <1>7, <1>12, <1>13, <1>14
<1>16. ASSUME pc' = "verify"
       PROVE  Commits(disk'[b]) = IF ReadsBack(b, n + 1)' THEN n + 1 ELSE n
  <2>0. n < SLOTS
    BY <1>7, <1>16
  <2>1. Commit(b, n + 1, new)' = Commit(b, n + 1, new)
    <3>1. disk'[b][n + 1 - 1] = disk[b][n + 1 - 1]
      BY <1>3, <1>5, <1>6, <1>8, <2>0
    <3>2. Last(n + 1) \/ disk'[b][n + 1 + 1] = disk[b][n + 1 + 1]
      <4>1. CASE n + 1 < SLOTS
        <5>1. n + 1 + 1 \in 1 .. SLOTS \ {n + 1}
          BY <1>3, <1>5, <4>1
        <5> QED
          BY <1>7, <5>1
      <4> QED
        BY <1>3, <1>5, <2>0, <4>1 DEF Last
    <3> QED
      BY <1>1, <1>b, <1>3, <1>5, <1>6, <2>0, <3>1, <3>2 DEF Commit, Perturb, Last
  <2>2. ReadsBack(b, n + 1)' <=> disk'[b][n + 1] = Commit(b, n + 1, new)
    BY <1>b, <2>1 DEF ReadsBack
  <2>3. CASE disk'[b][n + 1] = Commit(b, n + 1, new)
    BY <1>14, <2>0, <2>2, <2>3
  <2>4. CASE disk'[b][n + 1] # Commit(b, n + 1, new)
    BY <1>7, <1>12, <2>0, <2>2, <2>4
  <2> QED
    BY <2>3, <2>4
<1>17. /\ ~relocated /\ pair = dir.pair /\ AheadOf(b, (rev + 1) % REVS)
  BY <1>2 DEF MdirInv, PhaseInv, WorkInv, b
<1>18. LogEnd'
  <2>1. dir.rev = disk[b][1].rev
    BY <1>1 DEF MdirInv, PhaseInv, LogEnd, b
  <2>2. pc' = "verify" => n \in 1 .. SLOTS - 1
    BY <1>3, <1>5, <1>7
  <2>3. disk'[b][1] = disk[b][1]
    BY <1>3, <1>9
  <2>4. pc' = "verify" => Commits(disk'[pair'[1]]) =
            IF ReadsBack(pair[1], dir.off + 1)' THEN dir'.off + 1 ELSE dir'.off
    BY <1>1, <1>16 DEF b, n, ReadsBack
  <2> QED
    BY <1>1, <1>2, <1>3, <2>1, <2>2, <2>3, <2>4 DEF LogEnd, b, n
<1>19. InUse(b)' /\ AheadOf(b, (rev + 1) % REVS)'
  BY <1>1, <1>b, <1>3, <1>9, <1>10, <1>17 DEF AheadOf, InUse
<1>20. WorkInv'
  BY <1>1, <1>2, <1>19 DEF WorkInv, MdirInv, PhaseInv, b
<1>21. Mounted'
  <2>1. \E c : InUse(c)'
    BY <1>3, <1>10
  <2> QED
    BY <1>1, <2>1, UseMounted
<1>22. IdleInv' /\ CheckInv' /\ SuperInv'
  BY <1>1 DEF IdleInv, CheckInv, SuperInv, MdirInv
<1> QED
  BY <1>3, <1>8, <1>15, <1>18, <1>19, <1>20, <1>21, <1>22 DEF PhaseInv, b
-----------------------------------------------------------------------------
LEMMA Inductive == ~OpenElsewhere => (MdirInv /\ [Next]_vars => MdirInv')
<1> SUFFICES ASSUME ~OpenElsewhere, MdirInv, [Next]_vars PROVE MdirInv'
  OBVIOUS
<1>1. Typed' /\ Marked'
  BY TypedStep, MarkedStep DEF MdirInv
<1>2. PhaseInv' /\ SuperInv'
  <2>1. CASE UNCHANGED vars
    <3>1. PhaseInv' <=> PhaseInv
      BY <2>1 DEF vars, ldir, PhaseInv, Mounted, IdleInv, WorkInv, LogEnd, CheckInv, InUse,
         AheadOf, Landed, Halves, ReadsBack, Victim, Commit
    <3>2. SuperInv' <=> SuperInv
      BY <2>1 DEF vars, ldir, SuperInv
    <3> QED
      BY <3>1, <3>2 DEF MdirInv
  <2>2. CASE Crash \/ ReadError \/ NoSpace
    BY <2>2, ClosedStep
  <2>3. CASE Open
    BY <2>3, OpenStep
  <2>4. CASE lfs_dir_alloc
    BY <2>4, AllocStep
  <2>5. CASE lfs_dir_commit
    BY <2>5, BeginStep
  <2>6. CASE AppendProg
    BY <2>6, AppendStep
  <2>7. CASE AppendVerify
    BY <2>7, AppendVerifyStep
  <2>8. CASE Compact
    BY <2>8, CompactStep
  <2>9. CASE CompactErase
    BY <2>9, EraseStep
  <2>10. CASE CompactProg
    BY <2>10, ProgramStep
  <2>11. CASE CompactVerify
    BY <2>11, CompactVerifyStep
  <2>12. CASE Relocate
    BY <2>12, RelocateStep
  <2>13. CASE Repoint
    BY <2>13, RepointStep
  <2> QED
    BY <2>1, <2>2, <2>3, <2>4, <2>5, <2>6, <2>7, <2>8, <2>9, <2>10, <2>11, <2>12, <2>13
       DEF Next, CommitStep
<1> QED
  BY <1>1, <1>2 DEF MdirInv

LEMMA Invariance == ~OpenElsewhere /\ Spec => []MdirInv
<1>1. CASE OpenElsewhere
  BY <1>1
<1>2. CASE ~OpenElsewhere
  <2>1. MdirInv /\ [Next]_vars => MdirInv'
    BY <1>2, Inductive
  <2> QED
    BY <2>1, Start, PTL DEF Spec
<1> QED
  BY <1>1, <1>2

(* The pairs kept in memory have two halves.                                  *)
Halved == \A p \in {pair, dir.pair} \ {NoPair} : p[1] # p[2]

LEMMA HalvedStep == Halved /\ MdirInv /\ MdirInv' /\ [Next]_vars => Halved'
<1> SUFFICES ASSUME Halved, MdirInv, MdirInv', [Next]_vars PROVE Halved'
  OBVIOUS
<1>1. pair' # NoPair => pair'[1] # pair'[2]
  <2>1. pc' \in Working => pair'[1] # pair'[2]
    BY DEF MdirInv, PhaseInv, WorkInv
  <2>2. pc' \notin Working => pair' \in {pair, NoPair}
    BY DEF Next, vars, ldir, Crash, Open, lfs_dir_alloc, lfs_dir_commit, ReadError, CommitStep,
       AppendProg, AppendVerify, Compact, CompactErase, CompactProg, CompactVerify, Relocate,
       NoSpace, Repoint, Ack, Fail, Forget, Working
  <2> QED
    BY <2>1, <2>2 DEF Halved
<1>2. dir'.pair # NoPair => dir'.pair[1] # dir'.pair[2]
  <2>1. pc' \in {"idle", "parent"} => dir'.pair[1] # dir'.pair[2]
    BY DEF MdirInv, PhaseInv, IdleInv, CheckInv
  <2>2. pc' \notin {"idle", "parent"} => dir' \in {dir, NoDir}
    BY DEF Next, vars, ldir, Crash, Open, lfs_dir_alloc, lfs_dir_commit, ReadError, CommitStep,
       AppendProg, AppendVerify, Compact, CompactErase, CompactProg, CompactVerify, Relocate,
       NoSpace, Repoint, Ack, Fail, Forget
  <2> QED
    BY <2>1, <2>2 DEF Halved, NoDir
<1> QED
  BY <1>1, <1>2 DEF Halved

(* Revision counts and offsets stay in range, and the halves of a pair are two *)
(* blocks (lfs.c 1784-1824, 1921-2087).                                       *)
THEOREM TypeCorrect == ~OpenElsewhere /\ Spec => []TypeOK
<1>1. Init => Halved
  BY DEF Init, Halved, NoDir
<1>2. MdirInv /\ Halved => TypeOK
  <2> SUFFICES ASSUME MdirInv, Halved PROVE TypeOK
    OBVIOUS
  <2>1. \A p \in {parent, pair, dir.pair} \ {NoPair} : p \in PairSet /\ p[1] # p[2]
    BY DEF MdirInv, Typed, PhaseInv, Mounted, Halved
  <2> QED
    BY <2>1 DEF MdirInv, Typed, Marked, TypeOK, PairSet
<1>3. Halved /\ MdirInv /\ MdirInv' /\ [Next]_vars => Halved'
  BY HalvedStep
<1> QED
  BY <1>1, <1>2, <1>3, Invariance, PTL DEF Spec

(* Between commits the open handle describes the pair just as a mount would    *)
(* find it (1093-1365, 2299-2307, 2050-2061).                                 *)
THEOREM HandleSound == ~OpenElsewhere /\ Spec => []HandleCurrent
<1>1. MdirInv => HandleCurrent
  <2> SUFFICES ASSUME MdirInv, pc = "idle", parent # NoPair
               PROVE  \E e \in BOOLEAN : dir = [Fetch(parent) EXCEPT !.erased = e]
    BY DEF HandleCurrent
  <2>1. /\ Typed /\ Mounted /\ InUse(dir.pair[1]) /\ Range(dir.pair) = Range(parent)
        /\ dir.pair # NoPair /\ dir.pair[1] # dir.pair[2]
        /\ dir.rev = disk[dir.pair[1]][1].rev /\ dir.off = Commits(disk[dir.pair[1]])
    BY DEF MdirInv, PhaseInv, IdleInv
  <2>2. PICK c, o \in Blocks : /\ InUse(c) /\ c # o /\ Range(parent) = {c, o}
                               /\ Fetch(parent) = Mdir(c, o)
    BY <2>1, FetchIs
  <2>3. dir.pair \in PairSet
    BY <2>1 DEF Typed
  <2>4. dir.pair = <<dir.pair[1], dir.pair[2]>> /\ Range(dir.pair) = {dir.pair[1], dir.pair[2]}
    BY <2>3, PairTyped
  <2>5. dir.pair[1] = c
    <3>1. parent[1] # parent[2]
      BY <2>1 DEF Mounted
    <3>2. parent[CurrentOn(disk, parent)] = c
      BY <2>2, <3>1, LeadsCurrent DEF InUse
    <3>3. parent[CurrentOn(disk, parent)] = dir.pair[1]
      BY <2>1, <3>1, LeadsCurrent DEF InUse
    <3> QED
      BY <3>2, <3>3
  <2>6. dir.pair = <<c, o>>
    BY <2>1, <2>2, <2>4, <2>5
  <2>7. dir = [pair |-> <<c, o>>, rev |-> disk[c][1].rev, off |-> Commits(disk[c]),
               erased |-> dir.erased] /\ dir.erased \in BOOLEAN
    <3> HIDE DEF PairSet
    <3> QED
      BY <2>1, <2>5, <2>6 DEF Typed
  <2>8. dir = [Mdir(c, o) EXCEPT !.erased = dir.erased]
    BY <2>7 DEF Mdir
  <2> QED
    BY <2>2, <2>7, <2>8
<1> QED
  BY <1>1, Invariance, PTL
-----------------------------------------------------------------------------
(* What a mount would find.                                                   *)
StoredOn(d, p) ==
    IF p = NoPair THEN NoVal
    ELSE IF HalvesOn(d, p) = {} THEN "corrupt"
    ELSE LET block == d[p[CurrentOn(d, p)]] IN block[Commits(block)].val

LEMMA StoredIs == Stored = StoredOn(disk, parent) /\ Stored' = StoredOn(disk', parent')
  BY DEF Stored, StoredOn, Halves, HalvesOn, Current, CurrentOn

LEMMA StoredLeads ==
    ASSUME NEW d, NEW p, p # NoPair, p[1] # p[2], NEW c, Leads(d, p, c)
    PROVE  StoredOn(d, p) = d[c][Commits(d[c])].val
<1>1. HalvesOn(d, p) # {} /\ p[CurrentOn(d, p)] = c
  BY LeadsCurrent
<1> QED
  BY <1>1 DEF StoredOn

(* Copy on write: a commit never touches what the half in use already holds,   *)
(* until the parent names another pair (1952-2041, 2238-2297).                *)
THEOREM CopyOnWrite == ~OpenElsewhere /\ Spec => LiveUntouched
<1> DEFINE Kept == LET b == parent[Current(parent)]
                   IN  \A i \in 1 .. Commits(disk[b]) : disk'[b][i] = disk[b][i]
<1>1. ASSUME MdirInv, Next, parent # NoPair PROVE Kept
  <2>1. CASE disk' = disk
    BY <2>1
  <2>2. ASSUME AppendProg \/ CompactErase \/ CompactProg PROVE Kept
    <3>1. /\ InUse(pair[1])
          /\ \A i \in 1 .. Commits(disk[pair[1]]) : disk'[pair[1]][i] = disk[pair[1]][i]
      BY <1>1, <2>2, AppendStep, EraseStep, ProgramStep
    <3>2. parent[1] # parent[2]
      BY <1>1 DEF MdirInv, PhaseInv, Mounted
    <3>3. parent[CurrentOn(disk, parent)] = pair[1]
      BY <3>1, <3>2, LeadsCurrent DEF InUse
    <3>4. Current(parent) = CurrentOn(disk, parent)
      BY DEF Current, CurrentOn, Halves, HalvesOn
    <3> QED
      BY <3>1, <3>3, <3>4
  <2> QED
    BY <1>1, <2>1, <2>2 DEF Next, CommitStep, Crash, Open, lfs_dir_alloc, lfs_dir_commit, ReadError,
       AppendVerify, Compact, CompactVerify, Relocate, NoSpace, Repoint
<1>2. MdirInv /\ [Next]_vars => [parent # NoPair /\ parent' = parent => Kept]_vars
  BY <1>1
<1> QED
  BY <1>2, Invariance, PTL DEF Spec, LiveUntouched

(* The superblock stays where a mount looks for it, however worn it is         *)
(* (1943-1946, 2064-2083).                                                    *)
THEOREM SuperblockFixed == ~OpenElsewhere /\ Spec => SuperblockStays
<1>1. ASSUME MdirInv, Next, parent # NoPair, Range(parent) = Superblock
      PROVE  Range(parent') = Superblock
  <2>1. CASE Repoint
    <3>1. dir.pair # NoPair
      BY <1>1, <2>1, LandedLeads, PairTyped DEF Repoint
    <3>2. Range(dir.pair) = Superblock
      BY <1>1, <3>1 DEF MdirInv, SuperInv
    <3> QED
      BY <1>1, <2>1, <3>2 DEF Repoint
  <2> QED
    BY <1>1, <2>1 DEF Next, CommitStep, Crash, Open, lfs_dir_alloc, lfs_dir_commit, ReadError,
       AppendProg, AppendVerify, Compact, CompactErase, CompactProg, CompactVerify, Relocate, NoSpace
<1>2. MdirInv /\ [Next]_vars =>
          [parent # NoPair /\ Range(parent) = Superblock => Range(parent') = Superblock]_vars
  BY <1>1
<1> QED
  BY <1>2, Invariance, PTL DEF Spec, SuperblockStays
-----------------------------------------------------------------------------
(* The atomic cell.                                                          *)
State == IF pc \in {"closed", "idle"} THEN pc ELSE "busy"
Seen  == IF pc = "idle" THEN Value(disk[dir.pair[1]], dir.off) ELSE NoVal

LEMMA NoBlockZero ==
    ASSUME NEW block
    PROVE  Value(block, Commits(block)) = block[Commits(block)].val /\ Value(block, 0) = NoVal
           /\ Value(block, 1) = block[1].val
  BY LogHasEnd, SlotNumbers DEF Value

LEMMA ReadBack == MdirInv /\ pc = "check" /\ ReadsBack(Victim, 1) => Landed(Victim, rev)
  BY ReadBackLanded

LEMMA FindsUse ==
    ASSUME MdirInv, parent # NoPair, NEW c, InUse(c)
    PROVE  Stored = disk[c][Commits(disk[c])].val
  BY StoredIs, StoredLeads DEF MdirInv, PhaseInv, Mounted, InUse

LEMMA FindsUseNext ==
    ASSUME MdirInv', parent' # NoPair, NEW c, Leads(disk', parent', c)
    PROVE  Stored' = disk'[c][Commits(disk'[c])].val
<1>1. parent'[1] # parent'[2]
  BY DEF MdirInv, PhaseInv, Mounted
<1> QED
  BY <1>1, StoredIs, StoredLeads

(* Steps on the disk while a commit is under way.                            *)
LEMMA Settles ==
    ASSUME MdirInv, MdirInv', AppendProg \/ CompactErase \/ CompactProg
    PROVE  Stored' \in {Stored, new}
<1>0. parent' = parent /\ pair' = pair /\ new' = new
  BY DEF AppendProg, CompactErase, CompactProg, ldir
<1>1. CASE parent = NoPair
  BY <1>0, <1>1 DEF Stored
<1>2. CASE parent # NoPair
  <2> DEFINE b == pair[1]
  <2>1. InUse(b)
    BY <1>2, AppendStep, EraseStep, ProgramStep
  <2>2. Stored = disk[b][Commits(disk[b])].val
    BY <1>2, <2>1, FindsUse
  <2>3. CASE AppendProg
    <3>1. /\ InUse(pair[1])'
          /\ \A i \in 1 .. Commits(disk[b]) : disk'[b][i] = disk[b][i]
          /\ \/ Commits(disk'[b]) = Commits(disk[b])
             \/ disk'[b][Commits(disk'[b])].val = new
      BY <2>3, AppendStep
    <3>2. Leads(disk', parent', b)
      BY <1>0, <3>1 DEF InUse
    <3>3. Stored' = disk'[b][Commits(disk'[b])].val
      BY <1>0, <1>2, <3>2, FindsUseNext
    <3>4. Commits(disk[b]) \in 1 .. Commits(disk[b])
      BY LogHasEnd, SlotNumbers
    <3> QED
      BY <2>2, <3>1, <3>3, <3>4
  <2>4. ASSUME CompactErase \/ CompactProg, InUse(b)' PROVE Stored' = Stored
    <3>1. disk'[b] = disk[b]
      BY <2>4, EraseStep, ProgramStep
    <3>2. Leads(disk', parent', b)
      BY <1>0, <2>4 DEF InUse
    <3>3. Stored' = disk'[b][Commits(disk'[b])].val
      BY <1>0, <1>2, <3>2, FindsUseNext
    <3> QED
      BY <2>2, <3>1, <3>3
  <2>5. CASE CompactErase
    <3>1. InUse(b)'
      BY <1>0, <1>2, <2>5, EraseStep DEF InUse
    <3> QED
      BY <2>4, <2>5, <3>1
  <2>6. ASSUME CompactProg, InUse(Victim)', ReadsBack(Victim, 1)' PROVE Stored' = new
    <3> DEFINE V == pair[2]
    <3>0. Victim' = V
      BY <1>0 DEF Victim
    <3>1. Leads(disk', parent', V)
      BY <1>0, <2>6, <3>0 DEF InUse
    <3>2. Stored' = disk'[V][Commits(disk'[V])].val
      BY <1>0, <1>2, <3>1, FindsUseNext
    <3>3. Landed(Victim, rev)'
      <4>1. (MdirInv /\ pc = "check" /\ ReadsBack(Victim, 1) => Landed(Victim, rev))'
        BY ReadBack, PTL
      <4>2. pc' = "check"
        BY <2>6 DEF CompactProg
      <4> QED
        BY <2>6, <4>1, <4>2
    <3> QED
      BY <1>0, <3>0, <3>2, <3>3 DEF Landed
  <2> QED
    BY <1>0, <1>2, <2>3, <2>4, <2>5, <2>6, ProgramStep DEF InUse
<1> QED
  BY <1>1, <1>2

LEMMA CellStep ==
    ASSUME ~OpenElsewhere, MdirInv, MdirInv', [Next]_vars
    PROVE  \/ State' = State /\ Stored' = Stored /\ Seen' = Seen /\ new' = new
           \/ /\ State = "closed" /\ State' = "idle" /\ Seen' = Stored
              /\ Stored' = Stored /\ new' = new
           \/ /\ State = "idle" /\ State' = "busy" /\ Seen' = NoVal /\ new' \in Vals
              /\ Stored' = Stored
           \/ /\ State = "busy" /\ State' = "busy" /\ Seen' = NoVal /\ new' = new
              /\ Stored' \in {Stored, new}
           \/ /\ State = "busy" /\ State' = "idle" /\ Seen' = new /\ new' = NoVal
              /\ Stored' = new
           \/ /\ State = "busy" /\ State' = "closed" /\ Seen' = NoVal /\ new' = NoVal
              /\ Stored' \in {Stored, new}
           \/ /\ State' = "closed" /\ Seen' = NoVal /\ new' = NoVal /\ Stored' = Stored
<1>q. disk' = disk /\ parent' = parent => Stored' = Stored
  BY StoredIs
<1>1. CASE UNCHANGED vars
  BY <1>1, <1>q DEF vars, ldir, State, Seen
<1>2. CASE Crash \/ ReadError \/ NoSpace
  BY <1>2, <1>q DEF Crash, ReadError, NoSpace, Fail, Forget, State, Seen
<1>3. CASE Open
  <2>1. /\ InUse(dir'.pair[1]) /\ dir'.off = Commits(disk[dir'.pair[1]])
        /\ pc = "closed" /\ pc' = "idle" /\ disk' = disk /\ parent' = parent /\ new' = new
        /\ parent # NoPair
    BY <1>3, OpenStep DEF Open, ldir
  <2>2. Stored = Value(disk[dir'.pair[1]], dir'.off)
    BY <2>1, FindsUse, NoBlockZero
  <2> QED
    BY <1>q, <2>1, <2>2 DEF State, Seen
<1>4. CASE lfs_dir_alloc
  <2>1. /\ dir'.off = 0 /\ pc = "closed" /\ pc' = "idle" /\ disk' = disk /\ parent' = parent
        /\ new' = new /\ parent = NoPair
    BY <1>4, AllocStep DEF lfs_dir_alloc, ldir
  <2>2. Stored = NoVal
    BY <2>1 DEF Stored
  <2> QED
    BY <1>q, <2>1, <2>2 DEF State, Seen, Value
<1>5. CASE lfs_dir_commit
  <2>1. new' \in Vals /\ pc = "idle" /\ pc' \in {"append", "compact"} /\ disk' = disk
        /\ parent' = parent
    BY <1>5, BeginStep DEF lfs_dir_commit
  <2> QED
    BY <1>q, <2>1 DEF State, Seen
<1>6. CASE AppendProg \/ CompactErase \/ CompactProg
  <2>1. Stored' \in {Stored, new}
    BY <1>6, Settles
  <2>2. new' = new /\ pc \notin {"closed", "idle"} /\ pc' \notin {"closed", "idle"}
    BY <1>6 DEF AppendProg, CompactErase, CompactProg, ldir
  <2> QED
    BY <2>1, <2>2 DEF State, Seen
<1>7. CASE Compact \/ Relocate
  <2>1. disk' = disk /\ parent' = parent /\ new' = new
        /\ pc \notin {"closed", "idle"} /\ pc' \notin {"closed", "idle"}
    BY <1>7 DEF Compact, Relocate
  <2> QED
    BY <1>q, <2>1 DEF State, Seen
<1>8. CASE AppendVerify
  <2>1. /\ disk' = disk /\ parent' = parent /\ pc = "verify"
        /\ \/ pc' = "idle" /\ new' = NoVal
           \/ pc' = "compact" /\ new' = new
    BY <1>8 DEF AppendVerify, Ack, Forget, ldir
  <2>2. CASE pc' = "idle"
    <3>1. /\ parent # NoPair /\ InUse(dir'.pair[1])
          /\ dir'.off = Commits(disk[dir'.pair[1]]) /\ dir'.off # 0
          /\ disk[dir'.pair[1]][dir'.off].val = new
      BY <1>8, <2>2, AppendVerifyStep
    <3>2. Stored = new
      BY <3>1, FindsUse
    <3>3. Value(disk[dir'.pair[1]], dir'.off) = new
      BY <3>1 DEF Value
    <3> QED
      BY <1>q, <2>1, <2>2, <3>2, <3>3 DEF State, Seen
  <2> QED
    BY <1>q, <2>1, <2>2 DEF State, Seen
<1>9. CASE CompactVerify
  <2>1. /\ disk' = disk /\ parent' = parent /\ pc = "check"
        /\ \/ pc' = "idle" /\ new' = NoVal
           \/ pc' \in {"parent", "relocate"} /\ new' = new
    BY <1>9 DEF CompactVerify, Ack, Forget, ldir
  <2>2. CASE pc' = "idle"
    <3>1. /\ InUse(dir'.pair[1]) /\ Landed(dir'.pair[1], dir'.rev)
          /\ dir'.off = 1 /\ parent # NoPair
      BY <1>9, <2>2, CompactVerifyStep
    <3>2. Stored = new
      BY <3>1, FindsUse DEF Landed
    <3>3. Value(disk[dir'.pair[1]], dir'.off) = new
      BY <3>1 DEF Value, Landed
    <3> QED
      BY <1>q, <2>1, <2>2, <3>2, <3>3 DEF State, Seen
  <2> QED
    BY <1>q, <2>1, <2>2 DEF State, Seen
<1>10. CASE Repoint
  <2>1. /\ pc = "parent" /\ disk' = disk /\ new' = NoVal
        /\ \/ parent' = dir.pair /\ pc' = "idle" /\ dir' = dir
           \/ parent' \in {parent, dir.pair} /\ pc' = "closed"
    BY <1>10 DEF Repoint, Ack, Fail, Forget
  <2>2. /\ dir.pair \in PairSet /\ dir.pair # NoPair /\ dir.pair[1] # dir.pair[2]
        /\ Leads(disk, dir.pair, dir.pair[1]) /\ Landed(dir.pair[1], dir.rev)
        /\ dir.off = 1
    BY <2>1, LandedLeads, PairTyped
  <2>3. parent' = dir.pair => Stored' = new
    <3>1. StoredOn(disk, dir.pair) = new
      BY <2>2, StoredLeads DEF Landed
    <3> QED
      BY <2>1, <3>1, StoredIs
  <2>4. Value(disk[dir.pair[1]], dir.off) = new
    BY <2>2 DEF Value, Landed
  <2> QED
    BY <1>q, <2>1, <2>3, <2>4 DEF State, Seen
<1> QED
  BY <1>1, <1>2, <1>3, <1>4, <1>5, <1>6, <1>7, <1>8, <1>9, <1>10 DEF Next, CommitStep

(* A metadata pair is an atomic cell: whenever power is lost, and whatever     *)
(* programs and erases silently fail, a mount finds the last value committed   *)
(* or the one being committed, and an acknowledged commit is found (1093-1365, *)
(* 1590-1778, 1921-2561).                                                     *)
THEOREM CellImplemented == ~OpenElsewhere /\ Spec => ImplementsCell
<1>1. Init => Cell!Init
  BY DEF Init, Cell!Init, Stored
<1>2. ~OpenElsewhere /\ MdirInv /\ MdirInv' /\ [Next]_vars => [Cell!Next]_(Cell!vars)
  <2> SUFFICES ASSUME ~OpenElsewhere, MdirInv, MdirInv', [Next]_vars
               PROVE  [Cell!Next]_(Cell!vars)
    OBVIOUS
  <2> QED
    BY CellStep DEF State, Seen, Cell!Next, Cell!vars, Cell!Open, Cell!Begin, Cell!Commit,
       Cell!Settle, Cell!Crash
<1>3. CASE OpenElsewhere
  BY <1>3
<1>4. CASE ~OpenElsewhere
  <2>1. MdirInv /\ MdirInv' /\ [Next]_vars => [Cell!Next]_(Cell!vars)
    BY <1>2, <1>4
  <2> QED
    BY <1>1, <1>4, <2>1, Invariance, PTL DEF Spec, ImplementsCell, Cell!Spec
<1> QED
  BY <1>3, <1>4
=============================================================================
